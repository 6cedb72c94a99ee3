----------------------------- MODULE SListProofs -----------------------------
(***************************************************************************)
(* SList keeps its heap one chain and implements HandleList, for any       *)
(* number of nodes, handles, positions and sizes.                          *)
(***************************************************************************)
EXTENDS SList, SeqLemmas

LEMMA CallShape ==
  ASSUME ListAssumption, NEW c \in List!Calls \cup {List!Idle, Lost}
  PROVE  /\ c.op \in {"none", "lost", "Creat", "Insert", "Sethandle", "Gethandle",
                      "Delete", "Add", "Find", "Empty", "Size", "Clear"}
         /\ c.pos \in Int
         /\ c.item \in Items
         /\ c.op = "Creat" => c.pos \in Nat
         /\ c \in List!Calls => c.op \notin {"none", "lost"}
BY DEF ListAssumption, List!Calls, List!Idle, Lost, List!Call, Items, List!Items

LEMMA IdleShape ==
  /\ List!Idle.op = "none" /\ Lost.op = "lost"
  /\ List!Idle \in List!Calls \cup {List!Idle, Lost}
  /\ Lost \in List!Calls \cup {List!Idle, Lost}
BY DEF List!Idle, Lost, List!Call

LEMMA AnswerShape ==
  ASSUME NEW n \in Int, NEW x \in Items, NEW k \in Nat
  PROVE  List!Answer(n, x, k) \in [code : Int, item : Items, pos : Nat]
BY DEF List!Answer

LEMMA NullItem == NULL \in Items
BY DEF Items, List!Items

-----------------------------------------------------------------------------
(***************************************************************************)
(* What each way to change the heap does to the chain.                     *)
(***************************************************************************)

\* The chain's entries are nodes, and its ends are where the pointers say.
LEMMA ChainFacts ==
  ASSUME ListAssumption, TypeOK, ChainInv
  PROVE  /\ Len(chain) \in Nat /\ DOMAIN chain = 1..Len(chain)
         /\ \A k \in 1..Len(chain) : chain[k] \in Nodes /\ chain[k] # NULL
         /\ list = NULL <=> Len(chain) = 0
         /\ list # NULL => list = chain[1]
<1>1. chain \in Seq(Nodes)
  BY DEF TypeOK
<1>2. Len(chain) \in Nat /\ DOMAIN chain = 1..Len(chain)
  BY <1>1
<1>3. \A k \in 1..Len(chain) : chain[k] \in Nodes /\ chain[k] # NULL
  BY <1>1, <1>2 DEF ListAssumption
<1>4. chain = <<>> <=> Len(chain) = 0
  BY <1>1
<1> QED BY <1>2, <1>3, <1>4 DEF ChainInv

LEMMA HeapStays ==
  ASSUME TypeOK, ChainInv, UNCHANGED heapVars,
         call.op # "Clear", call'.op = "Clear" => i' = 0
  PROVE  ChainInv'
<1>1. UNCHANGED <<list, alloc, next, handle, chain>>
  BY DEF heapVars
<1>2. DOMAIN chain \subseteq Nat \ {0}
  BY DEF TypeOK
<1> QED BY <1>1, <1>2 DEF ChainInv

LEMMA LinkKeepsChain ==
  ASSUME ListAssumption, TypeOK, ChainInv, call.op # "Clear", call'.op # "Clear",
         NEW k \in 1..Len(chain), NEW q \in Nodes, NEW x \in Items,
         LinkBehind(chain[k], k, q, x)
  PROVE  /\ ChainInv'
         /\ chain' \in Seq(Nodes) /\ Len(chain') = Len(chain) + 1
         /\ next' \in [Nodes -> Refs] /\ handle' \in [Nodes -> Items]
         /\ alloc' \subseteq Nodes /\ list' \in Refs /\ chain' # <<>>
         /\ \A j \in 1..(Len(chain) + 1) :
              /\ chain'[j] = IF j < k + 1 THEN chain[j]
                             ELSE IF j = k + 1 THEN q ELSE chain[j - 1]
              /\ handle'[chain'[j]] = IF j < k + 1 THEN handle[chain[j]]
                                      ELSE IF j = k + 1 THEN x ELSE handle[chain[j - 1]]
<1> DEFINE n == Len(chain)
           old(j) == IF j < k + 1 THEN j ELSE j - 1
<1>1. /\ n \in Nat /\ n = Len(chain) /\ k \in 1..n /\ DOMAIN chain = 1..n
      /\ \A j \in 1..n : chain[j] \in Nodes /\ chain[j] # NULL
      /\ list = chain[1]
  BY ChainFacts
<1> HIDE DEF n
<1>2. /\ chain' \in Seq(Nodes) /\ Len(chain') = n + 1
      /\ \A j \in 1..(n + 1) :
           chain'[j] = IF j < k + 1 THEN chain[j]
                       ELSE IF j = k + 1 THEN q ELSE chain[j - 1]
  <2>1. k + 1 \in 1..(Len(chain) + 1) /\ chain' = InsertAt(chain, k + 1, q)
    BY <1>1 DEF LinkBehind
  <2>2. chain \in Seq(Nodes)
    BY DEF TypeOK
  <2>3. ASSUME NEW m \in 1..(Len(chain) + 1)
        PROVE  /\ InsertAt(chain, m, q) \in Seq(Nodes)
               /\ Len(InsertAt(chain, m, q)) = Len(chain) + 1
               /\ \A j \in 1..(Len(chain) + 1) :
                    InsertAt(chain, m, q)[j] =
                      IF j < m THEN chain[j] ELSE IF j = m THEN q ELSE chain[j - 1]
    BY <2>2, InsertAtEntries
  <2> QED BY <1>1, <2>1, <2>3
<1>3. DOMAIN chain' = 1..(n + 1) /\ chain' # <<>>
  BY <1>1, <1>2
<1>4. alloc = {chain[j] : j \in 1..n}
  BY <1>1 DEF ChainInv
<1>5. \A j \in 1..n : chain[j] # q
  BY <1>4 DEF LinkBehind
<1>6. /\ next' \in [Nodes -> Refs] /\ handle' \in [Nodes -> Items]
      /\ alloc' \subseteq Nodes /\ list' = list
      /\ \A m \in Nodes : next'[m] = IF m = chain[k] THEN q
                                     ELSE IF m = q THEN next[chain[k]] ELSE next[m]
      /\ \A m \in Nodes : handle'[m] = IF m = q THEN x ELSE handle[m]
  BY <1>1, <1>5 DEF LinkBehind, Refs, TypeOK
<1>7. \A j \in 1..(n + 1) :
        /\ j # k + 1 => old(j) \in 1..n /\ chain'[j] = chain[old(j)]
        /\ j = k + 1 => chain'[j] = q
  BY <1>1, <1>2
<1>8. \A j, m \in DOMAIN chain' : chain'[j] = chain'[m] => j = m
  <2> SUFFICES ASSUME NEW j \in 1..(n + 1), NEW m \in 1..(n + 1), chain'[j] = chain'[m]
               PROVE  j = m
    BY <1>3
  <2>1. \A a, b \in 1..n : chain[a] = chain[b] => a = b
    BY <1>1 DEF ChainInv
  <2> QED BY <1>1, <1>5, <1>7, <2>1
<1>9. list' = chain'[1]
  BY <1>1, <1>2, <1>6
<1>10. \A j \in DOMAIN chain' :
         next'[chain'[j]] = IF j = Len(chain') THEN NULL ELSE chain'[j + 1]
  <2> SUFFICES ASSUME NEW j \in 1..(n + 1)
               PROVE  next'[chain'[j]] = IF j = n + 1 THEN NULL ELSE chain'[j + 1]
    BY <1>2, <1>3
  <2>1. \A a \in 1..n : next[chain[a]] = IF a = n THEN NULL ELSE chain[a + 1]
    BY <1>1 DEF ChainInv
  <2>2. \A a, b \in 1..n : chain[a] = chain[b] => a = b
    BY <1>1 DEF ChainInv
  <2>3. CASE j < k
    <3>1. /\ j \in 1..n /\ j # k /\ j # n /\ chain'[j] = chain[j]
          /\ j + 1 \in 1..(n + 1) /\ chain'[j + 1] = chain[j + 1]
      BY <1>1, <1>2, <2>3
    <3>2. next'[chain[j]] = next[chain[j]]
      BY <1>1, <1>5, <1>6, <2>2, <3>1
    <3>3. next[chain[j]] = chain[j + 1]
      BY <2>1, <3>1
    <3>4. j # n + 1
      BY <1>1, <2>3
    <3> QED BY <3>1, <3>2, <3>3, <3>4
  <2>4. CASE j = k
    BY <1>1, <1>2, <1>6, <2>4
  <2>5. CASE j = k + 1
    <3>1. /\ chain'[j] = q
          /\ k < n => chain'[j + 1] = chain[k + 1]
      BY <1>1, <1>2, <2>5
    <3>2. next'[q] = next[chain[k]]
      BY <1>1, <1>5, <1>6
    <3>3. next[chain[k]] = IF k = n THEN NULL ELSE chain[k + 1]
      BY <1>1, <2>1
    <3>4. CASE k = n
      <4>1. j = n + 1
        BY <2>5, <3>4
      <4> QED BY <3>1, <3>2, <3>3, <3>4, <4>1
    <3>5. CASE k # n
      <4>1. k < n /\ j # n + 1
        BY <1>1, <2>5, <3>5
      <4> QED BY <3>1, <3>2, <3>3, <3>5, <4>1
    <3> QED BY <3>4, <3>5
  <2>6. CASE j > k + 1
    <3>1. /\ j - 1 \in 1..n /\ j - 1 # k /\ chain'[j] = chain[j - 1]
          /\ j < n + 1 => chain'[j + 1] = chain[(j - 1) + 1]
      BY <1>1, <1>2, <2>6
    <3>2. next'[chain[j - 1]] = next[chain[j - 1]]
      BY <1>1, <1>5, <1>6, <2>2, <3>1
    <3> QED BY <1>1, <2>1, <3>1, <3>2
  <2> QED BY <1>1, <2>3, <2>4, <2>5, <2>6
<1>11. alloc' = {chain'[j] : j \in 1..(n + 1)}
  <2>1. alloc' = alloc \cup {q}
    BY DEF LinkBehind
  <2>2. \A j \in 1..n : \E m \in 1..(n + 1) : chain'[m] = chain[j]
    <3> TAKE j \in 1..n
    <3>1. CASE j < k + 1
      BY <1>1, <1>2, <3>1
    <3>2. CASE j >= k + 1
      <4>1. j + 1 \in 1..(n + 1) /\ chain'[j + 1] = chain[j]
        BY <1>1, <1>2, <3>2
      <4> QED BY <4>1
    <3> QED BY <1>1, <3>1, <3>2
  <2>3. k + 1 \in 1..(n + 1) /\ chain'[k + 1] = q
    BY <1>1, <1>2
  <2>4. \A m \in 1..(n + 1) : chain'[m] = q \/ \E j \in 1..n : chain'[m] = chain[j]
    BY <1>7
  <2>5. \A y : y \in alloc' <=> y = q \/ \E j \in 1..n : y = chain[j]
    BY <1>4, <2>1
  <2>6. ASSUME NEW y \in alloc' PROVE \E m \in 1..(n + 1) : y = chain'[m]
    <3>1. CASE y = q
      BY <2>3, <3>1
    <3>2. CASE \E j \in 1..n : y = chain[j]
      BY <2>2, <3>2
    <3> QED BY <2>5, <2>6, <3>1, <3>2
  <2>7. ASSUME NEW m \in 1..(n + 1) PROVE chain'[m] \in alloc'
    BY <2>4, <2>5
  <2> QED BY <2>6, <2>7
<1>12. ChainInv'
  BY <1>3, <1>8, <1>9, <1>10, <1>11 DEF ChainInv
<1>13. \A j \in 1..(n + 1) :
         handle'[chain'[j]] = IF j < k + 1 THEN handle[chain[j]]
                              ELSE IF j = k + 1 THEN x ELSE handle[chain[j - 1]]
  BY <1>1, <1>2, <1>5, <1>6, <1>7
<1>14. list' \in Refs
  BY <1>6 DEF TypeOK
<1> QED BY <1>1, <1>2, <1>3, <1>6, <1>12, <1>13, <1>14

LEMMA UnlinkKeepsChain ==
  ASSUME ListAssumption, TypeOK, ChainInv, call.op # "Clear", call'.op # "Clear",
         NEW k \in 1..(Len(chain) - 1), UnlinkBehind(chain[k], k)
  PROVE  /\ ChainInv'
         /\ chain' \in Seq(Nodes) /\ Len(chain') = Len(chain) - 1
         /\ next' \in [Nodes -> Refs] /\ handle' \in [Nodes -> Items]
         /\ alloc' \subseteq Nodes /\ list' \in Refs
         /\ \A j \in 1..(Len(chain) - 1) :
              /\ chain'[j] = IF j < k + 1 THEN chain[j] ELSE chain[j + 1]
              /\ handle'[chain'[j]] = handle[IF j < k + 1 THEN chain[j] ELSE chain[j + 1]]
<1> DEFINE n == Len(chain)
           q == chain[k + 1]
<1>1. /\ n \in Nat /\ n = Len(chain) /\ DOMAIN chain = 1..n
      /\ k \in 1..n /\ k + 1 \in 1..n /\ k # n
      /\ \A j \in 1..n : chain[j] \in Nodes /\ chain[j] # NULL
      /\ list = chain[1]
  BY ChainFacts
<1>2. /\ \A a, b \in 1..n : chain[a] = chain[b] => a = b
      /\ \A a \in 1..n : next[chain[a]] = IF a = n THEN NULL ELSE chain[a + 1]
      /\ alloc = {chain[j] : j \in 1..n}
  BY <1>1 DEF ChainInv
<1> HIDE DEF n
<1>3. next[chain[k]] = q /\ q \in Nodes /\ q # chain[k]
  <2>1. next[chain[k]] = q
    BY <1>1, <1>2
  <2>2. q \in Nodes
    BY <1>1
  <2>3. k + 1 # k
    BY <1>1
  <2> QED BY <1>1, <1>2, <2>1, <2>2, <2>3
<1>4. /\ chain' \in Seq(Nodes) /\ Len(chain') = n - 1
      /\ \A j \in 1..(n - 1) : chain'[j] = IF j < k + 1 THEN chain[j] ELSE chain[j + 1]
  <2>1. k + 1 \in 1..Len(chain) /\ chain' = RemoveAt(chain, k + 1)
    BY <1>1 DEF UnlinkBehind
  <2>2. chain \in Seq(Nodes)
    BY DEF TypeOK
  <2>3. ASSUME NEW m \in 1..Len(chain)
        PROVE  /\ RemoveAt(chain, m) \in Seq(Nodes)
               /\ Len(RemoveAt(chain, m)) = Len(chain) - 1
               /\ \A j \in 1..(Len(chain) - 1) :
                    RemoveAt(chain, m)[j] = IF j < m THEN chain[j] ELSE chain[j + 1]
    BY <2>2, RemoveAtEntries
  <2> QED BY <1>1, <2>1, <2>3
<1>5. DOMAIN chain' = 1..(n - 1) /\ n - 1 \in Nat /\ n - 1 >= 1
  BY <1>1, <1>4
<1>6. /\ next' \in [Nodes -> Refs] /\ handle' \in [Nodes -> Items]
      /\ alloc' = alloc \ {q} /\ list' = list
      /\ \A m \in Nodes : next'[m] = IF m = q THEN NULL
                                     ELSE IF m = chain[k] THEN next[q] ELSE next[m]
      /\ \A m \in Nodes : m # q => handle'[m] = handle[m]
  BY <1>1, <1>3, NullItem DEF UnlinkBehind, Free, Refs, TypeOK
<1>7. ASSUME NEW j \in 1..(n - 1)
      PROVE  \E m \in 1..n :
               /\ m # k + 1 /\ chain'[j] = chain[m]
               /\ m = IF j < k + 1 THEN j ELSE j + 1
  <2>1. CASE j < k + 1
    BY <1>1, <1>4, <2>1
  <2>2. CASE j >= k + 1
    <3>1. j + 1 \in 1..n /\ j + 1 # k + 1 /\ chain'[j] = chain[j + 1] /\ ~(j < k + 1)
      BY <1>1, <1>4, <2>2
    <3> QED BY <3>1
  <2> QED BY <1>1, <2>1, <2>2
<1>8. \A j, m \in DOMAIN chain' : chain'[j] = chain'[m] => j = m
  <2> SUFFICES ASSUME NEW j \in 1..(n - 1), NEW m \in 1..(n - 1), chain'[j] = chain'[m]
               PROVE  j = m
    BY <1>5
  <2>1. PICK a \in 1..n : chain'[j] = chain[a] /\ a = IF j < k + 1 THEN j ELSE j + 1
    BY <1>7
  <2>2. PICK b \in 1..n : chain'[m] = chain[b] /\ b = IF m < k + 1 THEN m ELSE m + 1
    BY <1>7
  <2>3. a = b
    BY <1>2, <2>1, <2>2
  <2> QED BY <1>1, <2>1, <2>2, <2>3
<1>9. list' = chain'[1] /\ chain' # <<>>
  BY <1>1, <1>4, <1>5, <1>6
<1>10. \A j \in DOMAIN chain' :
         next'[chain'[j]] = IF j = Len(chain') THEN NULL ELSE chain'[j + 1]
  <2> SUFFICES ASSUME NEW j \in 1..(n - 1)
               PROVE  next'[chain'[j]] = IF j = n - 1 THEN NULL ELSE chain'[j + 1]
    BY <1>4, <1>5
  <2>1. CASE j < k
    <3>1. /\ j \in 1..n /\ j # k /\ j # k + 1 /\ j # n /\ j # n - 1
          /\ chain'[j] = chain[j]
          /\ j + 1 \in 1..(n - 1) /\ chain'[j + 1] = chain[j + 1]
      BY <1>1, <1>4, <2>1
    <3>2. chain[j] \in Nodes /\ chain[j] # chain[k] /\ chain[j] # q
      BY <1>1, <1>2, <3>1
    <3>3. next[chain[j]] = chain[j + 1]
      BY <1>2, <3>1
    <3> QED BY <1>6, <3>1, <3>2, <3>3
  <2>2. CASE j = k
    <3>1. chain'[j] = chain[k] /\ next'[chain[k]] = next[q]
      BY <1>1, <1>3, <1>4, <1>6, <2>2
    <3>2. next[q] = IF k + 1 = n THEN NULL ELSE chain[(k + 1) + 1]
      BY <1>1, <1>2
    <3>3. CASE k + 1 = n
      BY <1>1, <2>2, <3>1, <3>2, <3>3
    <3>4. CASE k + 1 # n
      <4>1. j + 1 \in 1..(n - 1) /\ j # n - 1 /\ chain'[j + 1] = chain[(k + 1) + 1]
        BY <1>1, <1>4, <2>2, <3>4
      <4> QED BY <3>1, <3>2, <3>4, <4>1
    <3> QED BY <3>3, <3>4
  <2>3. CASE j > k
    <3>1. /\ j + 1 \in 1..n /\ j + 1 # k /\ j + 1 # k + 1
          /\ chain'[j] = chain[j + 1]
          /\ j + 1 = n <=> j = n - 1
      BY <1>1, <1>4, <2>3
    <3>2. j # n - 1 => chain'[j + 1] = chain[(j + 1) + 1]
      <4> SUFFICES ASSUME j # n - 1 PROVE chain'[j + 1] = chain[(j + 1) + 1]
        OBVIOUS
      <4>1. j + 1 \in 1..(n - 1) /\ ~(j + 1 < k + 1)
        BY <1>1, <2>3
      <4> QED BY <1>4, <4>1
    <3>3. /\ chain[j + 1] \in Nodes /\ chain[j + 1] # chain[k] /\ chain[j + 1] # q
      BY <1>1, <1>2, <3>1
    <3>4. next[chain[j + 1]] = IF j + 1 = n THEN NULL ELSE chain[(j + 1) + 1]
      BY <1>2, <3>1
    <3> QED BY <1>6, <3>1, <3>2, <3>3, <3>4
  <2> QED BY <1>1, <2>1, <2>2, <2>3
<1>11. alloc' = {chain'[j] : j \in 1..(n - 1)}
  <2>1. ASSUME NEW y \in alloc' PROVE \E j \in 1..(n - 1) : y = chain'[j]
    <3>1. PICK m \in 1..n : y = chain[m] /\ m # k + 1
      BY <1>2, <1>6
    <3>2. CASE m < k + 1
      <4>1. m \in 1..(n - 1) /\ chain'[m] = chain[m]
        BY <1>1, <1>4, <3>2
      <4> QED BY <3>1, <4>1
    <3>3. CASE m > k + 1
      <4>1. m - 1 \in 1..(n - 1) /\ chain'[m - 1] = chain[m]
        BY <1>1, <1>4, <3>3
      <4> QED BY <3>1, <4>1
    <3> QED BY <1>1, <3>1, <3>2, <3>3
  <2>2. ASSUME NEW j \in 1..(n - 1) PROVE chain'[j] \in alloc'
    <3>1. PICK m \in 1..n : m # k + 1 /\ chain'[j] = chain[m]
      BY <1>7
    <3> QED BY <1>1, <1>2, <1>6, <3>1
  <2> QED BY <2>1, <2>2
<1>12. ChainInv'
  BY <1>5, <1>8, <1>9, <1>10, <1>11 DEF ChainInv
<1>13. ASSUME NEW j \in 1..(n - 1)
       PROVE  handle'[chain'[j]] = handle[IF j < k + 1 THEN chain[j] ELSE chain[j + 1]]
  <2>1. PICK m \in 1..n : /\ m # k + 1 /\ chain'[j] = chain[m]
                          /\ m = IF j < k + 1 THEN j ELSE j + 1
    BY <1>7
  <2>2. chain[m] \in Nodes /\ chain[m] # q
    BY <1>1, <1>2, <2>1
  <2> QED BY <1>6, <2>1, <2>2
<1>14. alloc' \subseteq Nodes /\ list' \in Refs
  BY <1>6 DEF TypeOK
<1> QED BY <1>1, <1>4, <1>6, <1>12, <1>13, <1>14

-----------------------------------------------------------------------------
(***************************************************************************)
(* Every step keeps the invariant.                                         *)
(***************************************************************************)

LEMMA Below ==
  ASSUME NEW a \in Nat, NEW b \in Nat, a <= b, a # b
  PROVE  a < b /\ a + 1 \in 1..b
OBVIOUS

LEMMA Within ==
  ASSUME NEW b \in Nat, NEW a \in 1..b
  PROVE  a \in Nat /\ a <= b
OBVIOUS

\* Where a walk stands in the chain.
LEMMA WalkFacts ==
  ASSUME ListAssumption, ListInv, call.op \notin {"none", "lost", "Creat"}
  PROVE  /\ i \in Nat /\ i <= Len(chain)
         /\ p = NULL <=> i = Len(chain)
         /\ p # NULL =>
              /\ i + 1 \in 1..Len(chain) /\ p = chain[i + 1] /\ p \in Nodes
              /\ next[p] = IF i + 1 = Len(chain) THEN NULL ELSE chain[(i + 1) + 1]
              /\ next[p] \in Refs
<1> USE DEF ListInv
<1>1. /\ i \in Nat /\ i <= Len(chain)
      /\ p = IF i = Len(chain) THEN NULL ELSE chain[i + 1]
  BY DEF TypeOK, LoopInv
<1>2. /\ Len(chain) \in Nat /\ DOMAIN chain = 1..Len(chain)
      /\ \A k \in 1..Len(chain) : chain[k] \in Nodes /\ chain[k] # NULL
  BY ChainFacts
<1>3. i # Len(chain) => i + 1 \in 1..Len(chain)
  BY <1>1, <1>2, Below
<1>4. p = NULL <=> i = Len(chain)
  BY <1>1, <1>2, <1>3
<1>5. ASSUME p # NULL
      PROVE  /\ i + 1 \in 1..Len(chain) /\ p = chain[i + 1] /\ p \in Nodes
             /\ next[p] = IF i + 1 = Len(chain) THEN NULL ELSE chain[(i + 1) + 1]
             /\ next[p] \in Refs
  <2>1. i + 1 \in 1..Len(chain) /\ p = chain[i + 1] /\ p \in Nodes
    BY <1>1, <1>2, <1>3, <1>4, <1>5
  <2>2. next[p] = IF i + 1 = Len(chain) THEN NULL ELSE chain[(i + 1) + 1]
    BY <1>2, <2>1 DEF ChainInv
  <2>3. next[p] \in Refs
    BY <2>1 DEF TypeOK
  <2> QED BY <2>1, <2>2, <2>3
<1> QED BY <1>1, <1>4, <1>5

\* A call ends and leaves the heap as it is.
LEMMA QuietEnd ==
  ASSUME ListAssumption, ListInv, UNCHANGED heapVars, call.op # "Clear",
         call' \in {List!Idle, Lost}, p' \in Refs, i' \in Nat,
         ret' \in [code : Int, item : Items, pos : Nat]
  PROVE  ListInv'
<1>1. call'.op \in {"none", "lost"}
  BY IdleShape
<1>2. TypeOK'
  BY IdleShape DEF ListInv, TypeOK, heapVars
<1>3. ChainInv'
  BY <1>1, HeapStays DEF ListInv
<1>4. LoopInv'
  BY <1>1 DEF LoopInv
<1> QED BY <1>2, <1>3, <1>4 DEF ListInv

LEMMA QuietReturn ==
  ASSUME ListAssumption, ListInv, UNCHANGED heapVars, call.op # "Clear",
         NEW n \in Int, NEW x \in Items, NEW k \in Nat, Return(List!Answer(n, x, k))
  PROVE  ListInv'
BY QuietEnd, AnswerShape DEF Return, Refs

LEMMA QuietResult ==
  ASSUME ListAssumption, ListInv, UNCHANGED heapVars, call.op # "Clear",
         NEW n \in Int, Result(n)
  PROVE  ListInv'
BY QuietReturn, NullItem DEF Result

LEMMA QuietDerail ==
  ASSUME ListAssumption, ListInv, call.op # "Clear", Derail
  PROVE  ListInv'
BY QuietEnd DEF Derail, ListInv, TypeOK

\* A walk goes one node on, past what its call allows it to pass.
LEMMA AdvanceKeeps ==
  ASSUME ListAssumption, ListInv, call.op \notin {"none", "lost", "Creat", "Clear", "Empty"},
         p # NULL, Advance,
         call.op \in Walkers => i < Target,
         call.op = "Find" => /\ next[p] # NULL
                             /\ handle[p] # call.item
                             /\ handle[next[p]] # call.item
  PROVE  ListInv'
<1>1. UNCHANGED <<list, alloc, next, handle, chain, call, ret>>
      /\ p' = next[p] /\ i' = i + 1
  BY DEF Advance, heapVars
<1>2. /\ i \in Nat /\ i + 1 \in 1..Len(chain) /\ p = chain[i + 1] /\ p \in Nodes
      /\ next[p] = IF i + 1 = Len(chain) THEN NULL ELSE chain[(i + 1) + 1]
      /\ next[p] \in Refs
  BY WalkFacts
<1>3. Len(chain) \in Nat /\ DOMAIN chain = 1..Len(chain)
  BY ChainFacts DEF ListInv
<1>4. TypeOK'
  BY <1>1, <1>2 DEF ListInv, TypeOK
<1>5. ChainInv'
  BY <1>1, HeapStays DEF ListInv, heapVars
<1>6. LoopInv'
  <2>1. i' <= Len(chain')
    BY <1>1, <1>2, <1>3, Within
  <2>2. p' = IF i' = Len(chain') THEN NULL ELSE chain'[i' + 1]
    BY <1>1, <1>2
  <2>3. p' \in alloc' \cup {NULL}
    <3>1. CASE i + 1 = Len(chain)
      BY <1>1, <1>2, <3>1
    <3>2. CASE i + 1 # Len(chain)
      <4>1. (i + 1) + 1 \in DOMAIN chain
        BY <1>2, <1>3, <3>2
      <4>2. alloc = {chain[k] : k \in DOMAIN chain}
        BY DEF ListInv, ChainInv
      <4> QED BY <1>1, <1>2, <3>2, <4>1, <4>2
    <3> QED BY <3>1, <3>2
  <2>4. call'.op \in Walkers => i' <= Target'
    <3> SUFFICES ASSUME call.op \in Walkers PROVE i + 1 <= Target
      BY <1>1 DEF Target
    <3>1. Target \in Int
      BY CallShape DEF Target, ListInv, TypeOK
    <3> QED BY <1>2, <3>1
  <2>5. ASSUME call.op = "Find"
        PROVE  i + 1 < Len(chain) /\ \A k \in 1..((i + 1) + 1) : handle[chain[k]] # call.item
    <3>1. i + 1 < Len(chain) /\ next[p] = chain[(i + 1) + 1]
      <4>1. i + 1 # Len(chain)
        BY <1>2, <2>5
      <4>2. i + 1 \in Nat /\ i + 1 <= Len(chain)
        BY <1>2, <1>3, Within
      <4> QED BY <1>2, <1>3, <4>1, <4>2, Below
    <3>2. \A k \in 1..i : handle[chain[k]] # call.item
      <4>1. CASE i = 0
        BY <4>1
      <4>2. CASE i > 0
        <5>1. \A k \in 1..(i + 1) : handle[chain[k]] # call.item
          BY <2>5, <4>2 DEF ListInv, LoopInv
        <5> QED BY <1>2, <5>1
      <4> QED BY <1>2, <4>1, <4>2
    <3>3. ASSUME NEW k \in 1..((i + 1) + 1) PROVE handle[chain[k]] # call.item
      <4>1. k \in 1..i \/ k = i + 1 \/ k = (i + 1) + 1
        BY <1>2
      <4> QED BY <1>2, <2>5, <3>1, <3>2, <4>1
    <3> QED BY <3>1, <3>3
  <2> QED BY <1>1, <2>1, <2>2, <2>3, <2>4, <2>5 DEF LoopInv
<1> QED BY <1>4, <1>5, <1>6 DEF ListInv

LEMMA InvokeKeeps ==
  ASSUME ListAssumption, ListInv, NEW c \in List!Calls, Invoke(c)
  PROVE  ListInv'
<1>1. /\ c.op \notin {"none", "lost"} /\ c.pos \in Int
      /\ c.op = "Creat" => c.pos \in Nat /\ list = NULL
  BY CallShape DEF Invoke
<1>2. /\ UNCHANGED <<list, alloc, next, handle, chain>> /\ UNCHANGED heapVars
      /\ call.op = "none" /\ call' = c /\ p' = list
      /\ i' = IF c.op = "Creat" THEN c.pos ELSE 0
      /\ ret' = List!Nothing
  BY IdleShape DEF Invoke, heapVars
<1>3. i' \in Nat
  BY <1>1, <1>2
<1>4. TypeOK'
  <2>1. ret' \in [code : Int, item : Items, pos : Nat]
    BY <1>2, AnswerShape, NullItem DEF List!Nothing
  <2>2. call' \in List!Calls \cup {List!Idle, Lost}
    BY <1>2
  <2> QED BY <1>2, <1>3, <2>1, <2>2 DEF ListInv, TypeOK
<1>5. ChainInv'
  BY <1>2, HeapStays DEF ListInv
<1>6. LoopInv'
  <2>1. /\ Len(chain) \in Nat /\ DOMAIN chain = 1..Len(chain)
        /\ list = NULL <=> Len(chain) = 0
        /\ list # NULL => list = chain[1]
        /\ chain = <<>> <=> Len(chain) = 0
    BY ChainFacts DEF ListInv, TypeOK
  <2>2. CASE c.op = "Creat"
    BY <1>1, <1>2, <2>1, <2>2 DEF LoopInv
  <2>3. CASE c.op # "Creat"
    <3>1. i' = 0 /\ i' <= Len(chain') /\ ~(i' > 0)
      BY <1>2, <2>1, <2>3
    <3>2. p' = IF i' = Len(chain') THEN NULL ELSE chain'[i' + 1]
      BY <1>2, <2>1, <3>1
    <3>3. p' \in alloc' \cup {NULL}
      <4>1. alloc = {chain[k] : k \in DOMAIN chain}
        BY <1>2 DEF ListInv, ChainInv
      <4>2. list # NULL => 1 \in DOMAIN chain
        BY <2>1
      <4> QED BY <1>2, <2>1, <4>1, <4>2
    <3> QED BY <1>2, <2>3, <3>1, <3>2, <3>3 DEF LoopInv
  <2> QED BY <2>2, <2>3
<1> QED BY <1>4, <1>5, <1>6 DEF ListInv

LEMMA CreatHeaderKeeps ==
  ASSUME ListAssumption, ListInv, CreatHeader
  PROVE  ListInv'
<1>1. PICK q \in Nodes \ alloc, g \in Items :
        /\ list' = q /\ alloc' = alloc \cup {q} /\ chain' = <<q>>
        /\ next' = [next EXCEPT ![q] = NULL]
        /\ handle' = [handle EXCEPT ![q] = g]
  BY DEF CreatHeader
<1>2. UNCHANGED <<call, p, i, ret>> /\ call.op = "Creat" /\ list = NULL
  BY DEF CreatHeader
<1>3. chain = <<>> /\ alloc = {}
  <2>1. Len(chain) = 0
    BY <1>2, ChainFacts DEF ListInv
  <2>2. chain = <<>>
    BY <2>1 DEF ListInv, TypeOK
  <2> QED BY <2>2 DEF ListInv, ChainInv
<1>4. /\ chain' \in Seq(Nodes) /\ Len(chain') = 1 /\ DOMAIN chain' = {1}
      /\ chain'[1] = q /\ chain' # <<>>
  BY <1>1
<1>5. TypeOK'
  BY <1>1, <1>2, <1>4, NullItem DEF ListInv, TypeOK, Refs
<1>6. next'[q] = NULL
  BY <1>1 DEF ListInv, TypeOK
<1>7. ChainInv'
  BY <1>1, <1>2, <1>3, <1>4, <1>6 DEF ChainInv
<1>8. i = call.pos /\ call.pos \in Int
  BY <1>2, <1>3, CallShape DEF ListInv, TypeOK, LoopInv
<1>9. LoopInv'
  BY <1>2, <1>4, <1>8 DEF LoopInv
<1> QED BY <1>5, <1>7, <1>9 DEF ListInv

LEMMA CreatNodeKeeps ==
  ASSUME ListAssumption, ListInv, CreatNode
  PROVE  ListInv'
<1>1. PICK q \in Nodes : LinkBehind(list, 1, q, NULL)
  BY DEF CreatNode
<1>2. /\ UNCHANGED <<call, p, ret>> /\ call.op = "Creat" /\ list # NULL
      /\ i > 0 /\ i' = i - 1 /\ i \in Nat
  BY DEF CreatNode, ListInv, TypeOK
<1>3. /\ Len(chain) \in Nat /\ list = chain[1] /\ Len(chain) # 0
  BY <1>2, ChainFacts DEF ListInv
<1>4. 1 \in 1..Len(chain) /\ LinkBehind(chain[1], 1, q, NULL)
  BY <1>1, <1>3
<1>5. /\ ChainInv'
      /\ chain' \in Seq(Nodes) /\ Len(chain') = Len(chain) + 1 /\ chain' # <<>>
      /\ next' \in [Nodes -> Refs] /\ handle' \in [Nodes -> Items]
      /\ alloc' \subseteq Nodes /\ list' \in Refs
      /\ \A j \in 1..(Len(chain) + 1) :
           handle'[chain'[j]] = IF j < 1 + 1 THEN handle[chain[j]]
                                ELSE IF j = 1 + 1 THEN NULL ELSE handle[chain[j - 1]]
  BY <1>2, <1>4, LinkKeepsChain, NullItem DEF ListInv
<1>6. TypeOK'
  BY <1>2, <1>5 DEF ListInv, TypeOK
<1>7. /\ i = call.pos + 1 - Len(chain) /\ call.pos \in Int
      /\ \A k \in 2..Len(chain) : handle[chain[k]] = NULL
  <2>1. chain # <<>>
    BY <1>3
  <2>2. call.pos \in Int
    BY CallShape DEF ListInv, TypeOK
  <2> QED BY <1>2, <2>1, <2>2 DEF ListInv, LoopInv
<1>8. i' = call.pos + 1 - Len(chain')
  BY <1>2, <1>3, <1>5, <1>7
<1>9. ASSUME NEW k \in 2..Len(chain') PROVE handle'[chain'[k]] = NULL
  <2> DEFINE n == Len(chain)
  <2>1. n \in Nat /\ k \in 2..(n + 1)
    BY <1>3, <1>5
  <2>2. /\ \A j \in 1..(n + 1) :
             handle'[chain'[j]] = IF j < 1 + 1 THEN handle[chain[j]]
                                  ELSE IF j = 1 + 1 THEN NULL ELSE handle[chain[j - 1]]
        /\ \A j \in 2..n : handle[chain[j]] = NULL
    BY <1>5, <1>7
  <2> HIDE DEF n
  <2>3. CASE k = 2
    BY <2>1, <2>2, <2>3
  <2>4. CASE k # 2
    <3>1. k - 1 \in 2..n /\ k \in 1..(n + 1) /\ ~(k < 1 + 1) /\ k # 1 + 1
      BY <2>1, <2>4
    <3> QED BY <2>2, <3>1
  <2> QED BY <2>3, <2>4
<1>10. LoopInv'
  BY <1>2, <1>5, <1>8, <1>9 DEF LoopInv
<1> QED BY <1>5, <1>6, <1>10 DEF ListInv

\* SL_Insert and SL_Add return with a node more behind p.
LEMMA LinkReturnKeeps ==
  ASSUME ListAssumption, ListInv, call.op \in {"Insert", "Add"}, p # NULL,
         Result(0), NEW q \in Nodes, LinkBehind(p, i + 1, q, call.item)
  PROVE  ListInv'
<1>1. /\ call' = List!Idle /\ p' = NULL /\ i' = 0
      /\ ret' \in [code : Int, item : Items, pos : Nat]
      /\ call'.op = "none"
  BY AnswerShape, NullItem, IdleShape DEF Result, Return
<1>2. i + 1 \in 1..Len(chain) /\ p = chain[i + 1]
  BY WalkFacts
<1>3. call.item \in Items
  BY CallShape DEF ListInv, TypeOK
<1>4. /\ ChainInv'
      /\ chain' \in Seq(Nodes) /\ next' \in [Nodes -> Refs]
      /\ handle' \in [Nodes -> Items] /\ alloc' \subseteq Nodes /\ list' \in Refs
  <2>1. ASSUME NEW k \in 1..Len(chain), LinkBehind(chain[k], k, q, call.item)
        PROVE  /\ ChainInv'
               /\ chain' \in Seq(Nodes) /\ next' \in [Nodes -> Refs]
               /\ handle' \in [Nodes -> Items] /\ alloc' \subseteq Nodes /\ list' \in Refs
    BY <1>1, <1>3, <2>1, LinkKeepsChain DEF ListInv
  <2> QED BY <1>2, <2>1
<1>5. TypeOK'
  BY <1>1, <1>4, IdleShape DEF TypeOK, Refs
<1>6. LoopInv'
  BY <1>1 DEF LoopInv
<1> QED BY <1>4, <1>5, <1>6 DEF ListInv

\* SL_Delete returns with the node behind p gone.
LEMMA UnlinkReturnKeeps ==
  ASSUME ListAssumption, ListInv, call.op = "Delete", p # NULL, next[p] # NULL,
         Return(List!Answer(0, handle[next[p]], 0)), UnlinkBehind(p, i + 1)
  PROVE  ListInv'
<1>1. /\ i + 1 \in 1..Len(chain) /\ p = chain[i + 1] /\ next[p] \in Nodes
      /\ i + 1 # Len(chain)
  BY WalkFacts DEF Refs
<1>2. handle[next[p]] \in Items
  BY <1>1 DEF ListInv, TypeOK
<1>3. /\ call' = List!Idle /\ p' = NULL /\ i' = 0
      /\ ret' \in [code : Int, item : Items, pos : Nat]
      /\ call'.op = "none"
  BY <1>2, AnswerShape, IdleShape DEF Return
<1>4. i + 1 \in 1..(Len(chain) - 1)
  <2>1. Len(chain) \in Nat
    BY ChainFacts DEF ListInv
  <2>2. \A n \in Nat : \A a \in 1..n : a # n => a \in 1..(n - 1)
    OBVIOUS
  <2> QED BY <1>1, <2>1, <2>2
<1>5. /\ ChainInv'
      /\ chain' \in Seq(Nodes) /\ next' \in [Nodes -> Refs]
      /\ handle' \in [Nodes -> Items] /\ alloc' \subseteq Nodes /\ list' \in Refs
  <2>1. ASSUME NEW k \in 1..(Len(chain) - 1), UnlinkBehind(chain[k], k)
        PROVE  /\ ChainInv'
               /\ chain' \in Seq(Nodes) /\ next' \in [Nodes -> Refs]
               /\ handle' \in [Nodes -> Items] /\ alloc' \subseteq Nodes /\ list' \in Refs
    BY <1>3, <2>1, UnlinkKeepsChain DEF ListInv
  <2> QED BY <1>1, <1>4, <2>1
<1>6. TypeOK'
  BY <1>3, <1>5, IdleShape DEF TypeOK, Refs
<1>7. LoopInv'
  BY <1>3 DEF LoopInv
<1> QED BY <1>5, <1>6, <1>7 DEF ListInv

LEMMA SethandleKeeps ==
  ASSUME ListAssumption, ListInv, SethandleReturns
  PROVE  ListInv'
<1>1. CASE Missed
  BY <1>1, QuietResult DEF SethandleReturns
<1>2. CASE ~Missed
  <2>1. /\ call.op = "Sethandle" /\ Result(0)
        /\ handle' = [handle EXCEPT ![p] = call.item]
        /\ UNCHANGED <<list, alloc, next, chain>>
    BY <1>2 DEF SethandleReturns
  <2>2. /\ call' = List!Idle /\ p' = NULL /\ i' = 0
        /\ ret' \in [code : Int, item : Items, pos : Nat]
        /\ call'.op = "none"
    BY <2>1, AnswerShape, NullItem, IdleShape DEF Result, Return
  <2>3. call.item \in Items
    BY CallShape DEF ListInv, TypeOK
  <2>4. TypeOK'
    BY <2>1, <2>2, <2>3, IdleShape DEF ListInv, TypeOK, Refs
  <2>5. ChainInv'
    BY <2>1, <2>2 DEF ListInv, ChainInv
  <2>6. LoopInv'
    BY <2>2 DEF LoopInv
  <2> QED BY <2>4, <2>5, <2>6 DEF ListInv
<1> QED BY <1>1, <1>2

LEMMA ClearNodeKeeps ==
  ASSUME ListAssumption, ListInv, ClearNode
  PROVE  ListInv'
<1>1. /\ call.op = "Clear" /\ p # NULL /\ alloc' = alloc \ {p}
      /\ p' = next[p] /\ i' = i + 1
      /\ UNCHANGED <<list, next, handle, chain, call, ret>>
  BY DEF ClearNode, Free
<1>2. /\ i \in Nat /\ i + 1 \in 1..Len(chain) /\ p = chain[i + 1] /\ p \in Nodes
      /\ next[p] = IF i + 1 = Len(chain) THEN NULL ELSE chain[(i + 1) + 1]
      /\ next[p] \in Refs
  BY <1>1, WalkFacts
<1>3. Len(chain) \in Nat /\ DOMAIN chain = 1..Len(chain)
  BY ChainFacts DEF ListInv
<1>4. TypeOK'
  BY <1>1, <1>2 DEF ListInv, TypeOK
<1>5. alloc' = {chain[k] : k \in {m \in DOMAIN chain : m > i + 1}}
  <2>1. /\ alloc = {chain[k] : k \in {m \in DOMAIN chain : m > i}}
        /\ \A a, b \in DOMAIN chain : chain[a] = chain[b] => a = b
    BY <1>1 DEF ListInv, ChainInv
  <2>2. \A m \in DOMAIN chain : m > i + 1 <=> m > i /\ m # i + 1
    <3>1. \A a, m \in Nat : m > a + 1 <=> m > a /\ m # a + 1
      OBVIOUS
    <3>2. i \in Nat
      BY <1>2
    <3>3. \A m \in DOMAIN chain : m \in Nat
      BY <1>3
    <3> QED BY <3>1, <3>2, <3>3
  <2> QED BY <1>1, <1>2, <1>3, <2>1, <2>2
<1>6. ChainInv'
  BY <1>1, <1>5 DEF ListInv, ChainInv
<1>7. LoopInv'
  <2>1. i' <= Len(chain')
    BY <1>1, <1>2, <1>3, Within
  <2>2. p' = IF i' = Len(chain') THEN NULL ELSE chain'[i' + 1]
    BY <1>1, <1>2
  <2>3. p' \in alloc' \cup {NULL}
    <3>1. CASE i + 1 = Len(chain)
      BY <1>1, <1>2, <3>1
    <3>2. CASE i + 1 # Len(chain)
      <4>1. i + 1 \in Nat /\ i + 1 <= Len(chain)
        BY <1>2, <1>3, Within
      <4>2. (i + 1) + 1 \in DOMAIN chain /\ (i + 1) + 1 > i + 1
        BY <1>3, <3>2, <4>1, Below
      <4> QED BY <1>1, <1>2, <1>5, <3>2, <4>2
    <3> QED BY <3>1, <3>2
  <2> QED BY <1>1, <2>1, <2>2, <2>3 DEF LoopInv, Walkers
<1> QED BY <1>4, <1>6, <1>7 DEF ListInv

LEMMA ClearReturnsKeeps ==
  ASSUME ListAssumption, ListInv, ClearReturns
  PROVE  ListInv'
<1>1. /\ call.op = "Clear" /\ p = NULL /\ Result(0)
      /\ list' = NULL /\ chain' = <<>> /\ alloc' = alloc
      /\ next' = [n \in Nodes |-> NULL] /\ handle' = [n \in Nodes |-> NULL]
  BY DEF ClearReturns
<1>2. /\ call' = List!Idle /\ p' = NULL /\ i' = 0
      /\ ret' \in [code : Int, item : Items, pos : Nat]
      /\ call'.op = "none"
  BY <1>1, AnswerShape, NullItem, IdleShape DEF Result, Return
<1>3. alloc = {}
  <2>1. i = Len(chain) /\ DOMAIN chain = 1..Len(chain) /\ Len(chain) \in Nat
    BY <1>1, WalkFacts, ChainFacts DEF ListInv
  <2>2. alloc = {chain[k] : k \in {m \in DOMAIN chain : m > i}}
    BY <1>1 DEF ListInv, ChainInv
  <2>3. \A m \in DOMAIN chain : ~(m > i)
    BY <2>1
  <2> QED BY <2>2, <2>3
<1>4. TypeOK'
  BY <1>1, <1>2, <1>3, NullItem, IdleShape DEF TypeOK, Refs
<1>5. ChainInv'
  BY <1>1, <1>3 DEF ChainInv
<1>6. LoopInv'
  BY <1>2 DEF LoopInv
<1> QED BY <1>4, <1>5, <1>6 DEF ListInv

\* An invariant of the heap and of the loops over it, for any calls whatever.
LEMMA StepKeeps ==
  ASSUME ListAssumption, ListInv, [Next]_vars
  PROVE  ListInv'
<1>1. CASE \E c \in List!Calls : Invoke(c)
  BY <1>1, InvokeKeeps
<1>2. CASE CreatHeader
  BY <1>2, CreatHeaderKeeps
<1>3. CASE CreatNode
  BY <1>3, CreatNodeKeeps
<1>4. CASE CreatNoMemory \/ CreatReturns
  BY <1>4, QuietResult DEF CreatNoMemory, CreatReturns
<1>5. CASE Walk
  <2>1. /\ call.op \in Walkers /\ p # NULL /\ Advance /\ ~(i >= Target)
    BY <1>5 DEF Walk, Arrived
  <2>2. i < Target
    <3>1. i \in Nat /\ Target \in Int
      BY CallShape DEF Target, ListInv, TypeOK
    <3> QED BY <2>1, <3>1
  <2>3. call.op \notin {"none", "lost", "Creat", "Clear", "Find", "Empty"}
    BY <2>1 DEF Walkers
  <2> QED BY <2>1, <2>2, <2>3, AdvanceKeeps
<1>6. CASE InsertReturns
  <2>1. CASE Result(-1) /\ UNCHANGED heapVars
    BY <1>6, <2>1, QuietResult DEF InsertReturns
  <2>2. CASE ~Missed /\ Result(0) /\ \E q \in Nodes : LinkBehind(p, i + 1, q, call.item)
    BY <1>6, <2>2, LinkReturnKeeps DEF InsertReturns, Missed
  <2> QED BY <1>6, <2>1, <2>2 DEF InsertReturns
<1>7. CASE AddWalk
  BY <1>7, AdvanceKeeps DEF AddWalk, Walkers
<1>8. CASE AddReturns
  <2>1. CASE Result(-1) /\ UNCHANGED heapVars
    BY <1>8, <2>1, QuietResult DEF AddReturns
  <2>2. CASE p # NULL /\ Result(0) /\ \E q \in Nodes : LinkBehind(p, i + 1, q, call.item)
    BY <1>8, <2>2, LinkReturnKeeps DEF AddReturns
  <2> QED BY <1>8, <2>1, <2>2 DEF AddReturns
<1>9. CASE GethandleReturns
  <2>1. CASE Missed
    BY <1>9, <2>1, QuietResult DEF GethandleReturns
  <2>2. CASE ~Missed
    <3>1. handle[p] \in Items
      BY <2>2 DEF Missed, ListInv, TypeOK, Refs
    <3> QED BY <1>9, <2>2, <3>1, QuietReturn DEF GethandleReturns
  <2> QED BY <2>1, <2>2
<1>10. CASE DeleteReturns
  <2>1. CASE next[p] = NULL \/ i > Target
    BY <1>10, <2>1, QuietResult DEF DeleteReturns
  <2>2. CASE ~(next[p] = NULL \/ i > Target)
    BY <1>10, <2>2, UnlinkReturnKeeps DEF DeleteReturns
  <2> QED BY <2>1, <2>2
<1>11. CASE DeleteDerails \/ FindDerails \/ EmptyDerails
  BY <1>11, QuietDerail DEF DeleteDerails, FindDerails, EmptyDerails, Searching
<1>12. CASE SethandleReturns
  BY <1>12, SethandleKeeps
<1>13. CASE FindWalk
  <2>1. call.op = "Find" /\ p # NULL /\ handle[p] # call.item /\ next[p] # NULL
    BY <1>13 DEF FindWalk, Searching
  <2>2. CASE handle[next[p]] = call.item
    <3>1. i + 1 \in Nat
      BY DEF ListInv, TypeOK
    <3> QED BY <1>13, <2>1, <2>2, <3>1, QuietReturn, NullItem DEF FindWalk
  <2>3. CASE handle[next[p]] # call.item
    BY <1>13, <2>1, <2>3, AdvanceKeeps DEF FindWalk, Walkers
  <2> QED BY <2>2, <2>3
<1>14. CASE FindFails
  BY <1>14, QuietResult DEF FindFails
<1>15. CASE EmptyReturns
  BY <1>15, QuietResult DEF EmptyReturns
<1>16. CASE SizeWalk
  BY <1>16, AdvanceKeeps DEF SizeWalk, Walkers
<1>17. CASE SizeReturns
  BY <1>17, QuietResult DEF SizeReturns, ListInv, TypeOK
<1>18. CASE ClearNode
  BY <1>18, ClearNodeKeeps
<1>19. CASE ClearReturns
  BY <1>19, ClearReturnsKeeps
<1>20. CASE UNCHANGED vars
  BY <1>20 DEF vars, heapVars, ListInv, TypeOK, ChainInv, LoopInv, Target
<1> QED BY <1>1, <1>2, <1>3, <1>4, <1>5, <1>6, <1>7, <1>8, <1>9, <1>10, <1>11,
           <1>12, <1>13, <1>14, <1>15, <1>16, <1>17, <1>18, <1>19, <1>20
        DEF Next, Step, Terminated

LEMMA StartKeeps ==
  ASSUME ListAssumption, Init
  PROVE  ListInv
<1> USE DEF Init
<1>1. call.op = "none" /\ call \in List!Calls \cup {List!Idle, Lost}
  BY IdleShape
<1>2. ret \in [code : Int, item : Items, pos : Nat]
  BY AnswerShape, NullItem DEF List!Nothing
<1>3. TypeOK
  BY <1>1, <1>2, NullItem DEF TypeOK, Refs
<1>4. ChainInv
  BY DEF ChainInv
<1>5. LoopInv
  BY <1>1 DEF LoopInv
<1> QED BY <1>3, <1>4, <1>5 DEF ListInv

\* The invariant holds whatever is called and however malloc() fails (List.c).
THEOREM ListAlways == Spec => []ListInv
<1>1. Init => ListInv
  BY ListAssumption, StartKeeps
<1>2. ListInv /\ [Next]_vars => ListInv'
  BY ListAssumption, StepKeeps
<1> QED BY <1>1, <1>2, PTL DEF Spec

\* What is allocated is what the list holds, each node once, and every link
\* leads to the next node or nowhere (List.c:16-305).
THEOREM HeapIsChain == Spec => []ChainInv
<1>1. ListInv => ChainInv
  BY DEF ListInv
<1> QED BY <1>1, ListAlways, PTL

\* A loop is where its counter says: SL_Creat has built what it counted down,
\* and a walk stands on an allocated node or behind the last one, has not gone
\* past its target and has not missed a match (List.c:25-32, 55-59, 131-135,
\* 161-165, 194-198, 224-232, 272-276).
THEOREM WalksInPlace == Spec => []LoopInv
<1>1. ListInv => LoopInv
  BY DEF ListInv
<1> QED BY <1>1, ListAlways, PTL

\* The types of the heap, of a function's locals and of the answers: no counter
\* is ever below zero (List.c:16-305).
THEOREM TypeCorrect == Spec => []TypeOK
<1>1. ListInv => TypeOK
  BY DEF ListInv
<1> QED BY <1>1, ListAlways, PTL

-----------------------------------------------------------------------------
(***************************************************************************)
(* Every step is a step of HandleList, or changes nothing HandleList sees. *)
(***************************************************************************)

LEMMA SlotsShape ==
  ASSUME ListAssumption, ListInv, call.op # "Creat"
  PROVE  /\ Slots \in Seq(Items) /\ Len(Slots) = Len(chain)
         /\ \A k \in 1..Len(chain) : Slots[k] = handle[chain[k]]
<1> DEFINE n == Len(chain)
<1>1. n \in Nat /\ DOMAIN chain = 1..n /\ n = Len(chain)
  BY ChainFacts DEF ListInv
<1>2. \A k \in 1..n : handle[chain[k]] \in Items
  BY <1>1, ChainFacts DEF ListInv, TypeOK
<1> HIDE DEF n
<1>3. Slots = [k \in 1..n |-> handle[chain[k]]]
  BY <1>1 DEF Slots
<1> QED BY <1>1, <1>2, <1>3

\* What the caller sees when the heap stays as it is.
LEMMA SlotsStay ==
  ASSUME UNCHANGED heapVars, call.op = "Creat" <=> call'.op = "Creat"
  PROVE  Slots' = Slots
<1>1. chain' = chain /\ handle' = handle
  BY DEF heapVars
<1> QED BY <1>1 DEF Slots

LEMMA InvokeMaps ==
  ASSUME ListAssumption, ListInv, NEW c \in List!Calls, Invoke(c)
  PROVE  List!Next
<1>1. /\ call = List!Idle /\ call.op = "none" /\ call' = c /\ ret' = List!Nothing
      /\ c.op = "Creat" => list = NULL
      /\ chain' = chain /\ handle' = handle
  BY IdleShape DEF Invoke, heapVars
<1>2. list = NULL => chain = <<>>
  BY ChainFacts DEF ListInv, TypeOK
<1>3. Slots = [k \in DOMAIN chain |-> handle[chain[k]]]
  BY <1>1 DEF Slots
<1>4. c.op = "Creat" => Slots = <<>>
  <2>1. list = NULL => Len(Slots) = 0 /\ Slots \in Seq(Items)
    BY <1>1, <1>2, SlotsShape
  <2> QED BY <1>1, <2>1
<1>5. Slots' = IF c.op = "Creat" THEN <<>> ELSE [k \in DOMAIN chain |-> handle[chain[k]]]
  BY <1>1 DEF Slots
<1>6. Slots' = Slots
  BY <1>3, <1>4, <1>5
<1>7. List!Invoke(c)
  BY <1>1, <1>4, <1>6 DEF List!Invoke
<1> QED BY <1>7 DEF List!Next

\* SL_Creat returns with what it has built.
LEMMA CreatMaps ==
  ASSUME ListAssumption, ListInv, CreatNoMemory \/ CreatReturns
  PROVE  List!Created
<1>1. /\ call.op = "Creat" /\ UNCHANGED heapVars /\ chain' = chain /\ handle' = handle
      /\ CreatReturns => Result(0) /\ list # NULL /\ i = 0
      /\ CreatNoMemory => Result(-1) /\ (list = NULL \/ i > 0)
  BY DEF CreatNoMemory, CreatReturns, heapVars
<1>2. call' = List!Idle /\ call'.op = "none"
  BY <1>1, IdleShape DEF Result, Return
<1>3. Slots' = [k \in DOMAIN chain |-> handle[chain[k]]]
  BY <1>1, <1>2 DEF Slots
<1>4. \A n : Result(n) <=> List!Return("Creat", List!Answer(n, NULL, 0)) /\ p' = NULL /\ i' = 0
  BY <1>1 DEF Result, Return, List!Return
<1>5. CASE list = NULL
  <2>1. chain = <<>>
    BY <1>5, ChainFacts DEF ListInv, TypeOK
  <2>2. Slots' = <<>>
    BY <1>3, <2>1
  <2> QED BY <1>1, <1>4, <1>5, <2>2 DEF List!Created, List!Result
<1>6. CASE list # NULL
  <2> DEFINE m == Len(chain)
  <2>1. m \in Nat /\ m # 0 /\ DOMAIN chain = 1..m /\ chain # <<>> /\ m = Len(chain)
        /\ chain[1] \in Nodes
    BY <1>6, ChainFacts DEF ListInv
  <2>2. /\ i \in Nat /\ call.pos \in Int
        /\ i = call.pos + 1 - m
        /\ \A k \in 2..m : handle[chain[k]] = NULL
    BY <1>1, <2>1, CallShape DEF ListInv, LoopInv, TypeOK
  <2> HIDE DEF m
  <2> DEFINE g == handle[chain[1]]
             n == m - 1
             t == [k \in 1..n |-> NULL]
  <2>3. n \in Nat /\ m = n + 1 /\ n = call.pos - i /\ n \in 0..call.pos
    BY <2>1, <2>2
  <2>4. g \in Items
    BY <2>1 DEF ListInv, TypeOK
  <2> HIDE DEF n, g
  <2>5. /\ <<g>> \in Seq(Items) /\ Len(<<g>>) = 1 /\ <<g>>[1] = g
        /\ t \in Seq(Items) /\ Len(t) = n /\ \A k \in 1..n : t[k] = NULL
    BY <2>3, <2>4, NullItem
  <2> HIDE DEF t
  <2>6. /\ <<g>> \o t \in Seq(Items) /\ Len(<<g>> \o t) = n + 1
        /\ \A k \in 1..(n + 1) : (<<g>> \o t)[k] = IF k = 1 THEN g ELSE NULL
    <3>1. /\ <<g>> \o t \in Seq(Items) /\ Len(<<g>> \o t) = 1 + n
          /\ \A k \in 1..(1 + n) :
               (<<g>> \o t)[k] = IF k <= 1 THEN <<g>>[k] ELSE t[k - 1]
      BY <2>5, ConcatProperties
    <3>2. ASSUME NEW k \in 1..(n + 1)
          PROVE  (<<g>> \o t)[k] = IF k = 1 THEN g ELSE NULL
      <4>1. CASE k = 1
        BY <2>3, <2>5, <3>1, <4>1
      <4>2. CASE k # 1
        <5>1. k \in 1..(1 + n) /\ ~(k <= 1) /\ k - 1 \in 1..n
          BY <2>3, <4>2
        <5> QED BY <2>5, <3>1, <4>2, <5>1
      <4> QED BY <4>1, <4>2
    <3>3. 1 + n = n + 1
      BY <2>3
    <3> QED BY <3>1, <3>2, <3>3
  <2>7. Slots' = [k \in 1..m |-> handle[chain[k]]]
    BY <1>3, <2>1
  <2>8. /\ Slots' \in Seq(Items) /\ Len(Slots') = n + 1
        /\ \A k \in 1..(n + 1) : Slots'[k] = IF k = 1 THEN g ELSE NULL
    <3>1. \A k \in 1..m : handle[chain[k]] = IF k = 1 THEN g ELSE NULL
      BY <2>1, <2>2 DEF g
    <3> QED BY <2>3, <2>4, <2>7, <3>1, NullItem
  <2>9. Slots' = <<g>> \o t
    BY <2>6, <2>8, SeqEqual
  <2>10. List!Result("Creat", IF n = call.pos THEN 0 ELSE -1)
    <3>1. CASE CreatReturns
      <4>1. n = call.pos
        BY <1>1, <2>2, <2>3, <3>1
      <4> QED BY <1>1, <1>4, <3>1, <4>1 DEF List!Result
    <3>2. CASE CreatNoMemory
      <4>1. n # call.pos
        BY <1>1, <1>6, <2>2, <2>3, <3>2
      <4> QED BY <1>1, <1>4, <3>2, <4>1 DEF List!Result
    <3> QED BY <3>1, <3>2
  <2> QED BY <2>3, <2>4, <2>9, <2>10 DEF List!Created, Items, t
<1> QED BY <1>5, <1>6

\* A node behind p is an entry behind that of p.
LEMMA LinkSlots ==
  ASSUME ListAssumption, ListInv, call.op \in {"Insert", "Add"}, p # NULL,
         call'.op = "none", NEW q \in Nodes, LinkBehind(p, i + 1, q, call.item)
  PROVE  Slots' = InsertAt(Slots, (i + 1) + 1, call.item)
<1>1. /\ i \in Nat /\ i + 1 \in 1..Len(chain) /\ p = chain[i + 1]
  BY WalkFacts
<1>2. call.item \in Items
  BY CallShape DEF ListInv, TypeOK
<1>3. /\ Slots \in Seq(Items) /\ Len(Slots) = Len(chain)
      /\ \A k \in 1..Len(chain) : Slots[k] = handle[chain[k]]
  BY SlotsShape
<1> DEFINE n == Len(chain)
<1>4. n \in Nat /\ n = Len(chain)
  BY ChainFacts DEF ListInv
<1> HIDE DEF n
<1>5. PICK k \in 1..n : k = i + 1
  BY <1>1, <1>4
<1>6. /\ Len(chain') = n + 1 /\ chain' \in Seq(Nodes) /\ handle' \in [Nodes -> Items]
      /\ \A j \in 1..(n + 1) :
           handle'[chain'[j]] = IF j < k + 1 THEN handle[chain[j]]
                                ELSE IF j = k + 1 THEN call.item ELSE handle[chain[j - 1]]
  <2>1. k \in 1..Len(chain) /\ LinkBehind(chain[k], k, q, call.item)
    BY <1>1, <1>4, <1>5
  <2> QED BY <1>2, <1>4, <2>1, LinkKeepsChain DEF ListInv
<1>7. Slots' = [j \in 1..(n + 1) |-> handle'[chain'[j]]]
  BY <1>6 DEF Slots
<1>8. \A j \in 1..(n + 1) : handle'[chain'[j]] \in Items
  BY <1>6
<1>9. Slots' \in Seq(Items) /\ Len(Slots') = n + 1
  BY <1>4, <1>7, <1>8
<1> DEFINE t == InsertAt(Slots, k + 1, call.item)
<1>10. /\ t \in Seq(Items) /\ Len(t) = n + 1
       /\ \A j \in 1..(n + 1) :
            t[j] = IF j < k + 1 THEN Slots[j]
                   ELSE IF j = k + 1 THEN call.item ELSE Slots[j - 1]
  <2>1. k + 1 \in 1..(Len(Slots) + 1)
    BY <1>3, <1>4
  <2>2. ASSUME NEW m \in 1..(Len(Slots) + 1)
        PROVE  /\ InsertAt(Slots, m, call.item) \in Seq(Items)
               /\ Len(InsertAt(Slots, m, call.item)) = Len(Slots) + 1
               /\ \A j \in 1..(Len(Slots) + 1) :
                    InsertAt(Slots, m, call.item)[j] =
                      IF j < m THEN Slots[j] ELSE IF j = m THEN call.item ELSE Slots[j - 1]
    BY <1>2, <1>3, InsertAtEntries
  <2> QED BY <1>3, <1>4, <2>1, <2>2
<1> HIDE DEF t
<1>11. ASSUME NEW j \in 1..(n + 1) PROVE Slots'[j] = t[j]
  <2>1. Slots'[j] = handle'[chain'[j]]
    BY <1>7
  <2>2. CASE j < k + 1
    <3>1. j \in 1..n
      BY <1>4, <2>2
    <3> QED BY <1>3, <1>4, <1>6, <1>10, <2>1, <2>2, <3>1
  <2>3. CASE j = k + 1
    <3>1. ~(j < k + 1)
      BY <2>3
    <3> QED BY <1>6, <1>10, <2>1, <2>3, <3>1
  <2>4. CASE j > k + 1
    <3>1. j - 1 \in 1..n /\ ~(j < k + 1) /\ j # k + 1
      BY <1>4, <2>4
    <3> QED BY <1>3, <1>4, <1>6, <1>10, <2>1, <3>1
  <2> QED BY <1>4, <2>2, <2>3, <2>4
<1>12. Slots' = t
  BY <1>9, <1>10, <1>11, SeqEqual
<1> QED BY <1>5, <1>12 DEF t

LEMMA InsertMaps ==
  ASSUME ListAssumption, ListInv, InsertReturns
  PROVE  List!Inserted
<1>1. call.op = "Insert" /\ Arrived
  BY DEF InsertReturns
<1>2. CASE Result(-1) /\ UNCHANGED heapVars
  <2>1. List!Result("Insert", -1) /\ call'.op = "none"
    BY <1>1, <1>2, IdleShape DEF Result, Return, List!Result, List!Return
  <2>2. Slots' = Slots
    BY <1>1, <1>2, <2>1, SlotsStay
  <2> QED BY <2>1, <2>2 DEF List!Inserted
<1>3. CASE ~Missed /\ Result(0) /\ \E q \in Nodes : LinkBehind(p, i + 1, q, call.item)
  <2>1. List!Result("Insert", 0) /\ call'.op = "none"
    BY <1>1, <1>3, IdleShape DEF Result, Return, List!Result, List!Return
  <2>2. p # NULL /\ ~(i > Target) /\ i >= Target /\ Target = call.pos - 1
    BY <1>1, <1>3 DEF Missed, Arrived, Target
  <2>3. i \in Nat /\ i + 1 \in 1..Len(chain) /\ call.pos \in Int
    BY <1>1, <2>2, WalkFacts, CallShape DEF ListInv, TypeOK
  <2>4. call.pos = i + 1
    <3>1. i \in Nat /\ call.pos \in Int
      BY <2>3
    <3> QED BY <2>2, <3>1
  <2>5. call.pos \in 1..Len(Slots)
    BY <1>1, <2>3, <2>4, SlotsShape
  <2>6. Slots' = InsertAt(Slots, call.pos + 1, call.item)
    BY <1>1, <1>3, <2>1, <2>2, <2>4, LinkSlots
  <2> QED BY <2>1, <2>5, <2>6 DEF List!Inserted, List!InsertAt, InsertAt
<1> QED BY <1>2, <1>3 DEF InsertReturns

LEMMA AddMaps ==
  ASSUME ListAssumption, ListInv, AddReturns
  PROVE  List!Added
<1>1. call.op = "Add" /\ (p # NULL => next[p] = NULL)
  BY DEF AddReturns
<1>2. CASE Result(-1) /\ UNCHANGED heapVars
  <2>1. List!Result("Add", -1) /\ call'.op = "none"
    BY <1>1, <1>2, IdleShape DEF Result, Return, List!Result, List!Return
  <2>2. Slots' = Slots
    BY <1>1, <1>2, <2>1, SlotsStay
  <2> QED BY <2>1, <2>2 DEF List!Added
<1>3. CASE p # NULL /\ Result(0) /\ \E q \in Nodes : LinkBehind(p, i + 1, q, call.item)
  <2>1. List!Result("Add", 0) /\ call'.op = "none"
    BY <1>1, <1>3, IdleShape DEF Result, Return, List!Result, List!Return
  <2>2. /\ Slots \in Seq(Items) /\ Len(Slots) = Len(chain)
        /\ call.item \in Items
    BY <1>1, SlotsShape, CallShape DEF ListInv, TypeOK
  <2>3. i + 1 = Len(Slots) /\ i + 1 \in 1..Len(chain)
    <3>1. i + 1 \in 1..Len(chain)
      BY <1>1, <1>3, WalkFacts
    <3>2. i + 1 # Len(chain) => (i + 1) + 1 \in 1..Len(chain)
      <4>1. Len(chain) \in Nat
        BY ChainFacts DEF ListInv
      <4> QED BY <3>1, <4>1, Within, Below
    <3>3. next[p] = IF i + 1 = Len(chain) THEN NULL ELSE chain[(i + 1) + 1]
      BY <1>1, <1>3, WalkFacts
    <3>4. \A k \in 1..Len(chain) : chain[k] # NULL
      BY ChainFacts DEF ListInv
    <3> QED BY <1>1, <1>3, <2>2, <3>1, <3>2, <3>3, <3>4
  <2>4. Slots' = InsertAt(Slots, Len(Slots) + 1, call.item)
    BY <1>1, <1>3, <2>1, <2>3, LinkSlots
  <2>5. Slots' = Append(Slots, call.item)
    BY <2>2, <2>4, InsertAtEnd
  <2>6. Slots # <<>>
    BY <2>2, <2>3
  <2> QED BY <2>1, <2>5, <2>6 DEF List!Added
<1> QED BY <1>2, <1>3 DEF AddReturns

\* Without the node behind p, the list is without the entry behind that of p.
LEMMA UnlinkSlots ==
  ASSUME ListAssumption, ListInv, call.op = "Delete", p # NULL, next[p] # NULL,
         call'.op = "none", UnlinkBehind(p, i + 1)
  PROVE  /\ (i + 1) + 1 \in 1..Len(Slots) /\ i + 1 \in 1..(Len(Slots) - 1)
         /\ handle[next[p]] = Slots[(i + 1) + 1]
         /\ Slots' = RemoveAt(Slots, (i + 1) + 1)
<1>1. /\ i \in Nat /\ i + 1 \in 1..Len(chain) /\ p = chain[i + 1]
      /\ i + 1 # Len(chain) /\ next[p] = chain[(i + 1) + 1]
  BY WalkFacts
<1>2. /\ Slots \in Seq(Items) /\ Len(Slots) = Len(chain)
      /\ \A k \in 1..Len(chain) : Slots[k] = handle[chain[k]]
  BY SlotsShape
<1> DEFINE n == Len(chain)
<1>3. n \in Nat /\ n = Len(chain)
  BY ChainFacts DEF ListInv
<1> HIDE DEF n
<1>4. PICK k \in 1..n : k = i + 1
  BY <1>1, <1>3
<1>5. k \in 1..(n - 1) /\ k + 1 \in 1..n
  BY <1>1, <1>3, <1>4
<1>6. /\ Len(chain') = n - 1 /\ chain' \in Seq(Nodes) /\ handle' \in [Nodes -> Items]
      /\ \A j \in 1..(n - 1) :
           handle'[chain'[j]] = handle[IF j < k + 1 THEN chain[j] ELSE chain[j + 1]]
  <2>1. k \in 1..(Len(chain) - 1) /\ UnlinkBehind(chain[k], k)
    BY <1>1, <1>3, <1>4, <1>5
  <2> QED BY <1>3, <2>1, UnlinkKeepsChain DEF ListInv
<1>7. Slots' = [j \in 1..(n - 1) |-> handle'[chain'[j]]]
  BY <1>6 DEF Slots
<1>8. \A j \in 1..(n - 1) : handle'[chain'[j]] \in Items
  BY <1>6
<1>9. Slots' \in Seq(Items) /\ Len(Slots') = n - 1
  BY <1>3, <1>5, <1>7, <1>8
<1> DEFINE t == RemoveAt(Slots, k + 1)
<1>10. /\ t \in Seq(Items) /\ Len(t) = n - 1
       /\ \A j \in 1..(n - 1) : t[j] = IF j < k + 1 THEN Slots[j] ELSE Slots[j + 1]
  <2>1. k + 1 \in 1..Len(Slots)
    BY <1>2, <1>3, <1>5
  <2>2. ASSUME NEW m \in 1..Len(Slots)
        PROVE  /\ RemoveAt(Slots, m) \in Seq(Items)
               /\ Len(RemoveAt(Slots, m)) = Len(Slots) - 1
               /\ \A j \in 1..(Len(Slots) - 1) :
                    RemoveAt(Slots, m)[j] = IF j < m THEN Slots[j] ELSE Slots[j + 1]
    BY <1>2, RemoveAtEntries
  <2> QED BY <1>2, <1>3, <2>1, <2>2
<1> HIDE DEF t
<1>11. ASSUME NEW j \in 1..(n - 1) PROVE Slots'[j] = t[j]
  <2>1. Slots'[j] = handle'[chain'[j]]
    BY <1>7
  <2>2. CASE j < k + 1
    <3>1. j \in 1..n
      BY <1>3
    <3> QED BY <1>2, <1>3, <1>6, <1>10, <2>1, <2>2, <3>1
  <2>3. CASE ~(j < k + 1)
    <3>1. j + 1 \in 1..n
      BY <1>3
    <3> QED BY <1>2, <1>3, <1>6, <1>10, <2>1, <2>3, <3>1
  <2> QED BY <2>2, <2>3
<1>12. Slots' = t
  BY <1>9, <1>10, <1>11, SeqEqual
<1> QED BY <1>1, <1>2, <1>3, <1>4, <1>5, <1>12 DEF t

LEMMA DeleteMaps ==
  ASSUME ListAssumption, ListInv, DeleteReturns
  PROVE  List!Deleted
<1>1. /\ call.op = "Delete" /\ Arrived /\ p # NULL /\ Target = call.pos - 1
      /\ call.pos \in Int /\ i \in Nat
  BY CallShape DEF DeleteReturns, Target, ListInv, TypeOK
<1>2. /\ i + 1 \in 1..Len(chain)
      /\ next[p] = NULL => i + 1 = Len(chain)
      /\ Len(chain) \in Nat
  <2>1. Len(chain) \in Nat /\ \A k \in 1..Len(chain) : chain[k] # NULL
    BY ChainFacts DEF ListInv
  <2>2. /\ i + 1 \in 1..Len(chain)
        /\ next[p] = IF i + 1 = Len(chain) THEN NULL ELSE chain[(i + 1) + 1]
    BY <1>1, WalkFacts
  <2>3. i + 1 # Len(chain) => (i + 1) + 1 \in 1..Len(chain)
    BY <2>1, <2>2, Within, Below
  <2> QED BY <2>1, <2>2, <2>3
<1>3. Slots \in Seq(Items) /\ Len(Slots) = Len(chain)
  BY <1>1, SlotsShape
<1>4. i >= call.pos - 1 /\ (i > 0 => i <= call.pos - 1)
  <2>1. i >= call.pos - 1
    BY <1>1 DEF Arrived
  <2>2. i > 0 => i <= Target
    BY <1>1 DEF ListInv, LoopInv, Walkers
  <2> QED BY <1>1, <2>1, <2>2
<1>5. CASE next[p] = NULL \/ i > Target
  <2>1. Result(-1) /\ UNCHANGED heapVars
    BY <1>5 DEF DeleteReturns
  <2>2. List!Result("Delete", -1) /\ call'.op = "none"
    BY <1>1, <2>1, IdleShape DEF Result, Return, List!Result, List!Return
  <2>3. Slots' = Slots
    BY <1>1, <2>1, <2>2, SlotsStay
  <2>4. call.pos \notin 1..(Len(Slots) - 1)
    <3>1. \A a, m \in Nat, b \in Int :
            a >= b - 1 /\ (a > 0 => a <= b - 1) /\ (a + 1 = m \/ a > b - 1)
              => b \notin 1..(m - 1)
      OBVIOUS
    <3>2. i + 1 = Len(chain) \/ i > call.pos - 1
      BY <1>1, <1>2, <1>5
    <3> QED BY <1>1, <1>2, <1>3, <1>4, <3>1, <3>2
  <2> QED BY <2>2, <2>3, <2>4 DEF List!Deleted
<1>6. CASE ~(next[p] = NULL \/ i > Target)
  <2>1. Return(List!Answer(0, handle[next[p]], 0)) /\ UnlinkBehind(p, i + 1)
    BY <1>6 DEF DeleteReturns
  <2>2. call.pos = i + 1
    BY <1>1, <1>4, <1>6
  <2>3. call'.op = "none"
    BY <2>1, IdleShape DEF Return
  <2>4. /\ i + 1 \in 1..(Len(Slots) - 1)
        /\ handle[next[p]] = Slots[(i + 1) + 1]
        /\ Slots' = RemoveAt(Slots, (i + 1) + 1)
    BY <1>1, <1>6, <2>1, <2>3, UnlinkSlots
  <2>5. List!Return("Delete", List!Answer(0, Slots[call.pos + 1], 0))
    BY <1>1, <2>1, <2>2, <2>4 DEF Return, List!Return
  <2> QED BY <2>2, <2>4, <2>5 DEF List!Deleted, List!RemoveAt, RemoveAt
<1> QED BY <1>5, <1>6

\* A walk to a position stops there, or finds that there is no such position.
LEMMA PlaceFacts ==
  ASSUME ListAssumption, ListInv, call.op \in {"Gethandle", "Sethandle"}, Arrived
  PROVE  /\ Missed => call.pos \notin 0..(Len(Slots) - 1)
         /\ ~Missed => /\ call.pos \in 0..(Len(Slots) - 1)
                       /\ call.pos + 1 \in 1..Len(chain)
                       /\ p = chain[call.pos + 1] /\ p \in Nodes
                       /\ Slots[call.pos + 1] = handle[p]
<1>1. /\ Target = call.pos /\ call.pos \in Int /\ i \in Nat /\ Len(chain) \in Nat
  BY CallShape, ChainFacts DEF Target, ListInv, TypeOK
<1>2. /\ Len(Slots) = Len(chain)
      /\ \A k \in 1..Len(chain) : Slots[k] = handle[chain[k]]
  BY SlotsShape
<1>3. /\ i > 0 => i <= call.pos
      /\ p = NULL => i = Len(chain)
      /\ p # NULL => i >= call.pos
      /\ p # NULL => i + 1 \in 1..Len(chain) /\ p = chain[i + 1] /\ p \in Nodes
  <2>1. i > 0 => i <= call.pos
    BY <1>1 DEF ListInv, LoopInv, Walkers
  <2>2. /\ p = NULL => i = Len(chain)
        /\ p # NULL => i + 1 \in 1..Len(chain) /\ p = chain[i + 1] /\ p \in Nodes
    BY WalkFacts
  <2> QED BY <1>1, <2>1, <2>2 DEF Arrived
<1>4. ASSUME Missed PROVE call.pos \notin 0..(Len(Slots) - 1)
  <2>1. CASE p = NULL
    <3>1. i = Len(Slots)
      BY <1>2, <1>3, <2>1
    <3>2. \A a \in Nat, b \in Int : (a > 0 => a <= b) => b \notin 0..(a - 1)
      OBVIOUS
    <3> QED BY <1>1, <1>3, <3>1, <3>2
  <2>2. CASE p # NULL
    <3>1. i > call.pos
      BY <1>1, <1>4, <2>2 DEF Missed
    <3>2. call.pos < 0
      BY <1>1, <1>3, <3>1
    <3> QED BY <1>1, <3>2
  <2> QED BY <2>1, <2>2
<1>5. ASSUME ~Missed
      PROVE  /\ call.pos \in 0..(Len(Slots) - 1)
             /\ call.pos + 1 \in 1..Len(chain)
             /\ p = chain[call.pos + 1] /\ p \in Nodes
             /\ Slots[call.pos + 1] = handle[p]
  <2>1. p # NULL /\ ~(i > call.pos)
    BY <1>1, <1>5 DEF Missed
  <2>2. i = call.pos
    BY <1>1, <1>3, <2>1
  <2>3. call.pos \in 0..(Len(Slots) - 1)
    <3>1. \A a, m \in Nat : a + 1 \in 1..m => a \in 0..(m - 1)
      OBVIOUS
    <3> QED BY <1>1, <1>2, <1>3, <2>1, <2>2, <3>1
  <2> QED BY <1>2, <1>3, <2>1, <2>2, <2>3
<1> QED BY <1>4, <1>5

LEMMA GetMaps ==
  ASSUME ListAssumption, ListInv, GethandleReturns
  PROVE  List!Got
<1>1. call.op = "Gethandle" /\ Arrived /\ UNCHANGED heapVars
  BY DEF GethandleReturns
<1>2. CASE Missed
  <2>1. List!Result("Gethandle", -1) /\ call'.op = "none"
    BY <1>1, <1>2, IdleShape DEF GethandleReturns, Result, Return, List!Result, List!Return
  <2>2. Slots' = Slots
    BY <1>1, <2>1, SlotsStay
  <2> QED BY <1>1, <1>2, <2>1, <2>2, PlaceFacts DEF List!Got
<1>3. CASE ~Missed
  <2>1. List!Return("Gethandle", List!Answer(0, handle[p], 0)) /\ call'.op = "none"
    BY <1>1, <1>3, IdleShape DEF GethandleReturns, Return, List!Return
  <2>2. Slots' = Slots
    BY <1>1, <2>1, SlotsStay
  <2> QED BY <1>1, <1>3, <2>1, <2>2, PlaceFacts DEF List!Got
<1> QED BY <1>2, <1>3

LEMMA SetMaps ==
  ASSUME ListAssumption, ListInv, SethandleReturns
  PROVE  List!Stored
<1>1. call.op = "Sethandle" /\ Arrived
  BY DEF SethandleReturns
<1>2. CASE Missed
  <2>1. /\ List!Result("Sethandle", -1) /\ call'.op = "none"
        /\ UNCHANGED heapVars
    BY <1>1, <1>2, IdleShape DEF SethandleReturns, Result, Return, List!Result, List!Return
  <2>2. Slots' = Slots
    BY <1>1, <2>1, SlotsStay
  <2> QED BY <1>1, <1>2, <2>1, <2>2, PlaceFacts DEF List!Stored
<1>3. CASE ~Missed
  <2>1. /\ List!Result("Sethandle", 0) /\ call'.op = "none"
        /\ handle' = [handle EXCEPT ![p] = call.item] /\ chain' = chain
    BY <1>1, <1>3, IdleShape DEF SethandleReturns, Result, Return, List!Result, List!Return
  <2> DEFINE n == Len(chain)
             k == call.pos + 1
  <2>2. /\ n \in Nat /\ n = Len(chain) /\ DOMAIN chain = 1..n
        /\ \A j \in 1..n : chain[j] \in Nodes
        /\ \A a, b \in 1..n : chain[a] = chain[b] => a = b
    BY ChainFacts DEF ListInv, ChainInv
  <2>3. k \in 1..n /\ p = chain[k] /\ call.pos \in 0..(Len(Slots) - 1)
    BY <1>1, <1>3, PlaceFacts
  <2>4. Slots = [j \in 1..n |-> handle[chain[j]]]
    BY <1>1, <2>2 DEF Slots
  <2>5. Slots' = [j \in 1..n |-> handle'[chain[j]]]
    BY <2>1, <2>2 DEF Slots
  <2> HIDE DEF n, k
  <2>6. \A j \in 1..n : handle'[chain[j]] = IF j = k THEN call.item ELSE handle[chain[j]]
    BY <2>1, <2>2, <2>3 DEF ListInv, TypeOK
  <2>7. Slots' = [Slots EXCEPT ![k] = call.item]
    BY <2>3, <2>4, <2>5, <2>6
  <2> QED BY <2>1, <2>3, <2>7 DEF List!Stored, k
<1> QED BY <1>2, <1>3

\* What SL_Find has passed over does not match.
LEMMA SearchFacts ==
  ASSUME ListAssumption, ListInv, Searching
  PROVE  /\ i + 1 \in 1..Len(chain) /\ Len(Slots) = Len(chain)
         /\ \A m \in 1..(i + 1) : Slots[m] # call.item
         /\ next[p] = NULL => i + 1 = Len(chain)
         /\ next[p] # NULL => /\ i + 1 \in 1..(Len(Slots) - 1)
                              /\ Slots[(i + 1) + 1] = handle[next[p]]
<1>1. call.op = "Find" /\ p # NULL /\ handle[p] # call.item
  BY DEF Searching
<1>2. /\ i \in Nat /\ i + 1 \in 1..Len(chain) /\ p = chain[i + 1]
      /\ next[p] = IF i + 1 = Len(chain) THEN NULL ELSE chain[(i + 1) + 1]
  BY <1>1, WalkFacts
<1>3. /\ Len(Slots) = Len(chain) /\ Len(chain) \in Nat
      /\ \A k \in 1..Len(chain) : Slots[k] = handle[chain[k]]
      /\ \A k \in 1..Len(chain) : chain[k] # NULL
  BY <1>1, SlotsShape, ChainFacts DEF ListInv
<1>4. ASSUME NEW m \in 1..(i + 1) PROVE Slots[m] # call.item
  <2>1. m \in 1..Len(chain)
    <3>1. \A a \in Nat, b \in Nat : a + 1 \in 1..b => \A x \in 1..(a + 1) : x \in 1..b
      OBVIOUS
    <3> QED BY <1>2, <1>3, <3>1
  <2>2. handle[chain[m]] # call.item
    <3>1. CASE i = 0
      <4>1. m = i + 1
        BY <3>1
      <4> QED BY <1>1, <1>2, <4>1
    <3>2. CASE i # 0
      <4>1. i > 0
        BY <1>2, <3>2
      <4> QED BY <1>1, <4>1 DEF ListInv, LoopInv
    <3> QED BY <3>1, <3>2
  <2> QED BY <1>3, <2>1, <2>2
<1>5. i + 1 # Len(chain) => (i + 1) + 1 \in 1..Len(chain)
  BY <1>2, <1>3, Within, Below
<1>6. next[p] = NULL => i + 1 = Len(chain)
  BY <1>2, <1>3, <1>5
<1>7. ASSUME next[p] # NULL
      PROVE  i + 1 \in 1..(Len(Slots) - 1) /\ Slots[(i + 1) + 1] = handle[next[p]]
  <2>1. i + 1 # Len(chain) /\ next[p] = chain[(i + 1) + 1]
    BY <1>2, <1>7
  <2>2. \A a \in Nat : \A x \in 1..a : x # a => x \in 1..(a - 1)
    OBVIOUS
  <2> QED BY <1>2, <1>3, <1>5, <2>1, <2>2
<1> QED BY <1>2, <1>3, <1>4, <1>6, <1>7

LEMMA FindMaps ==
  ASSUME ListAssumption, ListInv, FindFails \/ (FindWalk /\ handle[next[p]] = call.item)
  PROVE  HeaderHides \/ List!Found
<1>1. CASE FindFails
  <2>1. /\ List!Result("Find", -1) /\ call'.op = "none" /\ call.op = "Find"
        /\ UNCHANGED heapVars
    BY <1>1, IdleShape DEF FindFails, Result, Return, List!Result, List!Return
  <2>2. Slots' = Slots
    BY <2>1, SlotsStay
  <2>3. Slots = <<>> \/ HeaderHides
    <3>1. p = NULL \/ handle[p] = call.item
      BY <1>1, <2>1 DEF FindFails, Searching
    <3>2. i = 0
      <4>1. ASSUME i # 0 PROVE FALSE
        <5>1. /\ i > 0 /\ i < Len(chain)
              /\ \A k \in 1..(i + 1) : handle[chain[k]] # call.item
          BY <2>1, <4>1 DEF ListInv, LoopInv, TypeOK
        <5>2. p # NULL
          BY <2>1, <5>1, WalkFacts
        <5>3. p = chain[i + 1] /\ i + 1 \in 1..(i + 1)
          BY <2>1, <5>1, <5>2, WalkFacts
        <5> QED BY <3>1, <5>1, <5>2, <5>3
      <4> QED BY <4>1
    <3>3. /\ Len(Slots) = Len(chain) /\ Slots \in Seq(Items)
          /\ \A k \in 1..Len(chain) : Slots[k] = handle[chain[k]]
      BY <2>1, SlotsShape
    <3>4. CASE p = NULL
      <4>1. Len(chain) = 0
        BY <2>1, <3>2, <3>4, WalkFacts
      <4> QED BY <3>3, <4>1
    <3>5. CASE p # NULL
      <4>1. p = list /\ list # NULL
        <5>1. i + 1 \in 1..Len(chain) /\ p = chain[i + 1]
          BY <2>1, <3>5, WalkFacts
        <5> QED BY <3>2, <3>5, <5>1 DEF ListInv, ChainInv
      <4>2. i + 1 \in 1..Len(chain) /\ p = chain[i + 1] /\ i + 1 = 1
        BY <2>1, <3>2, <3>5, WalkFacts
      <4>3. Slots # <<>> /\ Slots[1] = handle[p]
        BY <3>3, <4>2
      <4> QED BY <2>1, <2>2, <3>1, <3>5, <4>3 DEF HeaderHides
    <3> QED BY <3>4, <3>5
  <2>4. Slots = <<>> => \A k \in 2..Len(Slots) : Slots[k] # call.item
    OBVIOUS
  <2> QED BY <2>1, <2>2, <2>3, <2>4 DEF List!Found
<1>2. CASE FindWalk /\ handle[next[p]] = call.item
  <2>1. /\ List!Return("Find", List!Answer(0, NULL, i + 1)) /\ call'.op = "none"
        /\ call.op = "Find" /\ UNCHANGED heapVars /\ Searching /\ next[p] # NULL
    BY <1>2, IdleShape DEF FindWalk, Searching, Return, List!Return
  <2>2. Slots' = Slots
    BY <2>1, SlotsStay
  <2>3. /\ i + 1 \in 1..(Len(Slots) - 1) /\ Slots[(i + 1) + 1] = call.item
        /\ \A m \in 2..(i + 1) : Slots[m] # call.item
    BY <1>2, <2>1, SearchFacts
  <2> QED BY <2>1, <2>2, <2>3 DEF List!Found
<1> QED BY <1>1, <1>2

LEMMA EmptySizeClearMap ==
  ASSUME ListAssumption, ListInv
  PROVE  /\ EmptyReturns => List!Tested \/ OtherCode
         /\ SizeReturns => List!Counted
         /\ ClearReturns => OtherCode
<1>1. ASSUME EmptyReturns PROVE List!Tested \/ OtherCode
  <2>1. /\ call.op = "Empty" /\ p # NULL /\ UNCHANGED heapVars /\ call'.op = "none"
        /\ List!Result("Empty", IF next[p] = NULL THEN 0 ELSE 1)
    BY <1>1, IdleShape DEF EmptyReturns, Result, Return, List!Result, List!Return
  <2>2. Slots' = Slots
    BY <2>1, SlotsStay
  <2>3. /\ Len(Slots) = Len(chain) /\ Slots \in Seq(Items) /\ Len(chain) \in Nat
        /\ \A k \in 1..Len(chain) : chain[k] # NULL
    BY <2>1, SlotsShape, ChainFacts DEF ListInv
  <2>4. i = 0
    BY <2>1 DEF ListInv, LoopInv
  <2>5. /\ Len(chain) # 0
        /\ next[p] = IF 1 = Len(chain) THEN NULL ELSE chain[2]
    <3>1. /\ i + 1 \in 1..Len(chain)
          /\ next[p] = IF i + 1 = Len(chain) THEN NULL ELSE chain[(i + 1) + 1]
      BY <2>1, WalkFacts
    <3> QED BY <2>4, <3>1
  <2>6. next[p] = NULL <=> Len(Slots) = 1
    <3>1. Len(chain) # 1 => 2 \in 1..Len(chain)
      BY <2>3, <2>5
    <3> QED BY <2>3, <2>5, <3>1
  <2>7. /\ Len(Slots) <= 1 <=> Len(Slots) = 1
        /\ Len(Slots) > 1 <=> Len(Slots) # 1
    BY <2>3, <2>5
  <2>8. CASE next[p] = NULL
    BY <2>1, <2>2, <2>6, <2>7, <2>8 DEF List!Tested
  <2>9. CASE next[p] # NULL
    BY <2>1, <2>2, <2>6, <2>7, <2>9 DEF OtherCode
  <2> QED BY <2>8, <2>9
<1>2. ASSUME SizeReturns PROVE List!Counted
  <2>1. /\ call.op = "Size" /\ p = NULL /\ UNCHANGED heapVars /\ call'.op = "none"
        /\ List!Result("Size", i)
    BY <1>2, IdleShape DEF SizeReturns, Result, Return, List!Result, List!Return
  <2>2. Slots' = Slots
    BY <2>1, SlotsStay
  <2>3. i = Len(Slots)
    BY <2>1, WalkFacts, SlotsShape
  <2> QED BY <2>1, <2>2, <2>3 DEF List!Counted
<1>3. ASSUME ClearReturns PROVE OtherCode
  <2>1. /\ chain' = <<>> /\ call'.op = "none" /\ List!Result("Clear", 0)
    BY <1>3, IdleShape DEF ClearReturns, Result, Return, List!Result, List!Return
  <2>2. Slots' = <<>>
    BY <2>1 DEF Slots
  <2> QED BY <2>1, <2>2 DEF OtherCode
<1> QED BY <1>1, <1>2, <1>3

\* Steps inside a loop are not seen.
LEMMA HiddenSteps ==
  ASSUME \/ CreatHeader \/ CreatNode \/ Walk \/ AddWalk \/ SizeWalk \/ ClearNode
         \/ (FindWalk /\ handle[next[p]] # call.item)
         \/ UNCHANGED vars
  PROVE  UNCHANGED List!vars
<1>1. call' = call /\ ret' = ret
  BY DEF CreatHeader, CreatNode, Walk, AddWalk, SizeWalk, ClearNode, FindWalk,
         Advance, vars
<1>2. CASE CreatHeader \/ CreatNode
  BY <1>1, <1>2 DEF CreatHeader, CreatNode, Slots, List!vars
<1>3. CASE ~(CreatHeader \/ CreatNode)
  <2>1. chain' = chain /\ handle' = handle
    BY <1>3 DEF Walk, AddWalk, SizeWalk, ClearNode, FindWalk, Advance, vars, heapVars
  <2> QED BY <1>1, <2>1 DEF Slots, List!vars
<1> QED BY <1>2, <1>3

\* Where a null pointer is followed, there was nothing to come to.
LEMMA DerailMaps ==
  ASSUME ListAssumption, ListInv, DeleteDerails \/ FindDerails \/ EmptyDerails
  PROVE  FollowsNull
<1>1. /\ call' = Lost /\ UNCHANGED heapVars /\ ret' = ret
      /\ call.op \in {"Delete", "Find", "Empty"} /\ call'.op = "lost"
  BY IdleShape DEF DeleteDerails, FindDerails, Searching, EmptyDerails, Derail
<1>2. Slots' = Slots
  BY <1>1, SlotsStay
<1>3. /\ Slots \in Seq(Items) /\ Len(Slots) = Len(chain) /\ Len(chain) \in Nat
      /\ i \in Nat /\ (p = NULL <=> i = Len(chain))
  BY <1>1, SlotsShape, ChainFacts, WalkFacts DEF ListInv
<1>4. CASE DeleteDerails
  <2>1. /\ call.op = "Delete" /\ p = NULL /\ call.op \in Walkers
        /\ Target = call.pos - 1 /\ call.pos \in Int
    BY <1>4, CallShape DEF DeleteDerails, Walkers, Target, ListInv, TypeOK
  <2>2. i = Len(Slots) /\ (i > 0 => i <= Target)
    BY <1>3, <2>1 DEF ListInv, LoopInv
  <2>3. Slots = <<>> \/ call.pos > Len(Slots)
    <3>1. CASE i = 0
      BY <1>3, <2>2, <3>1
    <3>2. CASE i # 0
      BY <1>3, <2>1, <2>2, <3>2
    <3> QED BY <3>1, <3>2
  <2> QED BY <1>1, <1>2, <2>1, <2>3 DEF FollowsNull
<1>5. CASE FindDerails
  <2>1. /\ call.op = "Find" /\ i + 1 = Len(Slots) /\ i + 1 \in 1..Len(chain)
        /\ \A m \in 1..(i + 1) : Slots[m] # call.item
    BY <1>3, <1>5, SearchFacts DEF FindDerails, Searching
  <2>2. Slots # <<>> /\ call.item \notin ToSet(Slots)
    BY <1>3, <2>1 DEF ToSet
  <2> QED BY <1>1, <1>2, <2>1, <2>2 DEF FollowsNull
<1>6. CASE EmptyDerails
  <2>1. call.op = "Empty" /\ p = NULL
    BY <1>6 DEF EmptyDerails
  <2>2. i = 0
    BY <2>1 DEF ListInv, LoopInv
  <2>3. Len(Slots) = 0
    BY <1>3, <2>1, <2>2
  <2>4. Slots = <<>>
    BY <1>3, <2>3
  <2> QED BY <1>1, <1>2, <2>1, <2>4 DEF FollowsNull
<1> QED BY <1>4, <1>5, <1>6

\* Every call does to the list what its comment promises, and answers so, but
\* for calls that follow a null pointer, for SL_Find where
\* the header matches, and for two codes (List.c:16-305).
THEOREM HandleListImplemented == Spec => ImplementsHandleList
<1> DEFINE Allowed == List!Next \/ FollowsNull \/ HeaderHides \/ OtherCode
<1>1. Init => List!Init
  BY IdleShape DEF Init, List!Init, Slots
<1>2. ListInv /\ [Next]_vars => [Allowed]_(List!vars)
  <2> SUFFICES ASSUME ListInv, [Next]_vars PROVE [Allowed]_(List!vars)
    OBVIOUS
  <2>1. CASE \E c \in List!Calls : Invoke(c)
    BY <2>1, ListAssumption, InvokeMaps
  <2>2. CASE CreatNoMemory \/ CreatReturns
    BY <2>2, ListAssumption, CreatMaps DEF List!Next
  <2>3. CASE InsertReturns \/ AddReturns
    BY <2>3, ListAssumption, InsertMaps, AddMaps DEF List!Next
  <2>4. CASE DeleteReturns
    BY <2>4, ListAssumption, DeleteMaps DEF List!Next
  <2>5. CASE GethandleReturns \/ SethandleReturns
    BY <2>5, ListAssumption, GetMaps, SetMaps DEF List!Next
  <2>6. CASE FindFails \/ (FindWalk /\ handle[next[p]] = call.item)
    BY <2>6, ListAssumption, FindMaps DEF List!Next
  <2>7. CASE EmptyReturns \/ SizeReturns \/ ClearReturns
    BY <2>7, ListAssumption, EmptySizeClearMap DEF List!Next
  <2>8. CASE DeleteDerails \/ FindDerails \/ EmptyDerails
    BY <2>8, ListAssumption, DerailMaps
  <2>9. CASE \/ CreatHeader \/ CreatNode \/ Walk \/ AddWalk \/ SizeWalk \/ ClearNode
             \/ (FindWalk /\ handle[next[p]] # call.item)
             \/ UNCHANGED vars
    BY <2>9, HiddenSteps
  <2> QED BY <2>1, <2>2, <2>3, <2>4, <2>5, <2>6, <2>7, <2>8, <2>9
          DEF Next, Step, Terminated
<1> QED BY <1>1, <1>2, ListAlways, PTL DEF Spec, ImplementsHandleList
=============================================================================
