------------------------------ MODULE SeqLemmas ------------------------------
(***************************************************************************)
(* Facts about removing one entry of a sequence, appending one and         *)
(* inserting one, which is what SL_Delete, SL_Add and SL_Insert do to a    *)
(* list, and about its head, its tail and its parts, which is what the     *)
(* queues of packets are changed by.                                       *)
(***************************************************************************)
EXTENDS Integers, Sequences, SequencesExt, SequenceTheorems, TLAPS

\* Removing entry k shifts the entries behind it by one place.
LEMMA RemoveAtEntries ==
  ASSUME NEW S, NEW s \in Seq(S), NEW k \in 1..Len(s)
  PROVE  /\ RemoveAt(s, k) \in Seq(S)
         /\ Len(RemoveAt(s, k)) = Len(s) - 1
         /\ \A j \in 1..(Len(s) - 1) :
              RemoveAt(s, k)[j] = IF j < k THEN s[j] ELSE s[j + 1]
<1> DEFINE l == SubSeq(s, 1, k - 1)
           r == SubSeq(s, k + 1, Len(s))
<1>1. /\ Len(s) \in Nat /\ \A j \in 1..Len(s) : s[j] \in S
  BY LenProperties, ElementOfSeq
<1>2. /\ l \in Seq(S) /\ Len(l) = k - 1
      /\ \A j \in 1..(k - 1) : l[j] = s[j]
  BY <1>1, SubSeqProperties, Z3
<1>3. /\ r \in Seq(S) /\ Len(r) = Len(s) - k
      /\ \A j \in 1..(Len(s) - k) : r[j] = s[k + j]
  BY <1>1, SubSeqProperties, Z3
<1>4. /\ l \o r \in Seq(S)
      /\ Len(l \o r) = Len(l) + Len(r)
      /\ \A j \in 1..(Len(l) + Len(r)) :
           (l \o r)[j] = IF j <= Len(l) THEN l[j] ELSE r[j - Len(l)]
  BY <1>2, <1>3, ConcatProperties
<1> DEFINE t == l \o r
<1>5. RemoveAt(s, k) = t
  BY DEF RemoveAt
<1> HIDE DEF l, r
<1>6. /\ t \in Seq(S) /\ Len(t) = Len(s) - 1
      /\ \A j \in 1..(Len(s) - 1) :
           t[j] = IF j <= k - 1 THEN l[j] ELSE r[j - (k - 1)]
  BY <1>1, <1>2, <1>3, <1>4
<1> HIDE DEF t
<1>7. ASSUME NEW j \in 1..(Len(s) - 1)
      PROVE  t[j] = IF j < k THEN s[j] ELSE s[j + 1]
  <2>1. t[j] = IF j <= k - 1 THEN l[j] ELSE r[j - (k - 1)]
    BY <1>6
  <2>2. CASE j < k
    BY <1>2, <2>1, <2>2
  <2>3. CASE j >= k
    <3>1. j - (k - 1) \in 1..(Len(s) - k) /\ k + (j - (k - 1)) = j + 1
      BY <1>1, <2>3
    <3> QED BY <1>1, <1>3, <2>1, <2>3, <3>1
  <2> QED BY <1>1, <2>2, <2>3
<1> QED BY <1>5, <1>6, <1>7

\* What is left after a removal is the other entries.
LEMMA RemoveAtSet ==
  ASSUME NEW S, NEW s \in Seq(S), NEW k \in 1..Len(s),
         \A a, b \in 1..Len(s) : s[a] = s[b] => a = b
  PROVE  /\ ToSet(RemoveAt(s, k)) = ToSet(s) \ {s[k]}
         /\ \A a, b \in 1..Len(RemoveAt(s, k)) :
              RemoveAt(s, k)[a] = RemoveAt(s, k)[b] => a = b
<1> DEFINE t == RemoveAt(s, k)
<1>1. /\ t \in Seq(S) /\ Len(t) = Len(s) - 1
      /\ \A j \in 1..(Len(s) - 1) : t[j] = IF j < k THEN s[j] ELSE s[j + 1]
  BY RemoveAtEntries
<1>2. Len(s) \in Nat /\ DOMAIN s = 1..Len(s) /\ DOMAIN t = 1..(Len(s) - 1)
  BY <1>1, LenProperties
<1> HIDE DEF t
<1>3. ASSUME NEW x \in ToSet(t) PROVE x \in ToSet(s) \ {s[k]}
  <2>1. PICK j \in 1..(Len(s) - 1) : x = t[j]
    BY <1>2 DEF ToSet
  <2>2. PICK m \in 1..Len(s) : m # k /\ x = s[m]
    BY <1>1, <1>2, <2>1
  <2> QED BY <1>2, <2>2 DEF ToSet
<1>4. ASSUME NEW x \in ToSet(s) \ {s[k]} PROVE x \in ToSet(t)
  <2>1. PICK m \in 1..Len(s) : x = s[m] /\ m # k
    BY <1>2 DEF ToSet
  <2>2. PICK j \in 1..(Len(s) - 1) : t[j] = x
    <3>1. CASE m < k
      BY <1>1, <1>2, <2>1, <3>1
    <3>2. CASE m > k
      <4>1. m - 1 \in 1..(Len(s) - 1) /\ t[m - 1] = s[m]
        BY <1>1, <1>2, <3>2
      <4> QED BY <4>1, <2>1
    <3> QED BY <1>2, <2>1, <3>1, <3>2
  <2> QED BY <1>2, <2>2 DEF ToSet
<1>5. ASSUME NEW a \in 1..Len(t), NEW b \in 1..Len(t), t[a] = t[b]
      PROVE  a = b
  BY <1>1, <1>2, <1>5
<1> QED BY <1>3, <1>4, <1>5 DEF t

\* Appending a new entry keeps the entries distinct.
LEMMA AppendSet ==
  ASSUME NEW S, NEW s \in Seq(S), NEW e \in S
  PROVE  /\ Append(s, e) \in Seq(S)
         /\ Len(Append(s, e)) = Len(s) + 1
         /\ ToSet(Append(s, e)) = ToSet(s) \cup {e}
         /\ e \notin ToSet(s) /\ (\A a, b \in 1..Len(s) : s[a] = s[b] => a = b)
              => \A a, b \in 1..(Len(s) + 1) :
                   Append(s, e)[a] = Append(s, e)[b] => a = b
<1> DEFINE t == Append(s, e)
<1>1. Len(s) \in Nat /\ DOMAIN s = 1..Len(s)
  BY LenProperties
<1>2. /\ t \in Seq(S) /\ Len(t) = Len(s) + 1 /\ DOMAIN t = 1..(Len(s) + 1)
      /\ \A j \in 1..Len(s) : t[j] = s[j]
      /\ t[Len(s) + 1] = e
  BY <1>1
<1> HIDE DEF t
<1>3. ToSet(t) = ToSet(s) \cup {e}
  BY <1>1, <1>2 DEF ToSet
<1>4. ASSUME e \notin ToSet(s), \A a, b \in 1..Len(s) : s[a] = s[b] => a = b,
             NEW a \in 1..(Len(s) + 1), NEW b \in 1..(Len(s) + 1), t[a] = t[b]
      PROVE  a = b
  BY <1>1, <1>2, <1>4 DEF ToSet
<1> QED BY <1>2, <1>3, <1>4 DEF t

\* Inserting an entry at k shifts the entries from k on by one place.
LEMMA InsertAtEntries ==
  ASSUME NEW S, NEW s \in Seq(S), NEW e \in S, NEW k \in 1..(Len(s) + 1)
  PROVE  /\ InsertAt(s, k, e) \in Seq(S)
         /\ Len(InsertAt(s, k, e)) = Len(s) + 1
         /\ \A j \in 1..(Len(s) + 1) :
              InsertAt(s, k, e)[j] = IF j < k THEN s[j]
                                     ELSE IF j = k THEN e ELSE s[j - 1]
<1> DEFINE l == SubSeq(s, 1, k - 1)
           m == <<e>>
           r == SubSeq(s, k, Len(s))
<1>1. /\ Len(s) \in Nat /\ \A j \in 1..Len(s) : s[j] \in S
  BY LenProperties, ElementOfSeq
<1>2. /\ l \in Seq(S) /\ Len(l) = k - 1
      /\ \A j \in 1..(k - 1) : l[j] = s[j]
  BY <1>1, SubSeqProperties, Z3
<1>3. /\ r \in Seq(S) /\ Len(r) = Len(s) - k + 1
      /\ \A j \in 1..(Len(s) - k + 1) : r[j] = s[k + j - 1]
  <2>1. CASE k <= Len(s)
    BY <1>1, <2>1, SubSeqProperties, Z3
  <2>2. CASE k = Len(s) + 1
    <3>1. r = <<>>
      BY <1>1, <2>2, SubSeqEmpty, Z3
    <3> QED BY <1>1, <2>2, <3>1
  <2> QED BY <1>1, <2>1, <2>2
<1>4. m \in Seq(S) /\ Len(m) = 1 /\ m[1] = e
  OBVIOUS
<1> HIDE DEF l, m, r
<1> DEFINE lm == l \o m
<1>5. /\ lm \in Seq(S) /\ Len(lm) = Len(l) + Len(m)
      /\ \A j \in 1..(Len(l) + Len(m)) :
           lm[j] = IF j <= Len(l) THEN l[j] ELSE m[j - Len(l)]
  BY <1>2, <1>4, ConcatProperties
<1> HIDE DEF lm
<1>6. /\ lm \in Seq(S) /\ Len(lm) = k
      /\ \A j \in 1..k : lm[j] = IF j < k THEN s[j] ELSE e
  BY <1>1, <1>2, <1>4, <1>5
<1> DEFINE t == lm \o r
<1>7. /\ t \in Seq(S) /\ Len(t) = Len(lm) + Len(r)
      /\ \A j \in 1..(Len(lm) + Len(r)) :
           t[j] = IF j <= Len(lm) THEN lm[j] ELSE r[j - Len(lm)]
  BY <1>3, <1>6, ConcatProperties
<1>8. InsertAt(s, k, e) = t
  BY DEF InsertAt, t, lm, l, m, r
<1> HIDE DEF t
<1>9. /\ t \in Seq(S) /\ Len(t) = Len(s) + 1
      /\ \A j \in 1..(Len(s) + 1) :
           t[j] = IF j <= k THEN lm[j] ELSE r[j - k]
  BY <1>1, <1>3, <1>6, <1>7
<1>10. ASSUME NEW j \in 1..(Len(s) + 1)
       PROVE  t[j] = IF j < k THEN s[j] ELSE IF j = k THEN e ELSE s[j - 1]
  <2>1. CASE j <= k
    BY <1>6, <1>9, <2>1
  <2>2. CASE j > k
    <3>1. j - k \in 1..(Len(s) - k + 1) /\ k + (j - k) - 1 = j - 1
      BY <1>1, <2>2
    <3> QED BY <1>1, <1>3, <1>9, <2>2, <3>1
  <2> QED BY <1>1, <2>1, <2>2
<1> QED BY <1>8, <1>9, <1>10

\* Inserting behind the last entry is appending.
LEMMA InsertAtEnd ==
  ASSUME NEW S, NEW s \in Seq(S), NEW e \in S
  PROVE  InsertAt(s, Len(s) + 1, e) = Append(s, e)
<1> DEFINE n == Len(s)
           t == InsertAt(s, n + 1, e)
           u == Append(s, e)
<1>1. n \in Nat /\ n = Len(s) /\ n + 1 \in 1..(n + 1)
  OBVIOUS
<1>2. /\ u \in Seq(S) /\ Len(u) = n + 1
      /\ \A j \in 1..n : u[j] = s[j]
      /\ u[n + 1] = e
  BY AppendProperties
<1>3. /\ t \in Seq(S) /\ Len(t) = n + 1
      /\ \A j \in 1..(n + 1) :
           t[j] = IF j < n + 1 THEN s[j] ELSE IF j = n + 1 THEN e ELSE s[j - 1]
  BY <1>1, InsertAtEntries
<1> HIDE DEF n, t, u
<1>4. ASSUME NEW j \in 1..(n + 1) PROVE t[j] = u[j]
  <2>1. CASE j = n + 1
    BY <1>1, <1>2, <1>3, <2>1
  <2>2. CASE j # n + 1
    <3>1. j \in 1..n /\ j < n + 1
      BY <1>1, <2>2
    <3> QED BY <1>2, <1>3, <3>1
  <2> QED BY <2>1, <2>2
<1>5. t = u
  BY <1>2, <1>3, <1>4, SeqEqual
<1> QED BY <1>5 DEF n, t, u

-----------------------------------------------------------------------------
\* What the provers know of sequences, in the form the proofs need it.
\* A function on 1..n is a sequence.
LEMMA MakesSeq ==
    ASSUME NEW S, NEW n \in Nat, NEW f, f = [i \in 1..n |-> f[i]],
           \A i \in 1..n : f[i] \in S
    PROVE  f \in Seq(S) /\ Len(f) = n
OBVIOUS

\* What a sequence is made of.
LEMMA SeqIs ==
    ASSUME NEW S, NEW s \in Seq(S)
    PROVE  /\ Len(s) \in Nat /\ DOMAIN s = 1..Len(s)
           /\ \A i \in 1..Len(s) : s[i] \in S
OBVIOUS

\* A sequence without its head.
LEMMA TailIs ==
    ASSUME NEW S, NEW s \in Seq(S), s # <<>>
    PROVE  /\ Head(s) \in S /\ Tail(s) \in Seq(S)
           /\ Len(s) > 0 /\ Head(s) = s[1]
           /\ Len(Tail(s)) = Len(s) - 1
           /\ \A i \in 1..Len(Tail(s)) : Tail(s)[i] = s[i + 1]
OBVIOUS

\* Two sequences, one behind the other.
LEMMA ConcatIs ==
    ASSUME NEW S, NEW s \in Seq(S), NEW t \in Seq(S)
    PROVE  /\ s \o t \in Seq(S) /\ Len(s \o t) = Len(s) + Len(t)
           /\ \A i \in 1..Len(s) : (s \o t)[i] = s[i]
           /\ \A i \in 1..Len(t) : (s \o t)[Len(s) + i] = t[i]
OBVIOUS

\* A sequence without its head, the other way round.
LEMMA ReverseTail ==
    ASSUME NEW S, NEW s \in Seq(S), s # <<>>
    PROVE  Reverse(Tail(s)) \in Seq(S)
<1>1. Tail(s) \in Seq(S)
  OBVIOUS
<1> DEFINE t == Tail(s)
<1> HIDE DEF t
<1>2. Reverse(t) \in Seq(S)
  BY <1>1, SeqIs DEF Reverse, t
<1> QED
  BY <1>2 DEF t

\* The front of a sequence.
LEMMA SubSeqIs ==
    ASSUME NEW S, NEW s \in Seq(S), NEW n \in 0..Len(s)
    PROVE  /\ SubSeq(s, 1, n) \in Seq(S) /\ Len(SubSeq(s, 1, n)) = n
           /\ \A i \in 1..n : SubSeq(s, 1, n)[i] = s[i]
OBVIOUS
=============================================================================
