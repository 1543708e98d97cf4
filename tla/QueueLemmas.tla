----------------------------- MODULE QueueLemmas -----------------------------
(***************************************************************************)
(* Waiting lines as sequences without duplicates: what push() and          *)
(* splice(index, 1) do to the set of entries that wait.                    *)
(***************************************************************************)
EXTENDS Integers, Sequences, SequencesExt, SequenceTheorems, TLAPS

(* What splice(index, 1) leaves of a queue, position by position.          *)
LEMMA RemoveAtProperties ==
  ASSUME NEW S, NEW q \in Seq(S), NEW i \in DOMAIN q
  PROVE  /\ RemoveAt(q, i) \in Seq(S)
         /\ Len(RemoveAt(q, i)) = Len(q) - 1
         /\ \A j \in 1..(Len(q) - 1) : RemoveAt(q, i)[j] = IF j < i THEN q[j] ELSE q[j + 1]
<1> DEFINE a == SubSeq(q, 1, i - 1)
           b == SubSeq(q, i + 1, Len(q))
<1>1. i \in 1..Len(q) /\ Len(q) \in Nat /\ \A j \in 1..Len(q) : q[j] \in S
  BY LenProperties
<1>2. /\ a \in Seq(S)
      /\ Len(a) = i - 1
      /\ \A j \in 1..(i - 1) : a[j] = q[j]
  <2>1. \A j \in 1..(i - 1) : q[j] \in S  BY <1>1
  <2>2. 1 \in Int /\ i - 1 \in Int /\ (i - 1) - 1 + 1 = i - 1  BY <1>1
  <2>3. /\ a \in Seq(S)
        /\ Len(a) = (IF 1 <= i - 1 THEN (i - 1) - 1 + 1 ELSE 0)
        /\ \A j \in 1..((i - 1) - 1 + 1) : a[j] = q[1 + j - 1]
    BY <2>1, <2>2, SubSeqProperties
  <2>. QED  BY <1>1, <2>3
<1>3. /\ b \in Seq(S)
      /\ Len(b) = Len(q) - i
      /\ \A j \in 1..(Len(q) - i) : b[j] = q[i + j]
  <2>1. \A j \in (i + 1)..Len(q) : q[j] \in S  BY <1>1
  <2>2. i + 1 \in Int /\ Len(q) \in Int  BY <1>1
  <2>3. /\ b \in Seq(S)
        /\ Len(b) = (IF i + 1 <= Len(q) THEN Len(q) - (i + 1) + 1 ELSE 0)
        /\ \A j \in 1..(Len(q) - (i + 1) + 1) : b[j] = q[(i + 1) + j - 1]
    BY <2>1, <2>2, SubSeqProperties
  <2>. QED  BY <1>1, <2>3
<1> HIDE DEF a, b
<1>4. /\ a \o b \in Seq(S)
      /\ Len(a \o b) = Len(a) + Len(b)
      /\ \A j \in 1..(Len(a) + Len(b)) : (a \o b)[j] = IF j <= Len(a) THEN a[j] ELSE b[j - Len(a)]
  BY <1>2, <1>3, ConcatProperties
<1>5. RemoveAt(q, i) = a \o b
  BY DEF RemoveAt, a, b
<1>6. Len(a) + Len(b) = Len(q) - 1
  BY <1>1, <1>2, <1>3
<1>7. ASSUME NEW j \in 1..(Len(q) - 1)
      PROVE  (a \o b)[j] = IF j < i THEN q[j] ELSE q[j + 1]
  <2>1. (a \o b)[j] = IF j <= Len(a) THEN a[j] ELSE b[j - Len(a)]
    BY <1>4, <1>6
  <2>2. CASE j < i
    BY <1>1, <1>2, <2>1, <2>2
  <2>3. CASE ~(j < i)
    <3>1. j - (i - 1) \in 1..(Len(q) - i) /\ i + (j - (i - 1)) = j + 1 /\ ~(j <= i - 1)
      BY <1>1, <2>3
    <3>. QED  BY <1>2, <1>3, <2>1, <2>3, <3>1
  <2>. QED  BY <2>2, <2>3
<1>. QED  BY <1>4, <1>5, <1>6, <1>7

(* Taking the entry at position i out of a queue without duplicates takes  *)
(* out exactly that entry.                                                 *)
LEMMA RemoveAtQueue ==
  ASSUME NEW S, NEW q \in Seq(S), NEW i \in DOMAIN q, IsInjective(q)
  PROVE  /\ IsInjective(RemoveAt(q, i))
         /\ ToSet(RemoveAt(q, i)) = ToSet(q) \ {q[i]}
<1> DEFINE t == RemoveAt(q, i)
<1>1. /\ t \in Seq(S)
      /\ Len(t) = Len(q) - 1
      /\ \A j \in 1..(Len(q) - 1) : t[j] = IF j < i THEN q[j] ELSE q[j + 1]
  BY RemoveAtProperties
<1>2. DOMAIN q = 1..Len(q) /\ Len(q) \in Nat /\ DOMAIN t = 1..(Len(q) - 1)
  BY <1>1, LenProperties
<1> HIDE DEF t
<1>3. ASSUME NEW j \in 1..(Len(q) - 1), NEW k \in 1..(Len(q) - 1), t[j] = t[k]
      PROVE  j = k
  <2> DEFINE at(m) == IF m < i THEN m ELSE m + 1
  <2>1. /\ at(j) \in 1..Len(q) /\ at(k) \in 1..Len(q)
        /\ t[j] = q[at(j)] /\ t[k] = q[at(k)]
    BY <1>1, <1>2
  <2>2. at(j) = at(k)
    BY <1>2, <1>3, <2>1 DEF IsInjective
  <2>. QED  BY <1>2, <2>2
<1>4. ASSUME NEW r, r \in ToSet(t)
      PROVE  r \in ToSet(q) /\ r # q[i]
  <2>1. PICK j \in 1..(Len(q) - 1) : t[j] = r
    BY <1>2, <1>4 DEF ToSet
  <2>2. CASE j < i
    BY <1>1, <1>2, <2>1, <2>2 DEF ToSet, IsInjective
  <2>3. CASE ~(j < i)
    BY <1>1, <1>2, <2>1, <2>3 DEF ToSet, IsInjective
  <2>. QED  BY <2>2, <2>3
<1>5. ASSUME NEW r, r \in ToSet(q), r # q[i]
      PROVE  r \in ToSet(t)
  <2>1. PICK j \in 1..Len(q) : q[j] = r
    BY <1>2, <1>5 DEF ToSet
  <2>2. CASE j < i
    BY <1>1, <1>2, <2>1, <2>2 DEF ToSet
  <2>3. CASE i < j
    <3>1. j - 1 \in 1..(Len(q) - 1) /\ ~(j - 1 < i) /\ (j - 1) + 1 = j
      BY <1>2, <2>3
    <3>2. t[j - 1] = q[j]
      BY <1>1, <3>1
    <3>. QED  BY <1>2, <2>1, <3>1, <3>2 DEF ToSet
  <2>. QED  BY <1>2, <1>5, <2>1, <2>2, <2>3
<1>6. IsInjective(t)
  BY <1>2, <1>3 DEF IsInjective
<1>. QED  BY <1>4, <1>5, <1>6 DEF t

(* Nobody waits in an empty queue.                                         *)
LEMMA EmptyQueue == ToSet(<<>>) = {} /\ IsInjective(<<>>)
<1>1. DOMAIN <<>> = {}
  OBVIOUS
<1>. QED  BY <1>1 DEF ToSet, IsInjective

(* push() adds exactly the new entry.                                      *)
LEMMA AppendQueue ==
  ASSUME NEW S, NEW q \in Seq(S), NEW e \in S, IsInjective(q), e \notin ToSet(q)
  PROVE  /\ Append(q, e) \in Seq(S)
         /\ Len(Append(q, e)) = Len(q) + 1
         /\ IsInjective(Append(q, e))
         /\ ToSet(Append(q, e)) = ToSet(q) \cup {e}
<1> DEFINE t == Append(q, e)
<1>1. /\ t \in Seq(S)
      /\ Len(t) = Len(q) + 1
      /\ \A j \in 1..Len(q) : t[j] = q[j]
      /\ t[Len(q) + 1] = e
  BY AppendProperties
<1>2. DOMAIN q = 1..Len(q) /\ Len(q) \in Nat /\ DOMAIN t = 1..(Len(q) + 1)
  BY <1>1, LenProperties
<1> HIDE DEF t
<1>3. IsInjective(t)
  BY <1>1, <1>2 DEF IsInjective, ToSet
<1>4. ASSUME NEW r
      PROVE  r \in ToSet(t) <=> r \in ToSet(q) \/ r = e
  <2>1. r \in ToSet(t) => r \in ToSet(q) \/ r = e
    BY <1>1, <1>2 DEF ToSet
  <2>2. r \in ToSet(q) => r \in ToSet(t)
    BY <1>1, <1>2 DEF ToSet
  <2>3. r = e => r \in ToSet(t)
    <3>1. Len(q) + 1 \in DOMAIN t
      BY <1>2
    <3>. QED  BY <1>1, <3>1 DEF ToSet
  <2>. QED  BY <2>1, <2>2, <2>3
<1>. QED  BY <1>1, <1>3, <1>4 DEF t

(* It comes after all that wait, and their order stays.                    *)
Precedes(q, a, b) == \E i, j \in DOMAIN q : i < j /\ q[i] = a /\ q[j] = b

LEMMA AppendOrder ==
  ASSUME NEW S, NEW q \in Seq(S), NEW e \in S, NEW a, NEW b
  PROVE  Precedes(Append(q, e), a, b) <=> Precedes(q, a, b) \/ (a \in ToSet(q) /\ b = e)
<1>. DEFINE t == Append(q, e)  n == Len(q)
<1>1. n \in Nat /\ DOMAIN q = 1..n /\ DOMAIN t = 1..(n + 1)
  BY AppendProperties, LenProperties
<1>2. (\A j \in 1..n : t[j] = q[j]) /\ t[n + 1] = e
  BY AppendProperties
<1>. HIDE DEF t, n
<1>3. ASSUME Precedes(t, a, b) PROVE Precedes(q, a, b) \/ (a \in ToSet(q) /\ b = e)
  <2>1. PICK i \in 1..(n + 1), j \in 1..(n + 1) : i < j /\ t[i] = a /\ t[j] = b
    BY <1>1, <1>3 DEF Precedes
  <2>2. i \in 1..n /\ q[i] = a
    BY <1>1, <1>2, <2>1
  <2>3. CASE j = n + 1
    BY <1>1, <1>2, <2>1, <2>2, <2>3 DEF ToSet
  <2>4. CASE j \in 1..n
    BY <1>1, <1>2, <2>1, <2>2, <2>4 DEF Precedes
  <2>. QED  BY <1>1, <2>3, <2>4
<1>4. ASSUME Precedes(q, a, b) PROVE Precedes(t, a, b)
  <2>1. PICK i \in 1..n, j \in 1..n : i < j /\ q[i] = a /\ q[j] = b
    BY <1>1, <1>4 DEF Precedes
  <2>2. i \in 1..(n + 1) /\ j \in 1..(n + 1)
    BY <1>1
  <2>. QED  BY <1>1, <1>2, <2>1, <2>2 DEF Precedes
<1>5. ASSUME a \in ToSet(q), b = e PROVE Precedes(t, a, b)
  <2>1. PICK i \in 1..n : q[i] = a
    BY <1>1, <1>5 DEF ToSet
  <2>2. i \in 1..(n + 1) /\ n + 1 \in 1..(n + 1) /\ i < n + 1
    BY <1>1
  <2>. QED  BY <1>1, <1>2, <1>5, <2>1, <2>2 DEF Precedes
<1>. QED  BY <1>3, <1>4, <1>5 DEF t

(* What is taken out is before and after nothing; the others keep their    *)
(* order.                                                                  *)
LEMMA RemoveAtOrder ==
  ASSUME NEW S, NEW q \in Seq(S), NEW x \in DOMAIN q, IsInjective(q), NEW a, NEW b
  PROVE  Precedes(RemoveAt(q, x), a, b) <=> Precedes(q, a, b) /\ q[x] \notin {a, b}
<1>. DEFINE t == RemoveAt(q, x)  n == Len(q)
<1>1. n \in Nat /\ DOMAIN q = 1..n /\ DOMAIN t = 1..(n - 1) /\ x \in 1..n
  BY RemoveAtProperties, LenProperties
<1>2. \A j \in 1..(n - 1) : t[j] = IF j < x THEN q[j] ELSE q[j + 1]
  BY RemoveAtProperties
<1>. HIDE DEF t, n
<1>3. ASSUME Precedes(t, a, b) PROVE Precedes(q, a, b) /\ q[x] \notin {a, b}
  <2>. DEFINE at(m) == IF m < x THEN m ELSE m + 1
  <2>1. PICK i \in 1..(n - 1), j \in 1..(n - 1) : i < j /\ t[i] = a /\ t[j] = b
    BY <1>1, <1>3 DEF Precedes
  <2>2. q[at(i)] = a /\ q[at(j)] = b
    BY <1>2, <2>1
  <2>3. at(i) \in 1..n /\ at(j) \in 1..n /\ at(i) < at(j) /\ at(i) # x /\ at(j) # x
    BY <1>1, <2>1
  <2>. QED  BY <1>1, <2>2, <2>3 DEF Precedes, IsInjective
<1>4. ASSUME Precedes(q, a, b), q[x] \notin {a, b} PROVE Precedes(t, a, b)
  <2>. DEFINE at(m) == IF m < x THEN m ELSE m - 1
  <2>1. PICK i \in 1..n, j \in 1..n : i < j /\ q[i] = a /\ q[j] = b
    BY <1>1, <1>4 DEF Precedes
  <2>2. i # x /\ j # x
    BY <1>4, <2>1
  <2>3. at(i) \in 1..(n - 1) /\ at(j) \in 1..(n - 1) /\ at(i) < at(j)
    BY <1>1, <2>1, <2>2
  <2>4. t[at(i)] = q[i] /\ t[at(j)] = q[j]
    <3>1. ASSUME NEW m \in 1..n, m # x, at(m) \in 1..(n - 1) PROVE t[at(m)] = q[m]
      <4>1. CASE m < x
        BY <1>2, <3>1, <4>1
      <4>2. CASE ~(m < x)
        <5>1. ~(m - 1 < x) /\ (m - 1) + 1 = m /\ m - 1 \in 1..(n - 1)
          BY <1>1, <3>1, <4>2
        <5>. QED  BY <1>2, <4>2, <5>1
      <4>. QED  BY <4>1, <4>2
    <3>. QED  BY <2>2, <2>3, <3>1
  <2>. QED  BY <1>1, <2>1, <2>3, <2>4 DEF Precedes
<1>. QED  BY <1>3, <1>4 DEF t

(* Its head stays where it is.                                              *)
LEMMA HeadOfLonger ==
  ASSUME NEW S, NEW q \in Seq(S), NEW e \in S, q # <<>>
  PROVE  Append(q, e) # <<>> /\ Head(Append(q, e)) = Head(q)
<1>1. Append(q, e) \in Seq(S) /\ Len(Append(q, e)) = Len(q) + 1 /\ Append(q, e)[1] = q[1]
  BY AppendProperties, LenProperties, EmptySeq
<1>. QED  BY <1>1, LenProperties, EmptySeq

(* The head leaves a queue without duplicates.                             *)
LEMMA TailQueue ==
  ASSUME NEW S, NEW q \in Seq(S), q # <<>>, IsInjective(q)
  PROVE  /\ Tail(q) \in Seq(S)
         /\ IsInjective(Tail(q))
         /\ ToSet(Tail(q)) = ToSet(q) \ {Head(q)}
<1> DEFINE t == Tail(q)
<1>1. /\ t \in Seq(S)
      /\ Len(t) = Len(q) - 1
      /\ \A i \in 1..(Len(q) - 1) : t[i] = q[i + 1]
      /\ Head(q) = q[1]
  BY HeadTailProperties
<1>2. DOMAIN q = 1..Len(q) /\ Len(q) \in Nat \ {0} /\ DOMAIN t = 1..(Len(q) - 1)
  BY <1>1, LenProperties, EmptySeq
<1> HIDE DEF t
<1>3. IsInjective(t)
  BY <1>1, <1>2 DEF IsInjective
<1>4. ASSUME NEW r, r \in ToSet(t)
      PROVE  r \in ToSet(q) /\ r # q[1]
  <2>1. PICK j \in 1..(Len(q) - 1) : t[j] = r
    BY <1>2, <1>4 DEF ToSet
  <2>2. j + 1 \in DOMAIN q /\ 1 \in DOMAIN q /\ j + 1 # 1 /\ q[j + 1] = r
    BY <1>1, <1>2, <2>1
  <2>. QED  BY <2>2 DEF ToSet, IsInjective
<1>5. ASSUME NEW r, r \in ToSet(q), r # q[1]
      PROVE  r \in ToSet(t)
  <2>1. PICK j \in 1..Len(q) : q[j] = r
    BY <1>2, <1>5 DEF ToSet
  <2>2. j - 1 \in DOMAIN t /\ t[j - 1] = q[j]
    BY <1>1, <1>2, <1>5, <2>1
  <2>. QED  BY <2>1, <2>2 DEF ToSet
<1>. QED  BY <1>1, <1>3, <1>4, <1>5 DEF t

=============================================================================
