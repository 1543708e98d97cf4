--------------------------- MODULE Recovery_proofs ---------------------------
(***************************************************************************)
(* Proofs about Recovery: no hour has more restarts than the budget, and   *)
(* incident files settle.                                                  *)
(*                                                                         *)
(* The invariant relates the tick's entries to the ledger's, the restarts  *)
(* asked for to those the ledger has stamps of, and each incident file to  *)
(* the entry of its component.                                             *)
(***************************************************************************)
EXTENDS Recovery, FiniteSetTheorems, TLAPS

-----------------------------------------------------------------------------
(* Sequences of ages in order.                                             *)

(* An initial part of 1..n is as long as it has members.                   *)
LEMMA InitialPart ==
  ASSUME NEW n \in Nat, NEW D \in SUBSET (1..n), \A i \in D : 1..i \subseteq D
  PROVE  Cardinality(D) \in 0..n /\ \A i \in 1..n : i \in D <=> i <= Cardinality(D)
<1>1. IsFiniteSet(1..n) /\ Cardinality(1..n) = n
  BY FS_Interval
<1>2. IsFiniteSet(D) /\ Cardinality(D) \in Nat /\ Cardinality(D) <= n
  <2>1. IsFiniteSet(D) /\ Cardinality(D) <= Cardinality(1..n)
    BY <1>1, FS_Subset
  <2>. QED  BY <1>1, <2>1, FS_CardinalityType
<1>3. ASSUME NEW i \in 1..n, i \in D PROVE i <= Cardinality(D)
  <2>1. IsFiniteSet(1..i) /\ Cardinality(1..i) = i
    BY FS_Interval
  <2>2. Cardinality(1..i) <= Cardinality(D)
    BY <1>2, <1>3, FS_Subset
  <2>. QED  BY <2>1, <2>2
<1>4. ASSUME NEW i \in 1..n, i \notin D PROVE ~(i <= Cardinality(D))
  <2>1. D \subseteq 1..(i-1)
    <3>. SUFFICES ASSUME NEW j \in D, ~(j \in 1..(i-1)) PROVE FALSE
      OBVIOUS
    <3>1. j \in 1..n /\ i <= j
      OBVIOUS
    <3>. QED  BY <1>4, <3>1
  <2>2. i - 1 \in Nat
    OBVIOUS
  <2>3. IsFiniteSet(1..(i-1)) /\ Cardinality(1..(i-1)) = i - 1
    BY <2>2, FS_Interval
  <2>4. Cardinality(D) <= i - 1
    BY <2>1, <2>3, FS_Subset
  <2>. QED  BY <1>2, <2>4
<1>. QED  BY <1>2, <1>3, <1>4

(* Recent is a segment of ages in order: those of at least 0 and less than *)
(* an hour.                                                                *)
LEMMA RecentIs ==
  ASSUME NEW ages \in Seq(Int), InOrder(ages)
  PROVE  \E lo \in 1..(Len(ages) + 1), hi \in 0..Len(ages) :
           /\ lo <= hi + 1
           /\ Recent(ages) = SubSeq(ages, lo, hi)
           /\ \A i \in 1..Len(ages) : (i < lo <=> Hour <= ages[i]) /\ (i <= hi <=> 0 <= ages[i])
<1>. DEFINE n == Len(ages)
            Least(age) == {i \in DOMAIN ages : age <= ages[i]}
<1>1. n \in Nat /\ DOMAIN ages = 1..n /\ \A i \in 1..n : ages[i] \in Int
  OBVIOUS
<1>2. ASSUME NEW a \in Int
      PROVE  Cardinality(Least(a)) \in 0..n /\ \A i \in 1..n : i \in Least(a) <=> i <= Cardinality(Least(a))
  <2>1. Least(a) \in SUBSET (1..n)
    BY <1>1
  <2>2. ASSUME NEW i \in Least(a), NEW j \in 1..i PROVE j \in Least(a)
    <3>1. i \in 1..n /\ j \in 1..n /\ a <= ages[i]
      BY <1>1
    <3>2. ages[i] <= ages[j]
      BY <1>1, <3>1 DEF InOrder
    <3>3. a <= ages[j]
      BY <1>1, <3>1, <3>2
    <3>. QED  BY <1>1, <3>1, <3>3
  <2>. QED  BY <1>1, <2>1, <2>2, InitialPart
<1>3. Hour \in Nat \ {0}
  BY RecoveryAssumption
<1>4. PICK old \in 0..n : old = Cardinality(Least(Hour)) /\ \A i \in 1..n : Hour <= ages[i] <=> i <= old
  <2>1. Cardinality(Least(Hour)) \in 0..n /\ \A i \in 1..n : i \in Least(Hour) <=> i <= Cardinality(Least(Hour))
    BY <1>2, <1>3
  <2>2. \A i \in 1..n : i \in Least(Hour) <=> Hour <= ages[i]
    BY <1>1
  <2>. QED  BY <2>1, <2>2
<1>5. PICK hi \in 0..n : hi = Cardinality(Least(0)) /\ \A i \in 1..n : 0 <= ages[i] <=> i <= hi
  <2>1. Cardinality(Least(0)) \in 0..n /\ \A i \in 1..n : i \in Least(0) <=> i <= Cardinality(Least(0))
    BY <1>2
  <2>2. \A i \in 1..n : i \in Least(0) <=> 0 <= ages[i]
    BY <1>1
  <2>. QED  BY <2>1, <2>2
<1>6. old <= hi
  <2>1. CASE old = 0
    BY <2>1
  <2>2. CASE old # 0
    <3>1. old \in 1..n /\ Hour <= ages[old]
      BY <1>4, <2>2
    <3>2. 0 <= ages[old]
      BY <1>1, <1>3, <3>1
    <3>. QED  BY <1>5, <3>1, <3>2
  <2>. QED  BY <2>1, <2>2
<1>7. Recent(ages) = SubSeq(ages, old + 1, hi)
  BY <1>4, <1>5 DEF Recent
<1>8. \A i \in 1..n : (i < old + 1 <=> Hour <= ages[i]) /\ (i <= hi <=> 0 <= ages[i])
  BY <1>4, <1>5
<1>9. old + 1 \in 1..(n + 1) /\ old + 1 <= hi + 1
  BY <1>1, <1>6
<1>. QED  BY <1>7, <1>8, <1>9

LEMMA Members ==
  ASSUME NEW S, NEW s \in Seq(S)
  PROVE  Len(s) \in Nat /\ DOMAIN s = 1..Len(s) /\ \A i \in 1..Len(s) : s[i] \in S
OBVIOUS

(* What is recent is in order, and less than an hour old.                  *)
LEMMA RecentIsRecent ==
  ASSUME NEW T \in SUBSET Int, NEW ages \in Seq(T), InOrder(ages)
  PROVE  /\ Recent(ages) \in Seq(T \cap 0..(Hour - 1)) /\ InOrder(Recent(ages))
         /\ Len(Recent(ages)) <= Len(ages)
<1>1. /\ Len(ages) \in Nat /\ DOMAIN ages = 1..Len(ages)
      /\ \A i \in 1..Len(ages) : ages[i] \in T /\ ages[i] \in Int
  <2>1. Len(ages) \in Nat /\ DOMAIN ages = 1..Len(ages) /\ \A i \in 1..Len(ages) : ages[i] \in T
    BY Members
  <2>2. \A x \in T : x \in Int
    OBVIOUS
  <2>. QED  BY <2>1, <2>2
<1>2. ages \in Seq(Int)
  BY <1>1
<1>3. Hour \in Nat
  BY RecoveryAssumption
<1>4. PICK lo \in 1..(Len(ages) + 1), hi \in 0..Len(ages) :
           /\ lo <= hi + 1
           /\ Recent(ages) = SubSeq(ages, lo, hi)
           /\ \A i \in 1..Len(ages) : (i < lo <=> Hour <= ages[i]) /\ (i <= hi <=> 0 <= ages[i])
  BY <1>2, RecentIs
<1>. DEFINE r == Recent(ages)  n == hi - lo + 1
<1>5. lo \in Nat /\ hi \in Nat /\ n \in Nat /\ n <= Len(ages)
  BY <1>1, <1>4
<1>6. r \in Seq(T) /\ Len(r) = n /\ DOMAIN r = 1..n /\ \A i \in 1..n : r[i] = ages[lo + i - 1]
  BY <1>1, <1>4, <1>5
<1>7. ASSUME NEW i \in 1..n PROVE lo + i - 1 \in 1..Len(ages) /\ ~(lo + i - 1 < lo) /\ lo + i - 1 <= hi
  BY <1>1, <1>4, <1>5
<1>8. ASSUME NEW i \in 1..n PROVE r[i] \in T \cap 0..(Hour - 1)
  <2>1. r[i] = ages[lo + i - 1] /\ ages[lo + i - 1] \in T /\ ages[lo + i - 1] \in Int
    BY <1>1, <1>6, <1>7
  <2>2. ~(Hour <= ages[lo + i - 1]) /\ 0 <= ages[lo + i - 1]
    BY <1>4, <1>7
  <2>. QED  BY <1>3, <2>1, <2>2
<1>9. r \in Seq(T \cap 0..(Hour - 1))
  BY <1>5, <1>6, <1>8
<1>10. InOrder(r)
  <2>. SUFFICES ASSUME NEW i \in 1..n, NEW j \in 1..n, i <= j PROVE r[j] <= r[i]
    BY <1>6 DEF InOrder
  <2>1. lo + i - 1 <= lo + j - 1
    BY <1>5
  <2>2. ages[lo + j - 1] <= ages[lo + i - 1]
    BY <1>1, <1>7, <2>1 DEF InOrder
  <2>. QED  BY <1>6, <2>2
<1>. QED  BY <1>5, <1>6, <1>9, <1>10

(* Of ages that are not negative, the recent ones are the last ones.       *)
LEMMA RecentAreLast ==
  ASSUME NEW ages \in Seq(Nat), InOrder(ages)
  PROVE  /\ Len(Recent(ages)) \in 0..Len(ages)
         /\ \A k \in 0..(Len(ages) - 1) :
              IF k < Len(Recent(ages))
              THEN Recent(ages)[Len(Recent(ages)) - k] = ages[Len(ages) - k] /\ ages[Len(ages) - k] < Hour
              ELSE Hour <= ages[Len(ages) - k]
<1>1. /\ Len(ages) \in Nat /\ DOMAIN ages = 1..Len(ages)
      /\ \A i \in 1..Len(ages) : ages[i] \in Nat
  OBVIOUS
<1>2. ages \in Seq(Int)
  BY <1>1
<1>3. Hour \in Nat
  BY RecoveryAssumption
<1>4. PICK lo \in 1..(Len(ages) + 1), hi \in 0..Len(ages) :
           /\ lo <= hi + 1
           /\ Recent(ages) = SubSeq(ages, lo, hi)
           /\ \A i \in 1..Len(ages) : (i < lo <=> Hour <= ages[i]) /\ (i <= hi <=> 0 <= ages[i])
  BY <1>2, RecentIs
<1>. DEFINE r == Recent(ages)  n == hi - lo + 1
<1>5. hi = Len(ages)
  <2>1. CASE Len(ages) = 0
    BY <1>1, <1>4, <2>1
  <2>2. CASE Len(ages) # 0
    <3>1. Len(ages) \in 1..Len(ages)
      BY <1>1, <2>2
    <3>2. ages[Len(ages)] \in Nat
      BY <1>1, <3>1
    <3>3. 0 <= ages[Len(ages)]
      BY <3>2
    <3>4. Len(ages) <= hi
      BY <1>4, <3>1, <3>3
    <3>5. hi \in Nat /\ hi <= Len(ages)
      BY <1>1, <1>4
    <3>6. Len(ages) \in Nat
      BY <1>1
    <3>. QED  BY <3>4, <3>5, <3>6
  <2>. QED  BY <2>1, <2>2
<1>6. lo \in Nat /\ hi \in Nat /\ n \in Nat /\ n <= Len(ages)
  BY <1>1, <1>4
<1>7. Len(r) = n /\ \A i \in 1..n : r[i] = ages[lo + i - 1]
  BY <1>1, <1>4, <1>6
<1>8. ASSUME NEW k \in 0..(Len(ages) - 1), k < n
      PROVE  r[n - k] = ages[Len(ages) - k] /\ ages[Len(ages) - k] < Hour
  <2>1. n - k \in 1..n /\ lo + (n - k) - 1 = Len(ages) - k /\ Len(ages) - k \in 1..Len(ages) /\ ~(Len(ages) - k < lo)
    BY <1>1, <1>5, <1>6, <1>8
  <2>2. r[n - k] = ages[Len(ages) - k]
    BY <1>7, <2>1
  <2>3. ages[Len(ages) - k] \in Nat /\ ~(Hour <= ages[Len(ages) - k])
    BY <1>1, <1>4, <2>1
  <2>. QED  BY <1>3, <2>2, <2>3
<1>9. ASSUME NEW k \in 0..(Len(ages) - 1), ~(k < n) PROVE Hour <= ages[Len(ages) - k]
  <2>1. Len(ages) - k \in 1..Len(ages) /\ Len(ages) - k < lo
    BY <1>1, <1>5, <1>6, <1>9
  <2>. QED  BY <1>4, <2>1
<1>. QED  BY <1>6, <1>7, <1>8, <1>9

(* A budget covers the restarts asked for: the latest stamps are not older *)
(* than they are, one for one.                                             *)
Covered(asked, stamps) ==
  /\ Len(asked) <= Len(stamps)
  /\ \A k \in 0..(Len(asked) - 1) : stamps[Len(stamps) - k] <= asked[Len(asked) - k]

(* The stamps that cover are recent.                                       *)
LEMMA RecentCovers ==
  ASSUME NEW asked \in Seq(0..(Hour - 1)), NEW stamps \in Seq(Nat), InOrder(stamps), Covered(asked, stamps)
  PROVE  Covered(asked, Recent(stamps))
<1>. DEFINE m == Len(asked)  n == Len(stamps)  r == Recent(stamps)
<1>1. Hour \in Nat
  BY RecoveryAssumption
<1>2. m \in Nat /\ n \in Nat /\ m <= n /\ \A i \in 1..m : asked[i] \in 0..(Hour - 1)
  <2>1. m \in Nat /\ n \in Nat
    OBVIOUS
  <2>2. \A i \in 1..m : asked[i] \in 0..(Hour - 1)
    BY Members
  <2>. QED  BY <2>1, <2>2 DEF Covered
<1>3. Len(r) \in 0..n
  BY RecentAreLast
<1>4. m <= Len(r)
  <2>. SUFFICES ASSUME Len(r) < m PROVE FALSE
    BY <1>2, <1>3
  <2>1. Len(r) \in 0..(m - 1) /\ Len(r) \in 0..(n - 1) /\ m - Len(r) \in 1..m /\ n - Len(r) \in 1..n
    BY <1>2, <1>3
  <2>2. Hour <= stamps[n - Len(r)]
    BY <2>1, RecentAreLast
  <2>3. stamps[n - Len(r)] <= asked[m - Len(r)]
    BY <2>1 DEF Covered
  <2>4. asked[m - Len(r)] \in 0..(Hour - 1) /\ stamps[n - Len(r)] \in Nat
    BY <1>2, <2>1
  <2>. HIDE DEF r, m, n
  <2>. QED  BY <1>1, <2>2, <2>3, <2>4
<1>5. ASSUME NEW k \in 0..(m - 1) PROVE r[Len(r) - k] <= asked[m - k]
  <2>1. k < Len(r) /\ k \in 0..(n - 1)
    BY <1>2, <1>3, <1>4
  <2>2. r[Len(r) - k] = stamps[n - k]
    BY <2>1, RecentAreLast
  <2>. QED  BY <2>2 DEF Covered
<1>. QED  BY <1>4, <1>5 DEF Covered

(* One more stamp covers one more restart, or just the same.               *)
LEMMA AppendCovers ==
  ASSUME NEW asked \in Seq(Nat), NEW stamps \in Seq(Nat), InOrder(stamps), Covered(asked, stamps)
  PROVE  Covered(Append(asked, 0), Append(stamps, 0)) /\ Covered(asked, Append(stamps, 0))
<1>. DEFINE n == Len(stamps)  m == Len(asked)  more == Append(stamps, 0)
<1>1. /\ n \in Nat /\ m \in Nat /\ m <= n /\ Len(more) = n + 1
      /\ more[n + 1] = 0 /\ \A i \in 1..n : more[i] = stamps[i] /\ stamps[i] \in Nat
      /\ DOMAIN stamps = 1..n /\ \A i \in 1..m : asked[i] \in Nat
  BY DEF Covered
<1>2. ASSUME NEW k \in 0..(m - 1) PROVE stamps[n - k] <= asked[m - k]
  BY DEF Covered
<1>. HIDE DEF n, m, more
<1>3. ASSUME NEW k \in 0..(m - 1) PROVE more[n + 1 - k] <= asked[m - k]
  <2>1. k \in Int /\ 0 <= k /\ k <= m - 1
    BY <1>1
  <2>2. m - k \in 1..m /\ n - k \in 1..n
    BY <1>1, <2>1
  <2>3. asked[m - k] \in Nat /\ stamps[n - k] \in Nat /\ stamps[n - k] <= asked[m - k]
    BY <1>1, <1>2, <2>2
  <2>4. CASE k = 0
    <3>1. n + 1 - k = n + 1
      BY <1>1, <2>4
    <3>2. more[n + 1 - k] = 0
      BY <1>1, <3>1
    <3>. QED  BY <2>3, <3>2
  <2>5. CASE k # 0
    <3>1. n + 1 - k \in 1..n /\ n - k <= n + 1 - k
      BY <1>1, <2>1, <2>5
    <3>2. stamps[n + 1 - k] <= stamps[n - k] /\ stamps[n + 1 - k] \in Nat /\ more[n + 1 - k] = stamps[n + 1 - k]
      BY <1>1, <2>2, <3>1 DEF InOrder
    <3>3. stamps[n + 1 - k] <= asked[m - k]
      BY <2>3, <3>2
    <3>. QED  BY <3>2, <3>3
  <2>. QED  BY <2>4, <2>5
<1>4. Covered(asked, more)
  <2>1. Len(asked) = m /\ Len(more) = n + 1 /\ m <= n + 1 /\ m \in Nat /\ n \in Nat
    BY <1>1 DEF m
  <2>2. ASSUME NEW k \in 0..(Len(asked) - 1) PROVE more[Len(more) - k] <= asked[Len(asked) - k]
    <3>1. k \in 0..(m - 1) /\ Len(more) - k = n + 1 - k /\ Len(asked) - k = m - k
      BY <2>1
    <3>. QED  BY <1>3, <3>1
  <2>. QED  BY <2>1, <2>2 DEF Covered
<1>5. Covered(Append(asked, 0), more)
  <2>1. /\ Len(Append(asked, 0)) = m + 1 /\ Append(asked, 0)[m + 1] = 0
        /\ \A i \in 1..m : Append(asked, 0)[i] = asked[i]
    BY DEF m
  <2>2. ASSUME NEW k \in 0..m PROVE more[n + 1 - k] <= Append(asked, 0)[m + 1 - k]
    <3>1. k \in Int /\ 0 <= k /\ k <= m
      BY <1>1
    <3>2. CASE k = 0
      BY <1>1, <2>1, <3>2
    <3>3. CASE k # 0
      <4>1. /\ k - 1 \in 0..(m - 1) /\ m + 1 - k = m - (k - 1) /\ m + 1 - k \in 1..m
            /\ n + 1 - k = n - (k - 1) /\ n + 1 - k \in 1..n
        BY <1>1, <3>1, <3>3
      <4>2. stamps[n - (k - 1)] <= asked[m - (k - 1)]
        BY <1>2, <4>1
      <4>. QED  BY <1>1, <2>1, <4>1, <4>2
    <3>. QED  BY <3>2, <3>3
  <2>. DEFINE ask == Append(asked, 0)
  <2>3. Len(ask) - 1 = m /\ Len(ask) = m + 1 /\ Len(more) = n + 1 /\ Len(ask) <= Len(more) /\ m \in Nat /\ n \in Nat
    BY <1>1, <2>1
  <2>. HIDE DEF ask
  <2>4. ASSUME NEW k \in 0..(Len(ask) - 1) PROVE more[Len(more) - k] <= ask[Len(ask) - k]
    <3>1. k \in 0..m /\ Len(more) - k = n + 1 - k /\ Len(ask) - k = m + 1 - k
      BY <2>3
    <3>. QED  BY <2>2, <3>1 DEF ask
  <2>5. Covered(ask, more)
    BY <2>3, <2>4 DEF Covered
  <2>. QED  BY <2>5 DEF ask
<1>. QED  BY <1>4, <1>5 DEF more
-----------------------------------------------------------------------------
(* Entries.                                                                *)

Sound(e) == e \in Entry /\ InOrder(e.restarts) /\ Len(e.restarts) <= MaxRestarts /\ (e.open => e.known)

(* No stamp of the entry lies in the future.                               *)
Past(e) == e.restarts \in Seq(Nat) /\ e.since \in Nat

LEMMA Sizes ==
  /\ Hour \in Nat /\ Hour > 0 /\ Confirmations \in Nat /\ Confirmations > 0 /\ MaxRestarts \in Nat
  /\ Stable \in Nat /\ MaxBack \in Nat /\ MaxFaults \in Nat /\ Tolerance \in Nat
  /\ NoAge \in Nat /\ NoAge > Hour /\ NoAge > Stable
BY RecoveryAssumption DEF NoAge

LEMMA Smaller ==
  ASSUME NEW a \in Int, NEW b \in Int
  PROVE  Min({a, b}) \in {a, b} /\ Min({a, b}) <= a /\ Min({a, b}) <= b
<1>1. \E x \in {a, b} : \A y \in {a, b} : x <= y
  <2>1. CASE a <= b
    BY <2>1
  <2>2. CASE ~(a <= b)
    BY <2>2
  <2>. QED  BY <2>1, <2>2
<1>2. Min({a, b}) \in {a, b} /\ \A y \in {a, b} : Min({a, b}) <= y
  BY <1>1 DEF Min
<1>. QED  BY <1>2

(* A stamp grows with the clock, up to its cap.                            *)
LEMMA CappedIs ==
  ASSUME NEW age \in Int, NEW d \in Int, NEW cap \in Int, age # NoAge
  PROVE  /\ Capped(age, d, cap) \in {age + d, cap}
         /\ Capped(age, d, cap) <= age + d /\ Capped(age, d, cap) <= cap
<1>1. age + d \in Int
  OBVIOUS
<1>2. Capped(age, d, cap) = Min({age + d, cap})
  BY DEF Capped
<1>. QED  BY <1>1, <1>2, Smaller

With(e, r, t) == [e EXCEPT !.restarts = r, !.since = t]
LEMMA WithAges ==
  ASSUME NEW e \in Entry, NEW r \in Seq(Age), NEW t \in (-MaxBack)..Stable \cup {NoAge}
  PROVE  /\ With(e, r, t) \in Entry /\ With(e, r, t).restarts = r /\ With(e, r, t).since = t
         /\ With(e, r, t).streak = e.streak /\ With(e, r, t).open = e.open /\ With(e, r, t).known = e.known
<1>1. With(e, r, t) \in Entry
  BY DEF Entry, With
<1>2. /\ With(e, r, t).restarts = r /\ With(e, r, t).since = t
      /\ With(e, r, t).streak = e.streak /\ With(e, r, t).open = e.open /\ With(e, r, t).known = e.known
  BY DEF Entry, With
<1>. QED  BY <1>1, <1>2

(* An entry stays sound as the clock moves.                                *)
LEMMA AgedIs ==
  ASSUME NEW e, Sound(e), NEW d \in Int, d = 1 \/ (Past(e) /\ -MaxBack <= d /\ d <= 0)
  PROVE  /\ Sound(Aged(e, d)) /\ (d = 1 /\ Past(e) => Past(Aged(e, d)))
         /\ Aged(e, d).open = e.open /\ Aged(e, d).known = e.known /\ Aged(e, d).streak = e.streak
         /\ DOMAIN Aged(e, d).restarts = DOMAIN e.restarts /\ Len(Aged(e, d).restarts) = Len(e.restarts)
         /\ \A i \in DOMAIN e.restarts : Aged(e, d).restarts[i] <= e.restarts[i] + d
<1>. DEFINE was == e.restarts
            now == [i \in DOMAIN was |-> Capped(was[i], d, Hour)]
            since == Capped(e.since, d, Stable)
            n == Len(was)
<1>1. Aged(e, d) = With(e, now, since)
  BY DEF Aged, With
<1>2. /\ e.streak \in 0..Confirmations /\ e.open \in BOOLEAN /\ e.known \in BOOLEAN
      /\ e.since \in (-MaxBack)..Stable \cup {NoAge} /\ was \in Seq(Age) /\ n <= MaxRestarts /\ (e.open => e.known)
      /\ InOrder(was)
  BY DEF Sound, Entry
<1>3. n \in Nat /\ DOMAIN was = 1..n /\ \A i \in 1..n : was[i] \in Age
  BY <1>2, Members
<1>4. ASSUME NEW i \in 1..n
      PROVE  /\ was[i] \in Int /\ -MaxBack <= was[i] /\ was[i] <= Hour /\ was[i] # NoAge
             /\ now[i] \in {was[i] + d, Hour} /\ now[i] <= was[i] + d /\ now[i] <= Hour
  <2>1. was[i] \in Int /\ -MaxBack <= was[i] /\ was[i] <= Hour
    BY <1>3, Sizes DEF Age
  <2>2. was[i] # NoAge
    BY <2>1, Sizes
  <2>3. now[i] = Capped(was[i], d, Hour)
    BY <1>3
  <2>. HIDE DEF was, now, since, n
  <2>4. now[i] \in {was[i] + d, Hour} /\ now[i] <= was[i] + d /\ now[i] <= Hour
    <3>1. Hour \in Int
      BY Sizes
    <3>2. /\ Capped(was[i], d, Hour) \in {was[i] + d, Hour}
          /\ Capped(was[i], d, Hour) <= was[i] + d /\ Capped(was[i], d, Hour) <= Hour
      BY <2>1, <2>2, <3>1, CappedIs
    <3>. QED  BY <2>3, <3>2
  <2>. QED  BY <2>1, <2>2, <2>4
<1>5. ASSUME NEW i \in 1..n PROVE now[i] \in Age
  <2>. HIDE DEF now
  <2>1. CASE d = 1
    <3>. HIDE DEF was, since, n
    <3>1. was[i] \in Int /\ -MaxBack <= was[i] /\ now[i] \in {was[i] + 1, Hour} /\ now[i] <= Hour
      BY <1>4, <2>1
    <3>2. now[i] \in Int /\ -MaxBack <= now[i]
      BY <3>1, Sizes
    <3>. QED  BY <3>1, <3>2 DEF Age
  <2>2. CASE Past(e) /\ -MaxBack <= d /\ d <= 0
    <3>1. was[i] \in Nat
      BY <1>3, <2>2, Members DEF Past
    <3>2. was[i] + d \in Int /\ -MaxBack <= was[i] + d
      BY <2>2, <3>1, Sizes
    <3>. HIDE DEF was, since, n
    <3>3. now[i] \in {was[i] + d, Hour} /\ now[i] <= Hour
      BY <1>4
    <3>4. now[i] \in Int /\ -MaxBack <= now[i]
      BY <3>2, <3>3, Sizes
    <3>. QED  BY <3>3, <3>4 DEF Age
  <2>. QED  BY <1>5, <2>1, <2>2
<1>6. now \in Seq(Age) /\ Len(now) = n /\ DOMAIN now = 1..n
  <2>1. n \in Nat /\ DOMAIN now = 1..n
    BY <1>3
  <2>2. now \in [1..n -> Age]
    BY <1>3, <1>5
  <2>. HIDE DEF now, n
  <2>. QED  BY <2>1, <2>2
<1>7. InOrder(now)
  <2>. SUFFICES ASSUME NEW i \in 1..n, NEW j \in 1..n, i <= j PROVE now[j] <= now[i]
    BY <1>6 DEF InOrder
  <2>1. was[j] <= was[i]
    BY <1>2, <1>3 DEF InOrder
  <2>2. was[i] \in Int /\ was[j] \in Int
    BY <1>4
  <2>3. was[j] + d <= was[i] + d
    BY <2>1, <2>2
  <2>. HIDE DEF now
  <2>4. now[j] \in Age /\ now[j] <= was[j] + d /\ now[j] <= Hour /\ now[i] \in {was[i] + d, Hour}
    BY <1>4, <1>5
  <2>5. now[j] \in Int
    BY <2>4, Sizes DEF Age
  <2>6. now[j] <= was[i] + d
    BY <2>2, <2>3, <2>4, <2>5
  <2>. QED  BY <2>4, <2>6
<1>8. since \in (-MaxBack)..Stable \cup {NoAge} /\ (d = 1 /\ Past(e) => since \in Nat)
  <2>1. CASE e.since = NoAge
    BY <2>1, Sizes DEF Capped
  <2>2. CASE e.since # NoAge
    <3>1. e.since \in Int /\ -MaxBack <= e.since /\ e.since <= Stable
      BY <1>2, <2>2, Sizes
    <3>2. since \in {e.since + d, Stable} /\ since <= Stable
      <4>1. Stable \in Int
        BY Sizes
      <4>. QED  BY <2>2, <3>1, <4>1, CappedIs
    <3>3. CASE d = 1
      <4>1. since \in Int /\ -MaxBack <= since
        BY <3>1, <3>2, <3>3, Sizes
      <4>2. Past(e) => since \in Nat
        <5>. SUFFICES ASSUME e.since \in Nat PROVE since \in Nat
          BY DEF Past
        <5>. QED  BY <3>2, <3>3, Sizes
      <4>. QED  BY <3>2, <4>1, <4>2
    <3>4. CASE Past(e) /\ -MaxBack <= d /\ d <= 0
      <4>1. e.since \in Nat
        BY <3>4 DEF Past
      <4>2. since \in Int /\ -MaxBack <= since
        BY <3>1, <3>2, <3>4, <4>1, Sizes
      <4>3. d # 1
        BY <3>4
      <4>. QED  BY <3>2, <4>2, <4>3
    <3>. QED  BY <3>3, <3>4
  <2>. QED  BY <2>1, <2>2
<1>. HIDE DEF now, since
<1>9. /\ Aged(e, d) \in Entry /\ Aged(e, d).restarts = now /\ Aged(e, d).since = since
      /\ Aged(e, d).streak = e.streak /\ Aged(e, d).open = e.open /\ Aged(e, d).known = e.known
  <2>1. e \in Entry
    BY DEF Sound
  <2>. QED  BY <1>1, <1>6, <1>8, <2>1, WithAges
<1>12. Sound(Aged(e, d))
  BY <1>2, <1>6, <1>7, <1>9 DEF Sound
<1>10. ASSUME d = 1, Past(e) PROVE Past(Aged(e, d))
  <2>1. ASSUME NEW i \in 1..n PROVE now[i] \in Nat
    <3>1. was[i] \in Nat
      BY <1>3, <1>10, Members DEF Past
    <3>. QED  BY <1>4, <1>10, <3>1, Sizes
  <2>2. now \in Seq(Nat)
    BY <1>3, <1>6, <2>1
  <2>. QED  BY <1>8, <1>9, <1>10, <2>2 DEF Past
<1>11. \A i \in DOMAIN e.restarts : Aged(e, d).restarts[i] <= e.restarts[i] + d
  BY <1>3, <1>4, <1>9
<1>. QED  BY <1>3, <1>6, <1>9, <1>10, <1>11, <1>12

(* As time passes, the stamps still cover what was asked for.              *)
LEMMA AdvanceCovers ==
  ASSUME NEW asked \in Seq(0..(Hour - 1)), InOrder(asked), NEW older, older = [i \in DOMAIN asked |-> asked[i] + 1]
  PROVE  /\ Recent(older) \in Seq(0..(Hour - 1)) /\ InOrder(Recent(older)) /\ Len(Recent(older)) <= Len(asked)
         /\ \A e : Sound(e) /\ Past(e) /\ Covered(asked, e.restarts) => Covered(Recent(older), Aged(e, 1).restarts)
<1>. DEFINE m == Len(asked)  r == Recent(older)
<1>1. m \in Nat /\ DOMAIN asked = 1..m /\ \A i \in 1..m : asked[i] \in 0..(Hour - 1)
  BY Members
<1>2. \A i \in 1..m : asked[i] \in Nat /\ asked[i] + 1 \in Nat
  BY <1>1, Sizes
<1>3. older \in Seq(Nat) /\ Len(older) = m /\ DOMAIN older = 1..m /\ \A i \in 1..m : older[i] = asked[i] + 1
  BY <1>1, <1>2
<1>4. InOrder(older)
  <2>. SUFFICES ASSUME NEW i \in 1..m, NEW j \in 1..m, i <= j PROVE older[j] <= older[i]
    BY <1>3 DEF InOrder
  <2>1. asked[j] <= asked[i]
    BY <1>1 DEF InOrder
  <2>. QED  BY <1>2, <1>3, <2>1
<1>5. r \in Seq(0..(Hour - 1)) /\ InOrder(r) /\ Len(r) <= m
  <2>1. Nat \in SUBSET Int /\ Nat \cap 0..(Hour - 1) = 0..(Hour - 1)
    BY Sizes
  <2>. QED  BY <1>3, <1>4, <2>1, RecentIsRecent
<1>6. ASSUME NEW e, Sound(e), Past(e), Covered(asked, e.restarts) PROVE Covered(r, Aged(e, 1).restarts)
  <2>. DEFINE n == Len(e.restarts)  now == Aged(e, 1).restarts
  <2>1. /\ n \in Nat /\ Len(now) = n /\ DOMAIN e.restarts = 1..n /\ \A i \in 1..n : e.restarts[i] \in Nat
        /\ \A i \in 1..n : now[i] <= e.restarts[i] + 1
    <3>1. n \in Nat /\ DOMAIN e.restarts = 1..n /\ \A i \in 1..n : e.restarts[i] \in Nat
      BY <1>6, Members DEF Past
    <3>2. Len(now) = n /\ \A i \in DOMAIN e.restarts : now[i] <= e.restarts[i] + 1
      BY <1>6, AgedIs
    <3>. QED  BY <3>1, <3>2
  <2>2. Len(r) \in Nat /\ Len(r) <= m /\ m <= n
    BY <1>1, <1>5, <1>6, Members DEF Covered
  <2>3. \A i \in 1..n : now[i] \in Int
    <3>1. Aged(e, 1).restarts \in Seq(Age)
      BY <1>6, AgedIs DEF Sound, Entry
    <3>2. \A i \in 1..n : now[i] \in Age
      BY <2>1, <3>1, Members
    <3>. QED  BY <3>2, Sizes DEF Age
  <2>4. ASSUME NEW k \in 0..(Len(r) - 1) PROVE now[Len(now) - k] <= r[Len(r) - k]
    <3>1. k \in 0..(m - 1) /\ m - k \in 1..m /\ n - k \in 1..n /\ k < Len(r)
      BY <1>1, <2>1, <2>2
    <3>2. r[Len(r) - k] = older[Len(older) - k]
      BY <1>3, <1>4, <3>1, RecentAreLast
    <3>3. older[m - k] = asked[m - k] + 1
      BY <1>3, <3>1
    <3>4. e.restarts[n - k] <= asked[m - k]
      BY <1>6, <3>1 DEF Covered
    <3>5. now[n - k] <= e.restarts[n - k] + 1 /\ now[n - k] \in Int /\ e.restarts[n - k] \in Nat
      BY <2>1, <2>3, <3>1
    <3>6. asked[m - k] \in Nat
      BY <1>2, <3>1
    <3>7. now[n - k] <= asked[m - k] + 1
      <4>. DEFINE a == now[n - k]  b == e.restarts[n - k]  c == asked[m - k]
      <4>1. a \in Int /\ b \in Nat /\ c \in Nat /\ a <= b + 1 /\ b <= c
        BY <3>4, <3>5, <3>6
      <4>. HIDE DEF a, b, c
      <4>2. a <= c + 1
        BY <4>1
      <4>. QED  BY <4>2 DEF a, c
    <3>8. Len(older) - k = m - k /\ Len(now) - k = n - k
      BY <1>3, <2>1
    <3>9. now[Len(now) - k] = now[n - k] /\ r[Len(r) - k] = asked[m - k] + 1
      BY <3>2, <3>3, <3>8
    <3>. QED  BY <3>7, <3>9
  <2>5. Len(r) <= Len(now)
    BY <1>1, <2>1, <2>2
  <2>. HIDE DEF now, r
  <2>6. Covered(r, now)
    BY <2>4, <2>5 DEF Covered
  <2>. QED  BY <2>6 DEF now
<1>. QED  BY <1>5, <1>6

-----------------------------------------------------------------------------
(* The invariant.                                                          *)

TickStates == {"idle", "deciding", "saving", "reporting", "acting", "ending"}
Actions == {"none", "restart", "incident", "resolved"}
Busy(c) == tick.at = "saving" /\ c = Current     \* decided and not saved

Ledgers == [damaged : BOOLEAN, last : Age \cup {NoAge}, entry : [Component -> Entry]]
Ticks ==
  [at : TickStates, n : 0..Len(Samples), entry : [Component -> Entry],
   seen : Status \cup {"none", "DEPENDENCY_UNAVAILABLE"}, action : Actions, backendOk : BOOLEAN]

Types ==
  /\ ledger \in Ledgers /\ tick \in Ticks
  /\ \A c \in Component : Sound(ledger.entry[c]) /\ Sound(tick.entry[c]) /\ InOrder(issued[c])
  /\ file \in [Component -> {"none", "open", "closed"}] /\ stray \subseteq Component
  /\ issued \in [Component -> Seq(0..(Hour - 1))]
  /\ stepped \in BOOLEAN /\ faults \in 0..MaxFaults

(* A tick works on what the ledger says, but for the decision it has not   *)
(* saved yet.                                                              *)
Working ==
  /\ tick.at = "idle" => tick = Idle
  /\ tick.at # "idle" => ~ledger.damaged /\ tick.n >= 1
  /\ \A c \in Component : tick.at # "idle" /\ ~Busy(c) => ledger.entry[c] = tick.entry[c]
  /\ tick.action = "restart" => tick.at \in {"saving", "reporting", "acting"}

(* Unless the clock was set back, no stamp lies in the future.             *)
NoneAhead ==
  ~stepped => /\ ledger.last \in Nat
              /\ \A c \in Component : Past(ledger.entry[c]) /\ Past(tick.entry[c])

(* The stamps cover the restarts asked for, and the one that will be.      *)
Budgeted ==
  ~stepped => \A c \in Component :
    /\ IF ledger.damaged THEN Len(issued[c]) <= MaxRestarts ELSE Covered(issued[c], ledger.entry[c].restarts)
    /\ tick.at # "idle" => Covered(issued[c], tick.entry[c].restarts)
    /\ tick.action = "restart" /\ c = Current => Covered(Append(issued[c], 0), tick.entry[c].restarts)

(* An open file whose incident is over will be closed by the next failing  *)
(* observation: each one before it was lost with a tick that was killed.   *)
Closable(c, e, due) == file[c] = "open" /\ ~e.open => e.known /\ (e.streak < faults \/ (due /\ c = Current /\ e.streak = faults))
Filed ==
  /\ faults < Confirmations => stray = {}
  /\ ~ledger.damaged => \A c \in Component : Closable(c, ledger.entry[c], tick.at = "reporting")
  /\ tick.at # "idle" => \A c \in Component : Closable(c, tick.entry[c], tick.at \in {"saving", "reporting"})

RecoveryInv == Types /\ Working /\ NoneAhead /\ Budgeted /\ Filed

-----------------------------------------------------------------------------
(* The decision.                                                           *)

LEMMA AppendSound ==
  ASSUME NEW ages \in Seq(Age), InOrder(ages), \A i \in 1..Len(ages) : ages[i] \in Nat
  PROVE  Append(ages, 0) \in Seq(Age) /\ InOrder(Append(ages, 0)) /\ Len(Append(ages, 0)) = Len(ages) + 1
<1>. DEFINE n == Len(ages)  more == Append(ages, 0)
<1>1. n \in Nat /\ DOMAIN ages = 1..n
  BY Members
<1>2. 0 \in Age
  BY Sizes DEF Age
<1>3. /\ more \in Seq(Age) /\ Len(more) = n + 1 /\ DOMAIN more = 1..(n + 1)
      /\ more[n + 1] = 0 /\ \A i \in 1..n : more[i] = ages[i]
  BY <1>1, <1>2
<1>. HIDE DEF more
<1>4. ASSUME NEW i \in 1..(n + 1), NEW j \in 1..(n + 1), i <= j PROVE more[j] <= more[i]
  <2>1. more[i] \in Nat
    <3>1. i \in 1..n \/ i = n + 1
      BY <1>1
    <3>. QED  BY <1>3, <3>1
  <2>2. CASE j = n + 1
    BY <1>3, <2>1, <2>2
  <2>3. CASE j # n + 1
    <3>1. i \in 1..n /\ j \in 1..n
      BY <1>1, <1>4, <2>3
    <3>2. ages[j] <= ages[i]
      BY <1>1, <1>4, <3>1 DEF InOrder
    <3>. QED  BY <1>3, <3>1, <3>2
  <2>. QED  BY <2>2, <2>3
<1>5. InOrder(more)
  BY <1>3, <1>4 DEF InOrder
<1>. QED  BY <1>3, <1>5 DEF more

(* What a decision makes of an entry.                                      *)
Decided(e, d) ==
  /\ Sound(d.entry)
  /\ d.action \in Actions
  /\ d.entry.restarts = IF d.action = "restart" THEN Append(Recent(e.restarts), 0) ELSE Recent(e.restarts)
  /\ d.entry.since \in {e.since, 0, NoAge}
  /\ e.known => d.entry.known
  /\ d.entry.open => e.open \/ e.streak + 1 >= Confirmations
  /\ ~d.entry.open => d.entry.streak \in {0, e.streak + 1} /\ (e.open => d.entry.streak = 0)

LEMMA RecentSound ==
  ASSUME NEW e, Sound(e)
  PROVE  LET f == [e EXCEPT !.restarts = Recent(@)] IN
         /\ Sound(f) /\ f.restarts = Recent(e.restarts) /\ \A i \in 1..Len(f.restarts) : f.restarts[i] \in Nat
         /\ f.streak = e.streak /\ f.since = e.since /\ f.open = e.open /\ f.known = e.known
<1>. DEFINE f == [e EXCEPT !.restarts = Recent(e.restarts)]
            r == Recent(e.restarts)
<1>1. /\ e \in Entry /\ e.restarts \in Seq(Age) /\ InOrder(e.restarts) /\ Len(e.restarts) <= MaxRestarts
      /\ Len(e.restarts) \in Nat
  BY Members DEF Sound, Entry
<1>2. Age \in SUBSET Int
  BY Sizes DEF Age
<1>3. r \in Seq(Age \cap 0..(Hour - 1)) /\ InOrder(r) /\ Len(r) <= Len(e.restarts)
  BY <1>1, <1>2, RecentIsRecent
<1>4. Len(r) \in Nat /\ DOMAIN r = 1..Len(r) /\ \A i \in 1..Len(r) : r[i] \in Age \cap 0..(Hour - 1)
  BY <1>3, Members
<1>5. r \in Seq(Age) /\ \A i \in 1..Len(r) : r[i] \in Nat
  <2>1. \A i \in 1..Len(r) : r[i] \in Age /\ r[i] \in Nat
    BY <1>4, Sizes
  <2>2. r \in Seq(Age)
    BY <1>3, <1>4
  <2>. QED  BY <2>1, <2>2
<1>6. Len(r) <= MaxRestarts
  BY <1>1, <1>3, <1>4, Sizes
<1>. HIDE DEF r
<1>7. f \in Entry /\ f.restarts = r
  BY <1>1, <1>5 DEF Entry, r
<1>8. f.streak = e.streak /\ f.since = e.since /\ f.open = e.open /\ f.known = e.known
  BY <1>1 DEF Entry
<1>. HIDE DEF f
<1>9. Sound(f)
  BY <1>3, <1>6, <1>7, <1>8 DEF Sound
<1>10. f.restarts = Recent(e.restarts) /\ \A i \in 1..Len(f.restarts) : f.restarts[i] \in Nat
  BY <1>5, <1>7 DEF r
<1>. QED  BY <1>8, <1>9, <1>10 DEF f

LEMMA HealthyDecided ==
  ASSUME NEW e, Sound(e)
  PROVE  /\ Sound(Healthy(e).entry) /\ Healthy(e).action \in {"none", "resolved"}
         /\ Healthy(e).entry.restarts = e.restarts /\ Healthy(e).entry.since \in {e.since, 0}
         /\ Healthy(e).entry.known = e.known /\ (Healthy(e).entry.open => e.open) /\ Healthy(e).entry.streak = 0
<1>. DEFINE since == IF e.since = NoAge THEN 0 ELSE e.since
            over == since >= Stable
            f == [e EXCEPT !.streak = 0, !.since = since, !.open = e.open /\ ~over]
<1>1. e \in Entry
  BY DEF Sound
<1>2. since \in (-MaxBack)..Stable \cup {NoAge} /\ since \in {e.since, 0} /\ 0 \in 0..Confirmations /\ over \in BOOLEAN
  BY <1>1, Sizes DEF Entry
<1>3. Healthy(e).entry = f /\ Healthy(e).action \in {"none", "resolved"}
  BY <1>1 DEF Healthy, Entry
<1>. HIDE DEF since, over
<1>4. f \in Entry
  BY <1>1, <1>2 DEF Entry
<1>5. /\ f.restarts = e.restarts /\ f.since = since /\ f.known = e.known /\ f.open = (e.open /\ ~over) /\ f.streak = 0
  BY <1>1 DEF Entry
<1>. HIDE DEF f
<1>6. Sound(f)
  BY <1>4, <1>5 DEF Sound
<1>. QED  BY <1>2, <1>3, <1>5, <1>6

FailedTo(e, d) ==
  /\ Sound(d.entry) /\ d.action \in Actions
  /\ d.entry.restarts = (IF d.action = "restart" THEN Append(e.restarts, 0) ELSE e.restarts)
  /\ d.entry.since = NoAge /\ (e.known => d.entry.known)
  /\ d.entry.open => e.open \/ e.streak + 1 >= Confirmations
  /\ ~d.entry.open => d.entry.streak = e.streak + 1 /\ ~e.open

LEMMA FailingDecided ==
  ASSUME NEW e, Sound(e), NEW status, \A i \in 1..Len(e.restarts) : e.restarts[i] \in Nat
  PROVE  FailedTo(e, Failing(e, status))
<1>. DEFINE streak == Min({e.streak + 1, Confirmations})
            suspected == [e EXCEPT !.streak = streak, !.since = NoAge]
            confirmed == [e EXCEPT !.streak = streak, !.since = NoAge, !.open = TRUE, !.known = TRUE]
            restarting == [confirmed EXCEPT !.restarts = Append(confirmed.restarts, 0), !.streak = 0]
<1>1. e \in Entry /\ e.streak \in 0..Confirmations /\ e.restarts \in Seq(Age)
  BY DEF Sound, Entry
<1>2. streak \in 0..Confirmations /\ (streak < Confirmations => streak = e.streak + 1) /\ (~(streak < Confirmations) => e.streak + 1 >= Confirmations)
  <2>1. e.streak + 1 \in Int /\ Confirmations \in Int
    BY <1>1, Sizes
  <2>2. streak \in {e.streak + 1, Confirmations} /\ streak <= e.streak + 1 /\ streak <= Confirmations
    BY <2>1, Smaller
  <2>. HIDE DEF streak
  <2>. QED  BY <1>1, <2>2, Sizes
<1>. HIDE DEF streak
<1>3. /\ suspected \in Entry /\ suspected.restarts = e.restarts /\ suspected.since = NoAge /\ suspected.streak = streak
      /\ suspected.open = e.open /\ suspected.known = e.known
  BY <1>1, <1>2 DEF Entry
<1>4. /\ confirmed \in Entry /\ confirmed.restarts = e.restarts /\ confirmed.since = NoAge /\ confirmed.streak = streak
      /\ confirmed.open = TRUE /\ confirmed.known = TRUE
  BY <1>1, <1>2 DEF Entry
<1>. HIDE DEF confirmed
<1>5. CASE streak < Confirmations
  <2>1. Failing(e, status) = [entry |-> suspected, action |-> "none"]
    BY <1>5 DEF Failing, streak
  <2>. HIDE DEF suspected
  <2>2. Sound(suspected)
    BY <1>3 DEF Sound
  <2>. QED  BY <1>2, <1>3, <1>5, <2>1, <2>2 DEF Actions, FailedTo
<1>6. CASE ~(streak < Confirmations) /\ MayRestart(status, e.restarts)
  <2>1. Failing(e, status) = [entry |-> restarting, action |-> "restart"]
    BY <1>6 DEF Failing, streak, confirmed
  <2>2. /\ Append(e.restarts, 0) \in Seq(Age) /\ InOrder(Append(e.restarts, 0)) /\ Len(Append(e.restarts, 0)) = Len(e.restarts) + 1
    BY <1>1, AppendSound DEF Sound
  <2>3. Len(e.restarts) + 1 <= MaxRestarts
    BY <1>1, <1>6, Sizes, Members DEF MayRestart
  <2>4. 0 \in 0..Confirmations
    BY Sizes
  <2>5. /\ restarting \in Entry /\ restarting.restarts = Append(e.restarts, 0) /\ restarting.since = NoAge
        /\ restarting.open = TRUE /\ restarting.known = TRUE
    BY <1>4, <2>2, <2>4 DEF Entry
  <2>. HIDE DEF restarting
  <2>6. Sound(restarting)
    BY <2>2, <2>3, <2>5 DEF Sound
  <2>. QED  BY <1>2, <1>6, <2>1, <2>5, <2>6 DEF Actions, FailedTo
<1>7. CASE ~(streak < Confirmations) /\ ~MayRestart(status, e.restarts)
  <2>1. Failing(e, status) = [entry |-> confirmed, action |-> IF e.open THEN "none" ELSE "incident"]
    BY <1>7 DEF Failing, streak, confirmed
  <2>2. Sound(confirmed)
    BY <1>4 DEF Sound
  <2>. QED  BY <1>2, <1>4, <1>7, <2>1, <2>2 DEF Actions, FailedTo
<1>. QED  BY <1>5, <1>6, <1>7

LEMMA DecisionDecided ==
  ASSUME NEW e, Sound(e), NEW status
  PROVE  Decided(e, Decision(e, status))
<1>. DEFINE f == [e EXCEPT !.restarts = Recent(@)]
            d == Decision(e, status)
<1>1. /\ Sound(f) /\ f.restarts = Recent(e.restarts) /\ \A i \in 1..Len(f.restarts) : f.restarts[i] \in Nat
      /\ f.streak = e.streak /\ f.since = e.since /\ f.open = e.open /\ f.known = e.known
  BY RecentSound
<1>. HIDE DEF f
<1>0. /\ f \in Entry /\ {e.open, e.known, f.open, f.known} \subseteq BOOLEAN /\ e.streak \in Nat
      /\ Recent(e.restarts) = f.restarts
  BY <1>1 DEF Sound, Entry
<1>2. CASE status = "HEALTHY"
  <2>1. d = Healthy(f)
    BY <1>2 DEF Decision, f
  <2>. HIDE DEF d
  <2>2. /\ Sound(d.entry) /\ d.action \in {"none", "resolved"}
        /\ d.entry.restarts = f.restarts /\ d.entry.since \in {f.since, 0}
        /\ d.entry.known = f.known /\ (d.entry.open => f.open) /\ d.entry.streak = 0
    BY <1>1, <2>1, HealthyDecided
  <2>3. d.action \in Actions /\ d.action # "restart"
    BY <2>2 DEF Actions
  <2>4. d.entry.restarts = IF d.action = "restart" THEN Append(Recent(e.restarts), 0) ELSE Recent(e.restarts)
    BY <1>0, <2>2, <2>3
  <2>5. d.entry.since \in {e.since, 0, NoAge} /\ (e.known => d.entry.known)
    BY <1>1, <2>2
  <2>6. d.entry.open => e.open \/ e.streak + 1 >= Confirmations
    BY <1>1, <2>2
  <2>7. ~d.entry.open => d.entry.streak \in {0, e.streak + 1} /\ (e.open => d.entry.streak = 0)
    BY <2>2
  <2>. QED  BY <2>2, <2>3, <2>4, <2>5, <2>6, <2>7 DEF Decided, d
<1>3. CASE status \in {"OVERLOADED", "DEPENDENCY_UNAVAILABLE"}
  <2>. DEFINE g == [f EXCEPT !.streak = 0, !.since = NoAge]
  <2>1. d = [entry |-> g, action |-> "none"]
    BY <1>3 DEF Decision, f
  <2>2. f \in Entry /\ 0 \in 0..Confirmations
    BY <1>1, Sizes DEF Sound
  <2>3. g \in Entry /\ g.restarts = f.restarts /\ g.streak = 0 /\ g.since = NoAge /\ g.open = f.open /\ g.known = f.known
    BY <2>2 DEF Entry
  <2>. HIDE DEF g, d
  <2>4. Sound(g)
    BY <1>1, <2>3 DEF Sound
  <2>5. /\ d.entry = g /\ d.action \in Actions /\ d.action # "restart"
    BY <2>1 DEF Actions
  <2>6. d.entry.restarts = IF d.action = "restart" THEN Append(Recent(e.restarts), 0) ELSE Recent(e.restarts)
    BY <1>0, <2>3, <2>5
  <2>7. d.entry.since \in {e.since, 0, NoAge} /\ (e.known => d.entry.known)
    BY <1>1, <2>3, <2>5
  <2>8. d.entry.open => e.open \/ e.streak + 1 >= Confirmations
    BY <1>1, <2>3, <2>5
  <2>9. ~d.entry.open => d.entry.streak \in {0, e.streak + 1} /\ (e.open => d.entry.streak = 0)
    BY <2>3, <2>5
  <2>10. Sound(d.entry)
    BY <2>4, <2>5
  <2>. QED  BY <2>5, <2>6, <2>7, <2>8, <2>9, <2>10 DEF Decided, d
<1>4. CASE status \notin {"HEALTHY", "OVERLOADED", "DEPENDENCY_UNAVAILABLE"}
  <2>1. d = Failing(f, status)
    BY <1>4 DEF Decision, f
  <2>. HIDE DEF d
  <2>2. FailedTo(f, d)
    BY <1>1, <2>1, FailingDecided
  <2>3. d.entry.restarts = IF d.action = "restart" THEN Append(Recent(e.restarts), 0) ELSE Recent(e.restarts)
    BY <1>0, <2>2 DEF FailedTo
  <2>4. d.entry.since \in {e.since, 0, NoAge} /\ (e.known => d.entry.known)
    BY <1>1, <2>2 DEF FailedTo
  <2>5. d.entry.open => e.open \/ e.streak + 1 >= Confirmations
    BY <1>1, <2>2 DEF FailedTo
  <2>6. ~d.entry.open => d.entry.streak \in {0, e.streak + 1} /\ (e.open => d.entry.streak = 0)
    BY <1>1, <2>2 DEF FailedTo
  <2>7. Sound(d.entry) /\ d.action \in Actions
    BY <2>2 DEF FailedTo
  <2>. QED  BY <2>3, <2>4, <2>5, <2>6, <2>7 DEF Decided, d
<1>. QED  BY <1>2, <1>3, <1>4

-----------------------------------------------------------------------------
(* The steps.                                                              *)

LEMMA SamplesAre ==
  /\ Len(Samples) \in Nat /\ Len(Samples) >= 1 /\ "backend" \in Component
  /\ \A i \in 1..Len(Samples) : Samples[i] \in Component
<1>. DEFINE T == STRING \cup {"backend"}
<1>1. Profiles \in Seq(T) /\ Len(Profiles) \in Nat
  <2>1. Profiles \in Seq(STRING)
    BY RecoveryAssumption
  <2>2. Len(Profiles) \in Nat /\ DOMAIN Profiles = 1..Len(Profiles) /\ \A i \in 1..Len(Profiles) : Profiles[i] \in T
    BY <2>1, Members
  <2>. QED  BY <2>1, <2>2
<1>2. Samples \in Seq(T) /\ Len(Samples) = 1 + Len(Profiles) /\ Samples[1] = "backend"
  <2>1. "backend" \in T
    OBVIOUS
  <2>. HIDE DEF T
  <2>2. <<"backend">> \in Seq(T) /\ Len(<<"backend">>) = 1 /\ <<"backend">>[1] = "backend"
    BY <2>1
  <2>. QED  BY <1>1, <2>2 DEF Samples
<1>3. Len(Samples) \in Nat /\ DOMAIN Samples = 1..Len(Samples) /\ Len(Profiles) \in Nat
  <2>. HIDE DEF T
  <2>. QED  BY <1>1, <1>2, Members
<1>4. Component = {Samples[i] : i \in DOMAIN Samples}
  BY DEF Component, Range
<1>5. \A i \in 1..Len(Samples) : Samples[i] \in Component
  BY <1>3, <1>4
<1>6. Len(Samples) >= 1
  BY <1>2, <1>3
<1>. QED  BY <1>2, <1>3, <1>5, <1>6

LEMMA CurrentIs ==
  ASSUME Types, Working, tick.at # "idle"
  PROVE  tick.n \in 1..Len(Samples) /\ Current \in Component
<1>1. tick.n \in 0..Len(Samples) /\ tick.n >= 1
  BY DEF Types, Ticks, Working
<1>2. tick.n \in 1..Len(Samples)
  BY <1>1, SamplesAre
<1>. QED  BY <1>2, SamplesAre DEF Current

LEMMA NewSound ==
  Sound(New) /\ Past(New) /\ New.restarts = <<>> /\ New.open = FALSE /\ New.known = FALSE /\ New.streak = 0
<1>1. New \in Entry
  BY Sizes DEF New, Entry
<1>2. InOrder(<<>>) /\ Len(<<>>) = 0 /\ <<>> \in Seq(Nat)
  BY DEF InOrder
<1>. QED  BY <1>1, <1>2, Sizes DEF New, Sound, Past

LEMMA IdleIs ==
  /\ Idle \in Ticks
  /\ Idle.at = "idle" /\ Idle.action = "none" /\ \A c \in Component : Idle.entry[c] = New
BY NewSound, SamplesAre DEF Idle, Ticks, TickStates, Actions, Sound

LEMMA InitInv == RecoveryInit => RecoveryInv
<1>. SUFFICES ASSUME RecoveryInit PROVE RecoveryInv
  OBVIOUS
<1>1. /\ ledger = [damaged |-> FALSE, last |-> NoAge, entry |-> [c \in Component |-> New]] /\ tick = Idle
      /\ file = [c \in Component |-> "none"] /\ stray = {} /\ issued = [c \in Component |-> <<>>]
      /\ stepped = FALSE /\ faults = 0
  BY DEF RecoveryInit
<1>2. \A c \in Component : ledger.entry[c] = New /\ tick.entry[c] = New /\ issued[c] = <<>> /\ file[c] = "none"
  BY <1>1, IdleIs
<1>3. Types
  <2>1. ledger \in Ledgers
    BY <1>1, NewSound DEF Sound, Ledgers
  <2>2. InOrder(<<>>)
    BY DEF InOrder
  <2>3. issued \in [Component -> Seq(0..(Hour - 1))]
    BY <1>1
  <2>4. tick \in Ticks
    BY <1>1, IdleIs
  <2>5. \A c \in Component : Sound(ledger.entry[c]) /\ Sound(tick.entry[c]) /\ InOrder(issued[c])
    BY <1>2, <2>2, NewSound
  <2>6. file \in [Component -> {"none", "open", "closed"}] /\ stray \subseteq Component
    BY <1>1
  <2>7. stepped \in BOOLEAN /\ faults \in 0..MaxFaults
    <3>1. 0 \in 0..MaxFaults
      BY Sizes
    <3>. QED  BY <1>1, <3>1
  <2>. QED  BY <2>1, <2>3, <2>4, <2>5, <2>6, <2>7 DEF Types
<1>4. Working
  BY <1>1, IdleIs DEF Working
<1>5. NoneAhead
  BY <1>1, <1>2, NewSound, Sizes DEF NoneAhead
<1>6. Budgeted
  <2>1. Covered(<<>>, <<>>)
    BY DEF Covered
  <2>. QED  BY <1>1, <1>2, <2>1, NewSound, IdleIs DEF Budgeted
<1>7. Filed
  BY <1>1, <1>2, IdleIs DEF Filed, Closable
<1>. QED  BY <1>3, <1>4, <1>5, <1>6, <1>7 DEF RecoveryInv

(* A conservative ledger covers whatever was within the budget.            *)
LEMMA ConservativeIs ==
  /\ Conservative \in Ledgers /\ Conservative.damaged = FALSE /\ Conservative.last = 0
  /\ \A c \in Component :
       /\ Sound(Conservative.entry[c]) /\ Past(Conservative.entry[c])
       /\ \A asked \in Seq(0..(Hour - 1)) :
            Len(asked) <= MaxRestarts => Covered(asked, Conservative.entry[c].restarts)
<1>. DEFINE zeros == [i \in 1..MaxRestarts |-> 0]
            e == [New EXCEPT !.restarts = zeros]
<1>1. MaxRestarts \in Nat /\ 0 \in Age
  BY Sizes DEF Age
<1>2. zeros \in Seq(Age) /\ zeros \in Seq(Nat) /\ Len(zeros) = MaxRestarts /\ DOMAIN zeros = 1..MaxRestarts
      /\ \A i \in 1..MaxRestarts : zeros[i] = 0
  <2>1. zeros \in [1..MaxRestarts -> Age] /\ zeros \in [1..MaxRestarts -> Nat] /\ DOMAIN zeros = 1..MaxRestarts
        /\ \A i \in 1..MaxRestarts : zeros[i] = 0
    BY <1>1
  <2>. HIDE DEF zeros
  <2>2. zeros \in Seq(Age) /\ zeros \in Seq(Nat)
    BY <1>1, <2>1
  <2>3. Len(zeros) = MaxRestarts
    BY <1>1, <2>1
  <2>. QED  BY <2>1, <2>2, <2>3
<1>. HIDE DEF zeros
<1>3. New \in Entry /\ New.since \in Nat /\ New.open = FALSE
  BY NewSound DEF Sound, Past
<1>4. e \in Entry /\ e.restarts = zeros /\ e.since = New.since /\ e.open = New.open
  BY <1>2, <1>3 DEF Entry
<1>5. InOrder(zeros)
  BY <1>2 DEF InOrder
<1>6. Conservative = [damaged |-> FALSE, last |-> 0, entry |-> [c \in Component |-> e]]
  BY DEF Conservative, zeros
<1>. HIDE DEF e
<1>7. Sound(e) /\ Past(e)
  BY <1>1, <1>2, <1>3, <1>4, <1>5 DEF Sound, Past
<1>8. ASSUME NEW asked \in Seq(0..(Hour - 1)), Len(asked) <= MaxRestarts PROVE Covered(asked, zeros)
  <2>1. Len(asked) \in Nat /\ \A i \in 1..Len(asked) : asked[i] \in 0..(Hour - 1)
    BY Members
  <2>2. \A i \in 1..Len(asked) : 0 <= asked[i]
    BY <2>1, Sizes
  <2>3. ASSUME NEW k \in 0..(Len(asked) - 1) PROVE zeros[Len(zeros) - k] <= asked[Len(asked) - k]
    <3>1. Len(zeros) - k \in 1..MaxRestarts /\ Len(asked) - k \in 1..Len(asked)
      BY <1>1, <1>2, <1>8, <2>1
    <3>. QED  BY <1>2, <2>2, <3>1
  <2>. QED  BY <1>2, <1>8, <2>3 DEF Covered
<1>9. Conservative \in Ledgers
  BY <1>1, <1>4, <1>6 DEF Ledgers
<1>10. \A c \in Component : Conservative.entry[c] = e
  BY <1>6
<1>. QED  BY <1>4, <1>6, <1>7, <1>8, <1>9, <1>10

LEMMA BeginInv == RecoveryInv /\ Begin => RecoveryInv'
<1>. SUFFICES ASSUME RecoveryInv, Begin PROVE RecoveryInv'
  OBVIOUS
<1>. USE DEF RecoveryInv
<1>1. PICK read : read = IF ledger.damaged THEN Conservative ELSE ledger
  OBVIOUS
<1>2. PICK began : began = [Idle EXCEPT !.at = "deciding", !.n = 1, !.entry = read.entry]
  OBVIOUS
<1>3. /\ tick = Idle /\ tick.at = "idle" /\ ledger' = read /\ tick' \in {Idle, began}
      /\ file' = (IF ledger.damaged THEN [c \in Component |-> "none"] ELSE file)
      /\ stray' = stray /\ issued' = issued /\ stepped' = stepped /\ faults' = faults
  BY <1>1, <1>2 DEF Begin, Working
<1>4. /\ read \in Ledgers /\ read.damaged = FALSE
      /\ \A c \in Component : Sound(read.entry[c]) /\ (~stepped => Past(read.entry[c]))
      /\ ~stepped => read.last \in Nat
  <2>1. CASE ledger.damaged
    BY <1>1, <2>1, ConservativeIs
  <2>2. CASE ~ledger.damaged
    <3>1. ledger.damaged \in BOOLEAN
      BY DEF Types, Ledgers
    <3>. QED  BY <1>1, <2>2, <3>1 DEF Types, NoneAhead
  <2>. QED  BY <2>1, <2>2
<1>5. ASSUME NEW c \in Component, ~stepped PROVE Covered(issued[c], read.entry[c].restarts)
  <2>1. issued[c] \in Seq(0..(Hour - 1))
    BY DEF Types
  <2>2. CASE ledger.damaged
    BY <1>1, <1>5, <2>1, <2>2, ConservativeIs DEF Budgeted
  <2>3. CASE ~ledger.damaged
    BY <1>1, <1>5, <2>3 DEF Budgeted
  <2>. QED  BY <2>2, <2>3
<1>6. ASSUME NEW c \in Component, file'[c] = "open", ~read.entry[c].open
      PROVE  read.entry[c].known /\ read.entry[c].streak < faults
  <2>1. ~ledger.damaged /\ file' = file /\ read = ledger
    BY <1>1, <1>3, <1>6
  <2>2. Closable(c, ledger.entry[c], tick.at = "reporting")
    BY <2>1 DEF Filed
  <2>. QED  BY <1>3, <1>6, <2>1, <2>2 DEF Closable
<1>7. /\ began \in Ticks /\ began.at = "deciding" /\ began.n = 1 /\ began.entry = read.entry /\ began.action = "none"
  <2>1. Idle \in Ticks /\ Idle.action = "none" /\ read.entry \in [Component -> Entry] /\ 1 \in 0..Len(Samples)
    BY <1>4, IdleIs, SamplesAre DEF Ledgers
  <2>. QED  BY <1>2, <2>1 DEF Ticks, TickStates
<1>8. tick' \in Ticks /\ (tick'.at # "idle" => tick' = began) /\ (tick'.at = "idle" => tick' = Idle)
      /\ tick'.at \in {"idle", "deciding"} /\ tick'.action = "none"
  BY <1>3, <1>7, IdleIs
<1>9. Types'
  <2>1. \A c \in Component : Sound(tick'.entry[c])
    BY <1>3, <1>4, <1>7, IdleIs, NewSound
  <2>2. file' \in [Component -> {"none", "open", "closed"}]
    BY <1>3 DEF Types
  <2>. QED  BY <1>3, <1>4, <1>8, <2>1, <2>2 DEF Types
<1>10. Working'
  BY <1>3, <1>4, <1>7, <1>8 DEF Working
<1>11. NoneAhead'
  <2>1. \A c \in Component : ~stepped => Past(tick'.entry[c])
    BY <1>3, <1>4, <1>7, IdleIs, NewSound
  <2>. QED  BY <1>3, <1>4, <2>1 DEF NoneAhead
<1>12. Budgeted'
  <2>1. \A c \in Component : ~stepped /\ tick'.at # "idle" => Covered(issued[c], tick'.entry[c].restarts)
    BY <1>5, <1>7, <1>8
  <2>. QED  BY <1>3, <1>4, <1>5, <1>8, <2>1 DEF Budgeted
<1>13. Filed'
  <2>1. faults' < Confirmations => stray' = {}
    BY <1>3 DEF Filed
  <2>2. \A c \in Component : Closable(c, ledger.entry[c], tick.at = "reporting")'
    BY <1>3, <1>6 DEF Closable
  <2>3. tick'.at # "idle" => \A c \in Component : Closable(c, tick.entry[c], tick.at \in {"saving", "reporting"})'
    BY <1>3, <1>6, <1>7, <1>8 DEF Closable
  <2>. QED  BY <2>1, <2>2, <2>3 DEF Filed
<1>. QED  BY <1>9, <1>10, <1>11, <1>12, <1>13

LEMMA DecideInv == RecoveryInv /\ Decide => RecoveryInv'
<1>. SUFFICES ASSUME RecoveryInv, Decide PROVE RecoveryInv'
  OBVIOUS
<1>. USE DEF RecoveryInv
<1>1. tick.at = "deciding"
  BY DEF Decide
<1>2. PICK g : g = Current
  OBVIOUS
<1>3. PICK e : e = tick.entry[g]
  OBVIOUS
<1>4. PICK s \in Observable(g) :
        LET d == Decision(e, s) IN
        /\ tick' = [tick EXCEPT !.at = AfterDecision, !.entry[g] = d.entry, !.seen = s, !.action = d.action,
             !.backendOk = IF g = "backend" THEN s \in {"HEALTHY", "OVERLOADED"} ELSE @]
        /\ IF d.entry.open /\ ~e.open
           THEN /\ stray' = IF file[g] = "open" THEN stray \cup {g} ELSE stray
                /\ file' = [file EXCEPT ![g] = "none"]
           ELSE UNCHANGED <<stray, file>>
  BY <1>2, <1>3 DEF Decide
<1>5. PICK d : d = Decision(e, s)
  OBVIOUS
<1>6. UNCHANGED <<ledger, issued, stepped, faults>>
  BY DEF Decide
<1>7. g \in Component /\ tick.n \in 1..Len(Samples) /\ ~ledger.damaged
  BY <1>1, <1>2, CurrentIs DEF Working
<1>8. Sound(e) /\ e \in Entry /\ ledger.entry[g] = e /\ tick.action # "restart"
  BY <1>1, <1>3, <1>7 DEF Types, Sound, Working, Busy
<1>9. Decided(e, d) /\ Sound(d.entry) /\ d.entry \in Entry /\ d.action \in Actions
  BY <1>5, <1>8, DecisionDecided DEF Decided, Sound
<1>10. /\ tick'.at = "saving" /\ tick'.n = tick.n /\ tick'.action = d.action
       /\ tick'.entry = [tick.entry EXCEPT ![g] = d.entry] /\ tick' \in Ticks
  <2>1. s \in Status \cup {"none", "DEPENDENCY_UNAVAILABLE"}
    BY <1>4 DEF Observable
  <2>2. tick \in Ticks
    BY DEF Types
  <2>3. PICK ok : ok = IF g = "backend" THEN s \in {"HEALTHY", "OVERLOADED"} ELSE tick.backendOk
    OBVIOUS
  <2>4. ok \in BOOLEAN
    <3>1. tick.backendOk \in BOOLEAN /\ (s \in {"HEALTHY", "OVERLOADED"}) \in BOOLEAN
      BY <2>2 DEF Ticks
    <3>2. CASE g = "backend"
      BY <2>3, <3>1, <3>2
    <3>3. CASE g # "backend"
      BY <2>3, <3>1, <3>3
    <3>. QED  BY <3>2, <3>3
  <2>5. PICK entry : entry = [tick.entry EXCEPT ![g] = d.entry]
    OBVIOUS
  <2>6. entry \in [Component -> Entry]
    BY <1>9, <2>2, <2>5 DEF Ticks
  <2>7. tick' = [tick EXCEPT !.at = "saving", !.entry = entry, !.seen = s, !.action = d.action, !.backendOk = ok]
    BY <1>4, <1>5, <2>2, <2>3, <2>5 DEF AfterDecision, Ticks
  <2>8. tick' \in Ticks
    BY <1>9, <2>1, <2>2, <2>4, <2>6, <2>7 DEF Ticks, TickStates
  <2>9. tick'.at = "saving" /\ tick'.n = tick.n /\ tick'.action = d.action /\ tick'.entry = entry
    BY <2>2, <2>7 DEF Ticks
  <2>. QED  BY <2>5, <2>8, <2>9
<1>11. Current' = g
  BY <1>2, <1>10 DEF Current
<1>12. tick'.entry[g] = d.entry /\ \A c \in Component \ {g} : tick'.entry[c] = tick.entry[c]
  BY <1>7, <1>10 DEF Types, Ticks
<1>13. /\ file' \in [Component -> {"none", "open", "closed"}] /\ stray' \subseteq Component
       /\ \A c \in Component : file'[c] = file[c] \/ (c = g /\ file'[c] = "none")
       /\ file'[g] = "open" => ~(d.entry.open /\ ~e.open)
  BY <1>4, <1>5, <1>7 DEF Types
<1>14. Types'
  <2>1. \A c \in Component : Sound(tick'.entry[c])
    BY <1>9, <1>12 DEF Types
  <2>. QED  BY <1>6, <1>10, <1>13, <2>1 DEF Types
<1>15. Working'
  <2>1. \A c \in Component : ~Busy(c)' => ledger'.entry[c] = tick'.entry[c]
    <3>. SUFFICES ASSUME NEW c \in Component, c # g PROVE ledger'.entry[c] = tick'.entry[c]
      BY <1>10, <1>11 DEF Busy
    <3>. QED  BY <1>1, <1>6, <1>12 DEF Working, Busy
  <2>. QED  BY <1>6, <1>7, <1>10, <2>1 DEF Working
<1>16. ASSUME ~stepped
       PROVE  /\ Past(e) /\ e.restarts \in Seq(Nat) /\ InOrder(e.restarts) /\ e.restarts \in Seq(Age)
              /\ Recent(e.restarts) \in Seq(Nat) /\ InOrder(Recent(e.restarts)) /\ Past(d.entry)
  <2>1. Past(e) /\ e.restarts \in Seq(Nat) /\ InOrder(e.restarts) /\ e.restarts \in Seq(Age) /\ e.since \in Nat
    BY <1>3, <1>7, <1>8, <1>16 DEF NoneAhead, Past, Sound, Entry
  <2>2. Recent(e.restarts) \in Seq(Nat \cap 0..(Hour - 1)) /\ InOrder(Recent(e.restarts))
    <3>1. Nat \in SUBSET Int
      OBVIOUS
    <3>. QED  BY <2>1, <3>1, RecentIsRecent
  <2>3. Recent(e.restarts) \in Seq(Nat)
    BY <2>2
  <2>4. d.entry.restarts \in Seq(Nat)
    BY <1>9, <2>3 DEF Decided
  <2>5. d.entry.since \in Nat
    BY <1>9, <2>1, Sizes DEF Decided
  <2>. QED  BY <2>1, <2>2, <2>3, <2>4, <2>5 DEF Past
<1>17. NoneAhead'
  BY <1>6, <1>12, <1>16 DEF NoneAhead
<1>18. Budgeted'
  <2>. SUFFICES ASSUME ~stepped, NEW c \in Component
                PROVE  /\ Covered(issued[c], ledger.entry[c].restarts)
                       /\ Covered(issued[c], tick'.entry[c].restarts)
                       /\ tick'.action = "restart" /\ c = g => Covered(Append(issued[c], 0), tick'.entry[c].restarts)
    BY <1>6, <1>7, <1>10, <1>11 DEF Budgeted
  <2>1. Covered(issued[c], ledger.entry[c].restarts) /\ Covered(issued[c], tick.entry[c].restarts)
    BY <1>1, <1>7 DEF Budgeted
  <2>2. CASE c # g
    BY <1>12, <2>1, <2>2
  <2>3. CASE c = g
    <3>1. Covered(issued[g], e.restarts)
      BY <1>3, <2>1, <2>3
    <3>2. issued[g] \in Seq(0..(Hour - 1)) /\ issued[g] \in Seq(Nat)
      <4>1. issued[g] \in Seq(0..(Hour - 1))
        BY <1>7 DEF Types
      <4>2. \A i \in 1..Len(issued[g]) : issued[g][i] \in Nat
        BY <4>1, Members, Sizes
      <4>. QED  BY <4>1, <4>2, Members
    <3>3. Covered(issued[g], Recent(e.restarts))
      BY <1>16, <3>1, <3>2, RecentCovers
    <3>4. /\ Covered(Append(issued[g], 0), Append(Recent(e.restarts), 0))
          /\ Covered(issued[g], Append(Recent(e.restarts), 0))
      BY <1>16, <3>2, <3>3, AppendCovers
    <3>5. d.entry.restarts = IF d.action = "restart" THEN Append(Recent(e.restarts), 0) ELSE Recent(e.restarts)
      BY <1>9 DEF Decided
    <3>. QED  BY <1>10, <1>12, <2>1, <2>3, <3>3, <3>4, <3>5
  <2>. QED  BY <2>2, <2>3
<1>19. faults \in Nat /\ e.streak \in Nat /\ d.entry.streak \in Nat
  BY <1>8, <1>9 DEF Types, Entry
<1>20. ASSUME file[g] = "open", ~e.open PROVE e.known /\ e.streak < faults
  BY <1>1, <1>3, <1>7, <1>20 DEF Filed, Closable
<1>21. Filed'
  <2>1. faults < Confirmations => stray' = {}
    <3>. SUFFICES ASSUME faults < Confirmations PROVE ~(d.entry.open /\ ~e.open /\ file[g] = "open")
      BY <1>4, <1>5 DEF Filed
    <3>. SUFFICES ASSUME d.entry.open, ~e.open, file[g] = "open" PROVE FALSE
      OBVIOUS
    <3>1. e.streak + 1 >= Confirmations
      BY <1>9 DEF Decided
    <3>. QED  BY <1>19, <1>20, <3>1, Sizes
  <2>2. ASSUME NEW c \in Component PROVE Closable(c, ledger.entry[c], tick.at = "reporting")'
    <3>1. Closable(c, ledger.entry[c], tick.at = "reporting")
      BY <1>7 DEF Filed
    <3>. QED  BY <1>1, <1>6, <1>10, <1>13, <3>1 DEF Closable
  <2>3. ASSUME NEW c \in Component PROVE Closable(c, tick.entry[c], tick.at \in {"saving", "reporting"})'
    <3>1. CASE c # g
      <4>1. Closable(c, tick.entry[c], tick.at \in {"saving", "reporting"})
        BY <1>1 DEF Filed
      <4>. QED  BY <1>1, <1>2, <1>6, <1>11, <1>12, <1>13, <3>1, <4>1 DEF Closable
    <3>2. CASE c = g
      <4>. SUFFICES ASSUME file'[g] = "open", ~d.entry.open
                    PROVE  d.entry.known /\ (d.entry.streak < faults \/ d.entry.streak = faults)
        BY <1>6, <1>10, <1>11, <1>12, <3>2 DEF Closable
      <4>1. file[g] = "open"
        BY <1>7, <1>13
      <4>2. CASE e.open
        <5>1. e.known /\ d.entry.known /\ d.entry.streak = 0
          BY <1>8, <1>9, <4>2 DEF Decided, Sound
        <5>. QED  BY <1>19, <5>1
      <4>3. CASE ~e.open
        <5>1. e.known /\ e.streak < faults /\ d.entry.known /\ d.entry.streak \in {0, e.streak + 1}
          BY <1>9, <1>20, <4>1, <4>3 DEF Decided
        <5>. QED  BY <1>19, <5>1
      <4>. QED  BY <4>2, <4>3
    <3>. QED  BY <3>1, <3>2
  <2>. QED  BY <1>6, <2>1, <2>2, <2>3 DEF Filed
<1>. QED  BY <1>14, <1>15, <1>17, <1>18, <1>21

LEMMA SaveInv == RecoveryInv /\ Save => RecoveryInv'
<1>. SUFFICES ASSUME RecoveryInv, Save PROVE RecoveryInv'
  OBVIOUS
<1>. USE DEF RecoveryInv
<1>1. PICK g : g = Current
  OBVIOUS
<1>2. tick.at = "saving" /\ ledger' = [ledger EXCEPT !.entry = tick.entry] /\ UNCHANGED <<file, stray, issued, stepped, faults>>
  BY DEF Save
<1>3. PICK at : at = IF tick.entry[g].known THEN "reporting" ELSE "acting"
  OBVIOUS
<1>4. tick' = [tick EXCEPT !.at = at]
  BY <1>1, <1>3 DEF Save
<1>5. g \in Component /\ tick.n \in 1..Len(Samples) /\ ~ledger.damaged
  BY <1>1, <1>2, CurrentIs DEF Working
<1>6. /\ tick' \in Ticks /\ tick'.at = at /\ at \in {"reporting", "acting"} /\ tick'.n = tick.n /\ tick'.entry = tick.entry
      /\ tick'.action = tick.action
  BY <1>3, <1>4 DEF Types, Ticks, TickStates
<1>7. ledger' \in Ledgers /\ ledger'.entry = tick.entry /\ ledger'.last = ledger.last /\ ledger'.damaged = ledger.damaged
  BY <1>2 DEF Types, Ledgers, Ticks
<1>8. Current' = g
  BY <1>1, <1>6 DEF Current
<1>9. Types'
  BY <1>2, <1>6, <1>7 DEF Types
<1>10. Working'
  BY <1>5, <1>6, <1>7 DEF Working, Busy
<1>11. NoneAhead'
  BY <1>2, <1>6, <1>7 DEF NoneAhead
<1>12. Budgeted'
  BY <1>1, <1>2, <1>5, <1>6, <1>7, <1>8 DEF Budgeted
<1>13. Filed'
  <2>1. ASSUME NEW c \in Component, file[c] = "open", ~tick.entry[c].open
        PROVE  tick.entry[c].known /\ (tick.entry[c].streak < faults \/ (at = "reporting" /\ c = g /\ tick.entry[c].streak = faults))
    BY <1>1, <1>2, <1>3, <2>1 DEF Filed, Closable
  <2>2. \A c \in Component : Closable(c, ledger.entry[c], tick.at = "reporting")'
    BY <1>2, <1>6, <1>7, <1>8, <2>1 DEF Closable
  <2>3. \A c \in Component : Closable(c, tick.entry[c], tick.at \in {"saving", "reporting"})'
    BY <1>2, <1>6, <1>8, <2>1 DEF Closable
  <2>. QED  BY <1>2, <2>2, <2>3 DEF Filed
<1>. QED  BY <1>9, <1>10, <1>11, <1>12, <1>13

LEMMA ReportInv == RecoveryInv /\ Report => RecoveryInv'
<1>. SUFFICES ASSUME RecoveryInv, Report PROVE RecoveryInv'
  OBVIOUS
<1>. USE DEF RecoveryInv
<1>1. PICK g : g = Current
  OBVIOUS
<1>2. PICK f : f = Reported(tick.entry[g], file[g])
  OBVIOUS
<1>3. /\ tick.at = "reporting" /\ file' = [file EXCEPT ![g] = f] /\ tick' = [tick EXCEPT !.at = "acting"]
      /\ UNCHANGED <<ledger, stray, issued, stepped, faults>>
  BY <1>1, <1>2 DEF Report
<1>4. g \in Component /\ tick.n \in 1..Len(Samples) /\ ~ledger.damaged
  BY <1>1, <1>3, CurrentIs DEF Working
<1>5. tick' \in Ticks /\ tick'.at = "acting" /\ tick'.n = tick.n /\ tick'.entry = tick.entry /\ tick'.action = tick.action
  BY <1>3 DEF Types, Ticks, TickStates
<1>6. f \in {"open", "closed"} /\ (f = "open" => tick.entry[g].open)
  BY <1>2 DEF Reported
<1>7. /\ file' \in [Component -> {"none", "open", "closed"}] /\ file'[g] = f
      /\ \A c \in Component \ {g} : file'[c] = file[c]
  BY <1>3, <1>4, <1>6 DEF Types
<1>8. Current' = g
  BY <1>1, <1>5 DEF Current
<1>9. Types'
  BY <1>3, <1>5, <1>7 DEF Types
<1>10. Working'
  BY <1>3, <1>4, <1>5 DEF Working, Busy
<1>11. NoneAhead'
  BY <1>3, <1>5 DEF NoneAhead
<1>12. Budgeted'
  BY <1>1, <1>3, <1>4, <1>5, <1>8 DEF Budgeted
<1>13. Filed'
  <2>1. ASSUME NEW c \in Component, file'[c] = "open", ~tick.entry[c].open
        PROVE  tick.entry[c].known /\ tick.entry[c].streak < faults
    <3>1. c # g /\ file[c] = "open"
      BY <1>6, <1>7, <2>1
    <3>. QED  BY <1>1, <1>3, <2>1, <3>1 DEF Filed, Closable
  <2>2. ledger.entry = tick.entry
    <3>1. \A c \in Component : ledger.entry[c] = tick.entry[c]
      BY <1>3 DEF Working, Busy
    <3>. QED  BY <3>1 DEF Types, Ledgers, Ticks
  <2>3. \A c \in Component : Closable(c, ledger.entry[c], tick.at = "reporting")'
    BY <1>3, <2>1, <2>2 DEF Closable
  <2>4. \A c \in Component : Closable(c, tick.entry[c], tick.at \in {"saving", "reporting"})'
    BY <1>3, <1>5, <2>1 DEF Closable
  <2>. QED  BY <1>3, <2>3, <2>4 DEF Filed
<1>. QED  BY <1>9, <1>10, <1>11, <1>12, <1>13

LEMMA ActInv == RecoveryInv /\ Act => RecoveryInv'
<1>. SUFFICES ASSUME RecoveryInv, Act PROVE RecoveryInv'
  OBVIOUS
<1>. USE DEF RecoveryInv
<1>1. PICK g : g = Current
  OBVIOUS
<1>2. /\ tick.at = "acting" /\ UNCHANGED <<ledger, file, stray, stepped, faults>>
      /\ issued' = IF tick.action = "restart" THEN [issued EXCEPT ![g] = Append(@, 0)] ELSE issued
  BY <1>1 DEF Act
<1>3. g \in Component /\ tick.n \in 1..Len(Samples) /\ ~ledger.damaged
  BY <1>1, <1>2, CurrentIs DEF Working
<1>4. /\ tick' \in Ticks /\ tick'.at \in {"deciding", "ending"} /\ tick'.n >= 1 /\ tick'.entry = tick.entry
      /\ tick'.action = "none"
  <2>1. tick \in Ticks
    BY DEF Types
  <2>2. CASE tick.n < Len(Samples)
    <3>1. tick' = [tick EXCEPT !.at = "deciding", !.n = @ + 1, !.seen = "none", !.action = "none"]
      BY <2>2 DEF Act
    <3>2. tick.n + 1 \in 0..Len(Samples) /\ tick.n + 1 >= 1
      BY <1>3, <2>2, SamplesAre
    <3>. QED  BY <2>1, <3>1, <3>2 DEF Ticks, TickStates, Actions
  <2>3. CASE ~(tick.n < Len(Samples))
    <3>1. tick' = [tick EXCEPT !.at = "ending", !.seen = "none", !.action = "none"]
      BY <2>3 DEF Act
    <3>2. tick.n >= 1
      BY <1>3
    <3>. QED  BY <2>1, <3>1, <3>2 DEF Ticks, TickStates, Actions
  <2>. QED  BY <2>2, <2>3
<1>5. \A c \in Component : ledger.entry[c] = tick.entry[c]
  BY <1>2 DEF Working, Busy
<1>6. ASSUME NEW c \in Component
      PROVE  issued'[c] \in {issued[c], Append(issued[c], 0)} /\ (issued'[c] # issued[c] => c = g /\ tick.action = "restart")
  BY <1>2, <1>3 DEF Types
<1>7. ASSUME NEW c \in Component
      PROVE  Append(issued[c], 0) \in Seq(0..(Hour - 1)) /\ InOrder(Append(issued[c], 0))
  <2>. DEFINE asked == issued[c]  more == Append(asked, 0)  n == Len(asked)
  <2>1. /\ asked \in Seq(0..(Hour - 1)) /\ InOrder(asked) /\ n \in Nat /\ DOMAIN asked = 1..n
        /\ \A i \in 1..n : asked[i] \in 0..(Hour - 1)
    BY Members DEF Types
  <2>. HIDE DEF asked, n
  <2>2. 0 \in 0..(Hour - 1) /\ \A i \in 1..n : asked[i] \in Nat
    BY <2>1, Sizes
  <2>3. /\ more \in Seq(0..(Hour - 1)) /\ DOMAIN more = 1..(n + 1)
        /\ more[n + 1] = 0 /\ \A i \in 1..n : more[i] = asked[i]
    BY <2>1, <2>2 DEF n
  <2>. HIDE DEF more
  <2>4. ASSUME NEW i \in 1..(n + 1), NEW j \in 1..(n + 1), i <= j PROVE more[j] <= more[i]
    <3>1. i \in 1..n \/ i = n + 1
      BY <2>1
    <3>2. more[i] \in Nat
      BY <2>2, <2>3, <3>1
    <3>3. CASE j = n + 1
      BY <2>3, <3>2, <3>3
    <3>4. CASE j # n + 1
      <4>1. i \in 1..n /\ j \in 1..n
        BY <2>1, <2>4, <3>4
      <4>. QED  BY <2>1, <2>3, <2>4, <4>1 DEF InOrder
    <3>. QED  BY <3>3, <3>4
  <2>5. InOrder(more)
    BY <2>3, <2>4 DEF InOrder
  <2>. QED  BY <2>3, <2>5 DEF more, asked
<1>8. Types'
  <2>1. \A c \in Component : issued'[c] \in Seq(0..(Hour - 1)) /\ InOrder(issued'[c])
    BY <1>6, <1>7 DEF Types
  <2>2. issued' \in [Component -> Seq(0..(Hour - 1))]
    <3>1. issued' \in [Component -> {issued'[c] : c \in Component}]
      BY <1>2 DEF Types
    <3>. QED  BY <2>1, <3>1
  <2>. QED  BY <1>2, <1>4, <2>1, <2>2 DEF Types
<1>9. Working'
  BY <1>2, <1>3, <1>4, <1>5 DEF Working
<1>10. NoneAhead'
  BY <1>2, <1>4 DEF NoneAhead
<1>11. Budgeted'
  <2>. SUFFICES ASSUME ~stepped, NEW c \in Component PROVE Covered(issued'[c], tick.entry[c].restarts)
    BY <1>2, <1>3, <1>4, <1>5 DEF Budgeted
  <2>1. /\ Covered(issued[c], tick.entry[c].restarts)
        /\ tick.action = "restart" /\ c = g => Covered(Append(issued[c], 0), tick.entry[c].restarts)
    BY <1>1, <1>2 DEF Budgeted
  <2>. QED  BY <1>6, <2>1
<1>12. Filed'
  <2>1. ASSUME NEW c \in Component, file[c] = "open", ~tick.entry[c].open
        PROVE  tick.entry[c].known /\ tick.entry[c].streak < faults
    BY <1>2, <2>1 DEF Filed, Closable
  <2>2. \A c \in Component : Closable(c, ledger.entry[c], tick.at = "reporting")'
    BY <1>2, <1>5, <2>1 DEF Closable
  <2>3. \A c \in Component : Closable(c, tick.entry[c], tick.at \in {"saving", "reporting"})'
    BY <1>2, <1>4, <2>1 DEF Closable
  <2>. QED  BY <1>2, <2>2, <2>3 DEF Filed
<1>. QED  BY <1>8, <1>9, <1>10, <1>11, <1>12

(* The tick is over, or was killed; the ledger has what was saved.         *)
LEMMA Over ==
  ASSUME RecoveryInv, tick.at # "idle", tick' = Idle, UNCHANGED <<file, stray, issued, stepped>>,
         faults' \in Nat, faults' \in 0..MaxFaults, faults <= faults', tick.at = "reporting" \/ tick.at = "saving" => faults < faults',
         ledger' \in Ledgers, ledger'.damaged = ledger.damaged, ~stepped => ledger'.last \in Nat,
         ledger'.entry \in {ledger.entry, tick.entry}
  PROVE  RecoveryInv'
<1>. USE DEF RecoveryInv
<1>1. ~ledger.damaged
  BY DEF Working
<1>2. \A c \in Component : ledger'.entry[c] \in {ledger.entry[c], tick.entry[c]}
  OBVIOUS
<1>3. Types'
  <2>1. \A c \in Component : Sound(ledger'.entry[c]) /\ Sound(tick'.entry[c])
    BY <1>2, IdleIs, NewSound DEF Types
  <2>. QED  BY <2>1, IdleIs DEF Types
<1>4. Working'
  BY <1>1, IdleIs DEF Working
<1>5. NoneAhead'
  <2>1. ~stepped => \A c \in Component : Past(ledger'.entry[c]) /\ Past(tick'.entry[c])
    BY <1>2, IdleIs, NewSound DEF NoneAhead
  <2>. QED  BY <2>1 DEF NoneAhead
<1>6. Budgeted'
  <2>1. ~stepped => \A c \in Component : Covered(issued[c], ledger'.entry[c].restarts)
    BY <1>1, <1>2 DEF Budgeted
  <2>. QED  BY <1>1, <2>1, IdleIs DEF Budgeted
<1>7. Filed'
  <2>1. faults \in Nat
    BY DEF Types
  <2>2. faults' < Confirmations => stray' = {}
    BY <2>1, Sizes DEF Filed
  <2>3. ASSUME NEW c \in Component PROVE Closable(c, ledger.entry[c], tick.at = "reporting")'
    <3>. SUFFICES ASSUME file[c] = "open", ~ledger'.entry[c].open
                  PROVE  ledger'.entry[c].known /\ ledger'.entry[c].streak < faults'
      BY DEF Closable
    <3>1. PICK e \in {ledger.entry[c], tick.entry[c]} : e = ledger'.entry[c]
      BY <1>2
    <3>2. e.streak \in Nat
      BY <3>1 DEF Types, Sound, Entry
    <3>3. e.known /\ (e.streak < faults \/ (tick.at \in {"reporting", "saving"} /\ e.streak = faults))
      <4>1. Closable(c, ledger.entry[c], tick.at = "reporting") /\ Closable(c, tick.entry[c], tick.at \in {"saving", "reporting"})
        BY <1>1 DEF Filed
      <4>. QED  BY <3>1, <4>1 DEF Closable
    <3>. QED  BY <2>1, <3>1, <3>2, <3>3
  <2>. QED  BY <2>2, <2>3, IdleIs DEF Filed
<1>. QED  BY <1>3, <1>4, <1>5, <1>6, <1>7

LEMMA EndInv == RecoveryInv /\ End => RecoveryInv'
<1>. SUFFICES ASSUME RecoveryInv, End PROVE RecoveryInv'
  OBVIOUS
<1>1. /\ tick.at = "ending" /\ ledger' = [ledger EXCEPT !.entry = tick.entry, !.last = 0] /\ tick' = Idle
      /\ UNCHANGED <<file, stray, issued, stepped, faults>>
  BY DEF End
<1>2. ledger \in Ledgers /\ tick.entry \in [Component -> Entry] /\ faults \in 0..MaxFaults /\ 0 \in Age
  BY Sizes DEF RecoveryInv, Types, Ticks, Age
<1>3. ledger' \in Ledgers /\ ledger'.entry = tick.entry /\ ledger'.last = 0 /\ ledger'.damaged = ledger.damaged
  BY <1>1, <1>2 DEF Ledgers
<1>4. faults \in Nat
  BY <1>2
<1>. QED  BY <1>1, <1>2, <1>3, <1>4, Over

LEMMA AbortInv == RecoveryInv /\ Abort => RecoveryInv'
<1>. SUFFICES ASSUME RecoveryInv, Abort PROVE RecoveryInv'
  OBVIOUS
<1>1. /\ tick.at # "idle" /\ tick' = Idle /\ faults < MaxFaults /\ faults' = faults + 1
      /\ UNCHANGED <<file, stray, issued, stepped>>
      /\ \/ ledger' = ledger
         \/ ledger' = [ledger EXCEPT !.entry = tick.entry]
         \/ ledger' = [ledger EXCEPT !.entry = tick.entry, !.last = 0]
  BY DEF Abort, Fault
<1>2. ledger \in Ledgers /\ tick.entry \in [Component -> Entry] /\ faults \in 0..MaxFaults /\ 0 \in Age
  BY Sizes DEF RecoveryInv, Types, Ticks, Age
<1>3. /\ ledger' \in Ledgers /\ ledger'.entry \in {ledger.entry, tick.entry} /\ ledger'.last \in {ledger.last, 0}
      /\ ledger'.damaged = ledger.damaged
  BY <1>1, <1>2 DEF Ledgers
<1>4. ~stepped => ledger'.last \in Nat
  BY <1>3 DEF RecoveryInv, NoneAhead
<1>5. faults' \in Nat /\ faults' \in 0..MaxFaults /\ faults <= faults' /\ faults < faults'
  BY <1>1, <1>2, Sizes
<1>. QED  BY <1>1, <1>3, <1>4, <1>5, Over

LEMMA DamageInv == RecoveryInv /\ Damage => RecoveryInv'
<1>. SUFFICES ASSUME RecoveryInv, Damage PROVE RecoveryInv'
  OBVIOUS
<1>. USE DEF RecoveryInv
<1>1. /\ tick.at = "idle" /\ faults < MaxFaults /\ faults' = faults + 1
      /\ ledger' = [ledger EXCEPT !.damaged = TRUE, !.last = NoAge, !.entry = [c \in Component |-> New]]
      /\ UNCHANGED <<tick, file, stray, issued, stepped>> /\ ~ledger.damaged
  BY DEF Damage, Fault
<1>2. faults \in Nat /\ faults' \in 0..MaxFaults
  BY <1>1, Sizes DEF Types
<1>3. ledger \in Ledgers /\ New \in Entry
  BY NewSound DEF Types, Sound
<1>4. ledger' \in Ledgers /\ ledger'.damaged = TRUE /\ ledger'.last = NoAge /\ \A c \in Component : ledger'.entry[c] = New
  BY <1>1, <1>3 DEF Ledgers
<1>5. Types'
  BY <1>1, <1>2, <1>4, NewSound DEF Types
<1>6. Working'
  BY <1>1 DEF Working
<1>7. NoneAhead'
  BY <1>1, <1>4, NewSound, Sizes DEF NoneAhead
<1>8. Budgeted'
  <2>. SUFFICES ASSUME ~stepped, NEW c \in Component PROVE Len(issued[c]) <= MaxRestarts /\ tick.action # "restart"
    BY <1>1, <1>4 DEF Budgeted
  <2>1. tick.action # "restart"
    BY <1>1 DEF Working
  <2>2. Covered(issued[c], ledger.entry[c].restarts)
    BY <1>1 DEF Budgeted
  <2>3. /\ Len(ledger.entry[c].restarts) <= MaxRestarts /\ ledger.entry[c].restarts \in Seq(Age)
        /\ issued[c] \in Seq(0..(Hour - 1))
    BY DEF Types, Sound, Entry
  <2>4. Len(ledger.entry[c].restarts) \in Nat /\ Len(issued[c]) \in Nat
    BY <2>3, Members
  <2>. QED  BY <2>1, <2>2, <2>3, <2>4, Sizes DEF Covered
<1>9. Filed'
  BY <1>1, <1>2, <1>4, Sizes DEF Filed
<1>. QED  BY <1>5, <1>6, <1>7, <1>8, <1>9

(* The ledger as the clock moves.                                          *)
LEMMA ClockIs ==
  ASSUME RecoveryInv, NEW d \in Int, ClockMoves(d), d = 1 \/ (~stepped /\ -MaxBack <= d /\ d <= 0)
  PROVE  /\ ledger' \in Ledgers /\ ledger'.damaged = ledger.damaged /\ (~stepped /\ d = 1 => ledger'.last \in Nat)
         /\ \A c \in Component : ledger'.entry[c] = Aged(ledger.entry[c], d)
<1>. USE DEF RecoveryInv
<1>1. PICK last : last = Capped(ledger.last, d, 0)
  OBVIOUS
<1>2. PICK entry : entry = [c \in Component |-> Aged(ledger.entry[c], d)]
  OBVIOUS
<1>3. ledger \in Ledgers /\ ledger.last \in Age \cup {NoAge}
  BY DEF Types, Ledgers
<1>4. ledger' = [ledger EXCEPT !.last = last, !.entry = entry]
  BY <1>1, <1>2, <1>3 DEF ClockMoves, Ledgers
<1>5. \A c \in Component : Aged(ledger.entry[c], d) \in Entry
  <2>. SUFFICES ASSUME NEW c \in Component PROVE Aged(ledger.entry[c], d) \in Entry
    OBVIOUS
  <2>1. Sound(ledger.entry[c]) /\ (~stepped => Past(ledger.entry[c]))
    BY DEF Types, NoneAhead
  <2>2. Sound(Aged(ledger.entry[c], d))
    BY <2>1, AgedIs
  <2>. QED  BY <2>2 DEF Sound
<1>6. entry \in [Component -> Entry]
  BY <1>2, <1>5
<1>7. last \in Age \cup {NoAge} /\ (~stepped /\ d = 1 => last \in Nat)
  <2>1. CASE ledger.last = NoAge
    BY <1>1, <2>1, Sizes DEF Capped
  <2>2. CASE ledger.last # NoAge
    <3>1. ledger.last \in Int /\ -MaxBack <= ledger.last /\ ledger.last <= Hour
      BY <1>3, <2>2, Sizes DEF Age
    <3>2. last \in {ledger.last + d, 0} /\ last <= 0
      <4>1. 0 \in Int
        OBVIOUS
      <4>. QED  BY <1>1, <2>2, <3>1, <4>1, CappedIs
    <3>3. ~stepped => ledger.last \in Nat
      BY DEF NoneAhead
    <3>4. last \in Int /\ -MaxBack <= last
      <4>1. CASE d = 1
        BY <3>1, <3>2, <4>1, Sizes
      <4>2. CASE ~stepped /\ -MaxBack <= d /\ d <= 0
        BY <3>2, <3>3, <4>2, Sizes
      <4>. QED  BY <4>1, <4>2
    <3>5. last \in Age
      BY <3>2, <3>4, Sizes DEF Age
    <3>6. ~stepped /\ d = 1 => last \in Nat
      BY <3>2, <3>3
    <3>. QED  BY <3>5, <3>6
  <2>. QED  BY <2>1, <2>2
<1>8. ledger' \in Ledgers
  BY <1>3, <1>4, <1>6, <1>7 DEF Ledgers
<1>9. ledger'.damaged = ledger.damaged /\ ledger'.last = last /\ ledger'.entry = entry
  BY <1>3, <1>4 DEF Ledgers
<1>. QED  BY <1>2, <1>7, <1>8, <1>9

LEMMA ClockKeeps ==
  ASSUME RecoveryInv, NEW d \in Int, tick.at = "idle", ClockMoves(d), d = 1 \/ (~stepped /\ -MaxBack <= d /\ d <= 0),
         UNCHANGED <<tick, file, stray>>, stepped' \in BOOLEAN, faults' \in 0..MaxFaults, faults <= faults',
         issued' \in [Component -> Seq(0..(Hour - 1))], \A c \in Component : InOrder(issued'[c])
  PROVE  Types' /\ Working' /\ Filed'
<1>. USE DEF RecoveryInv
<1>1. /\ ledger' \in Ledgers /\ ledger'.damaged = ledger.damaged
      /\ \A c \in Component : ledger'.entry[c] = Aged(ledger.entry[c], d)
  BY ClockIs
<1>2. ASSUME NEW c \in Component
      PROVE  /\ Sound(ledger'.entry[c])
             /\ ledger'.entry[c].open = ledger.entry[c].open /\ ledger'.entry[c].known = ledger.entry[c].known
             /\ ledger'.entry[c].streak = ledger.entry[c].streak
  <2>1. Sound(ledger.entry[c]) /\ (~stepped => Past(ledger.entry[c]))
    BY DEF Types, NoneAhead
  <2>. QED  BY <1>1, <2>1, AgedIs
<1>3. Types'
  BY <1>1, <1>2 DEF Types
<1>4. Working'
  BY DEF Working
<1>5. Filed'
  <2>1. faults \in Nat /\ faults' \in Nat
    BY DEF Types
  <2>2. faults' < Confirmations => stray' = {}
    BY <2>1, Sizes DEF Filed
  <2>3. ASSUME NEW c \in Component, ~ledger.damaged PROVE Closable(c, ledger.entry[c], tick.at = "reporting")'
    <3>1. Closable(c, ledger.entry[c], tick.at = "reporting") /\ ledger.entry[c].streak \in Nat
      BY <2>3 DEF Filed, Types, Sound, Entry
    <3>. QED  BY <1>2, <2>1, <3>1 DEF Closable
  <2>. QED  BY <1>1, <2>2, <2>3 DEF Filed
<1>. QED  BY <1>3, <1>4, <1>5

LEMMA AdvanceInv == RecoveryInv /\ Advance => RecoveryInv'
<1>. SUFFICES ASSUME RecoveryInv, Advance PROVE RecoveryInv'
  OBVIOUS
<1>. USE DEF RecoveryInv
<1>1. /\ tick.at = "idle" /\ ClockMoves(1) /\ UNCHANGED <<tick, file, stray, stepped, faults>>
      /\ issued' = [c \in Component |-> Recent([i \in DOMAIN issued[c] |-> issued[c][i] + 1])]
  BY DEF Advance
<1>2. ASSUME NEW c \in Component
      PROVE  /\ issued'[c] \in Seq(0..(Hour - 1)) /\ InOrder(issued'[c]) /\ Len(issued'[c]) <= Len(issued[c])
             /\ \A e : Sound(e) /\ Past(e) /\ Covered(issued[c], e.restarts) => Covered(issued'[c], Aged(e, 1).restarts)
  <2>1. PICK older : older = [i \in DOMAIN issued[c] |-> issued[c][i] + 1]
    OBVIOUS
  <2>2. issued'[c] = Recent(older)
    BY <1>1, <2>1
  <2>3. issued[c] \in Seq(0..(Hour - 1)) /\ InOrder(issued[c])
    BY DEF Types
  <2>. QED  BY <2>1, <2>2, <2>3, AdvanceCovers
<1>3. issued' \in [Component -> Seq(0..(Hour - 1))]
  BY <1>1, <1>2
<1>4. faults \in 0..MaxFaults /\ faults <= faults /\ stepped \in BOOLEAN /\ 1 \in Int
  BY DEF Types
<1>5. Types' /\ Working' /\ Filed'
  BY <1>1, <1>2, <1>3, <1>4, ClockKeeps
<1>6. /\ ledger'.damaged = ledger.damaged /\ (~stepped => ledger'.last \in Nat)
      /\ \A c \in Component : ledger'.entry[c] = Aged(ledger.entry[c], 1)
  BY <1>1, <1>4, ClockIs
<1>7. ASSUME NEW c \in Component, ~stepped PROVE Sound(ledger.entry[c]) /\ Past(ledger.entry[c]) /\ Past(ledger'.entry[c])
  <2>1. Sound(ledger.entry[c]) /\ Past(ledger.entry[c])
    BY <1>7 DEF Types, NoneAhead
  <2>2. Past(Aged(ledger.entry[c], 1))
    BY <1>4, <2>1, AgedIs
  <2>. QED  BY <1>6, <2>1, <2>2
<1>8. NoneAhead'
  BY <1>1, <1>6, <1>7 DEF NoneAhead
<1>9. Budgeted'
  <2>1. tick.action # "restart"
    BY <1>1 DEF Working
  <2>2. ASSUME NEW c \in Component, ~stepped
        PROVE  IF ledger.damaged THEN Len(issued'[c]) <= MaxRestarts ELSE Covered(issued'[c], ledger'.entry[c].restarts)
    <3>1. CASE ledger.damaged
      <4>1. Len(issued[c]) <= MaxRestarts
        BY <2>2, <3>1 DEF Budgeted
      <4>2. Len(issued'[c]) <= Len(issued[c]) /\ Len(issued'[c]) \in Nat /\ Len(issued[c]) \in Nat
        BY <1>2, Members DEF Types
      <4>. QED  BY <3>1, <4>1, <4>2, Sizes
    <3>2. CASE ~ledger.damaged
      <4>1. Covered(issued[c], ledger.entry[c].restarts)
        BY <2>2, <3>2 DEF Budgeted
      <4>. QED  BY <1>2, <1>6, <1>7, <2>2, <3>2, <4>1
    <3>. QED  BY <3>1, <3>2
  <2>. QED  BY <1>1, <1>6, <2>1, <2>2 DEF Budgeted
<1>. QED  BY <1>5, <1>8, <1>9

LEMMA StepBackInv == ASSUME RecoveryInv, NEW d \in 1..MaxBack, StepBack(d) PROVE RecoveryInv'
<1>. USE DEF RecoveryInv
<1>1. /\ tick.at = "idle" /\ ~stepped /\ ClockMoves(-d) /\ UNCHANGED <<tick, file, stray, issued>> /\ stepped' = TRUE
      /\ faults < MaxFaults /\ faults' = faults + 1
  BY DEF StepBack, Fault
<1>2. -d \in Int /\ -MaxBack <= -d /\ -d <= 0
  BY Sizes
<1>3. faults' \in 0..MaxFaults /\ faults <= faults'
  BY <1>1, Sizes DEF Types
<1>4. Types' /\ Working' /\ Filed'
  <2>1. PICK back \in Int : back = -d
    BY <1>2
  <2>2. issued' \in [Component -> Seq(0..(Hour - 1))] /\ \A c \in Component : InOrder(issued'[c])
    BY <1>1 DEF Types
  <2>. QED  BY <1>1, <1>2, <1>3, <2>1, <2>2, ClockKeeps
<1>. QED  BY <1>1, <1>4 DEF NoneAhead, Budgeted

(* The invariant holds of every behaviour of the controller, whatever its  *)
(* fairness (recovery.py:294-360).                                         *)
THEOREM RecoveryInvariance == RecoveryInit /\ [][RecoveryNext]_recoveryVars => []RecoveryInv
<1>1. ASSUME RecoveryInv, [RecoveryNext]_recoveryVars PROVE RecoveryInv'
  <2>1. CASE RecoveryNext
    BY <1>1, <2>1, BeginInv, DecideInv, SaveInv, ReportInv, ActInv, EndInv, AbortInv, DamageInv, AdvanceInv, StepBackInv
       DEF RecoveryNext, TickStep
  <2>2. CASE UNCHANGED recoveryVars
    BY <1>1, <2>2 DEF recoveryVars, RecoveryInv, Types, Working, NoneAhead, Budgeted, Filed, Closable, Busy, Current
  <2>. QED  BY <1>1, <2>1, <2>2
<1>. QED  BY <1>1, InitInv, PTL

LEMMA BudgetFollows == RecoveryInv => BudgetRespected
<1>. SUFFICES ASSUME RecoveryInv PROVE BudgetRespected
  OBVIOUS
<1>. USE DEF RecoveryInv
<1>1. RecoveryTypeOK
  <2>1. ASSUME NEW c \in Component, NEW e \in {ledger.entry[c], tick.entry[c]} PROVE e \in Entry /\ InOrder(e.restarts)
    BY DEF Types, Sound
  <2>. QED  BY <2>1 DEF RecoveryTypeOK, Types, Ledgers, Ticks, TickStates
<1>2. ASSUME ~stepped, NEW c \in Component PROVE Len(issued[c]) <= MaxRestarts
  <2>1. /\ Len(ledger.entry[c].restarts) <= MaxRestarts /\ ledger.entry[c].restarts \in Seq(Age)
        /\ issued[c] \in Seq(0..(Hour - 1))
    BY DEF Types, Sound, Entry
  <2>2. Len(ledger.entry[c].restarts) \in Nat /\ Len(issued[c]) \in Nat
    BY <2>1, Members
  <2>. QED  BY <1>2, <2>1, <2>2, Sizes DEF Budgeted, Covered
<1>. QED  BY <1>1, <1>2 DEF BudgetRespected

LEMMA SettleFollows == RecoveryInv => IncidentsSettle
BY DEF RecoveryInv, Filed, IncidentsSettle

=============================================================================
