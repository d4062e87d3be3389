---------------------------- MODULE Timers_proofs ----------------------------
(***************************************************************************)
(* The timer queue for every set of timers, every interval and back-off,   *)
(* and every interleaving of start, stop and back-off with the thread that *)
(* runs the callbacks.                                                     *)
(***************************************************************************)
EXTENDS Timers, SequenceTheorems, WellFoundedInduction, TLAPS

-----------------------------------------------------------------------------
(* Queues without duplicates.                                              *)

Elems(q) == {q[i] : i \in DOMAIN q}
Distinct(q) == \A i, j \in DOMAIN q : q[i] = q[j] => i = j

\* r is q with t put in at place k.
InsertionOf(r, q, k, t) ==
    /\ Len(r) = Len(q) + 1 /\ k \in 1 .. Len(q) + 1
    /\ \A i \in 1 .. Len(q) + 1 : r[i] = IF i < k THEN q[i] ELSE IF i = k THEN t ELSE q[i - 1]

LEMMA Inserted ==
    ASSUME NEW S, NEW q \in Seq(S), NEW r \in Seq(S), NEW t \in S, NEW k,
           Distinct(q), t \notin Elems(q), InsertionOf(r, q, k, t)
    PROVE  Distinct(r) /\ Elems(r) = Elems(q) \cup {t}
<1>0. /\ DOMAIN q = 1 .. Len(q) /\ DOMAIN r = 1 .. Len(q) + 1 /\ Len(q) \in Nat
      /\ k \in 1 .. Len(q) + 1
  BY LenProperties DEF InsertionOf
<1>r. \A i \in 1 .. Len(q) + 1 : r[i] = IF i < k THEN q[i] ELSE IF i = k THEN t ELSE q[i - 1]
  BY DEF InsertionOf
<1>1. \A i \in 1 .. Len(q) : q[i] # t
  BY <1>0 DEF Elems
<1>2. Distinct(r)
  <2> SUFFICES ASSUME NEW i \in 1 .. Len(q) + 1, NEW j \in 1 .. Len(q) + 1, r[i] = r[j]
               PROVE  i = j
    BY <1>0 DEF Distinct
  <2>1. ASSUME NEW x \in 1 .. Len(q) + 1
        PROVE  /\ x < k => x \in 1 .. Len(q) /\ r[x] = q[x]
               /\ x > k => x - 1 \in 1 .. Len(q) /\ r[x] = q[x - 1]
               /\ x = k => r[x] = t
    BY <1>0, <1>r
  <2>2. \A x, y \in 1 .. Len(q) : q[x] = q[y] => x = y
    BY <1>0 DEF Distinct
  <2>3. CASE i = k \/ j = k
    BY <1>0, <1>1, <2>1, <2>3
  <2>4. CASE i < k /\ j < k
    BY <2>1, <2>2, <2>4
  <2>5. CASE i > k /\ j > k
    <3>1. /\ i - 1 \in 1 .. Len(q) /\ r[i] = q[i - 1]
          /\ j - 1 \in 1 .. Len(q) /\ r[j] = q[j - 1]
      BY <2>1, <2>5
    <3>2. i - 1 = j - 1
      BY <2>2, <3>1, Zenon
    <3> QED
      BY <1>0, <3>2
  <2>6. CASE i < k /\ j > k
    <3>1. /\ i \in 1 .. Len(q) /\ r[i] = q[i]
          /\ j - 1 \in 1 .. Len(q) /\ r[j] = q[j - 1]
      BY <2>1, <2>6
    <3>2. i = j - 1
      BY <2>2, <3>1, Zenon
    <3> QED
      BY <1>0, <2>6, <3>2
  <2>7. CASE i > k /\ j < k
    <3>1. /\ i - 1 \in 1 .. Len(q) /\ r[i] = q[i - 1]
          /\ j \in 1 .. Len(q) /\ r[j] = q[j]
      BY <2>1, <2>7
    <3>2. i - 1 = j
      BY <2>2, <3>1, Zenon
    <3> QED
      BY <1>0, <2>7, <3>2
  <2> QED
    BY <1>0, <2>3, <2>4, <2>5, <2>6, <2>7
<1>3. Elems(r) \subseteq Elems(q) \cup {t}
  <2> SUFFICES ASSUME NEW i \in 1 .. Len(q) + 1 PROVE r[i] \in Elems(q) \cup {t}
    BY <1>0 DEF Elems
  <2>1. CASE i < k
    <3>1. i \in 1 .. Len(q) /\ r[i] = q[i]
      BY <1>0, <1>r, <2>1
    <3> QED
      BY <1>0, <3>1 DEF Elems
  <2>2. CASE i = k
    BY <1>0, <1>r, <2>2
  <2>3. CASE i > k
    <3>1. i - 1 \in 1 .. Len(q) /\ r[i] = q[i - 1]
      BY <1>0, <1>r, <2>3
    <3> QED
      BY <1>0, <3>1 DEF Elems
  <2> QED
    BY <1>0, <2>1, <2>2, <2>3
<1>4. Elems(q) \cup {t} \subseteq Elems(r)
  <2>1. t = r[k] /\ k \in 1 .. Len(q) + 1
    BY <1>0, <1>r
  <2>2. ASSUME NEW i \in 1 .. Len(q) PROVE \E j \in 1 .. Len(q) + 1 : r[j] = q[i]
    <3>1. i < k => i \in 1 .. Len(q) + 1 /\ r[i] = q[i]
      BY <1>0, <1>r
    <3>2. i >= k => i + 1 \in 1 .. Len(q) + 1 /\ r[i + 1] = q[i]
      BY <1>0, <1>r
    <3> QED
      BY <1>0, <3>1, <3>2
  <2>3. t \in Elems(r)
    BY <1>0, <2>1 DEF Elems
  <2>4. Elems(q) \subseteq Elems(r)
    <3> SUFFICES ASSUME NEW i \in 1 .. Len(q) PROVE q[i] \in Elems(r)
      BY <1>0 DEF Elems
    <3>1. PICK j \in 1 .. Len(q) + 1 : r[j] = q[i]
      BY <2>2
    <3> QED
      BY <1>0, <3>1 DEF Elems
  <2> QED
    BY <2>3, <2>4
<1> QED
  BY <1>2, <1>3, <1>4

LEMMA Removed ==
    ASSUME NEW S, NEW q \in Seq(S), Distinct(q), NEW k \in DOMAIN q
    PROVE  /\ RemoveAt(q, k) \in Seq(S)
           /\ Distinct(RemoveAt(q, k)) /\ Elems(RemoveAt(q, k)) = Elems(q) \ {q[k]}
<1> DEFINE a == SubSeq(q, 1, k - 1)
           b == SubSeq(q, k + 1, Len(q))
           r == RemoveAt(q, k)
<1>0. DOMAIN q = 1 .. Len(q) /\ Len(q) \in Nat /\ k \in 1 .. Len(q) /\ q \in [1 .. Len(q) -> S]
  BY LenProperties
<1>1. /\ a \in Seq(S) /\ Len(a) = k - 1 /\ \A i \in 1 .. k - 1 : a[i] = q[i]
  <2>1. \A i \in 1 .. k - 1 : q[i] \in S
    BY <1>0
  <2>2. 1 \in Int /\ k - 1 \in Int
    BY <1>0
  <2>3. /\ a \in Seq(S) /\ Len(a) = (IF 1 <= k - 1 THEN k - 1 - 1 + 1 ELSE 0)
        /\ \A i \in 1 .. k - 1 - 1 + 1 : a[i] = q[1 + i - 1]
    BY <2>1, <2>2, SubSeqProperties
  <2> QED
    BY <1>0, <2>3
<1>2. /\ b \in Seq(S) /\ Len(b) = Len(q) - k /\ \A i \in 1 .. Len(q) - k : b[i] = q[k + i]
  <2>1. \A i \in k + 1 .. Len(q) : q[i] \in S
    BY <1>0
  <2>2. k + 1 \in Int /\ Len(q) \in Int
    BY <1>0
  <2>3. /\ b \in Seq(S) /\ Len(b) = (IF k + 1 <= Len(q) THEN Len(q) - (k + 1) + 1 ELSE 0)
        /\ \A i \in 1 .. Len(q) - (k + 1) + 1 : b[i] = q[k + 1 + i - 1]
    BY <2>1, <2>2, SubSeqProperties
  <2> QED
    BY <1>0, <2>3
<1>3. /\ r \in Seq(S) /\ Len(r) = Len(q) - 1
      /\ \A i \in 1 .. Len(q) - 1 : r[i] = IF i < k THEN q[i] ELSE q[i + 1]
  <2>1. r = a \o b
    BY DEF RemoveAt
  <2> HIDE DEF a, b, r
  <2>2. /\ a \o b \in Seq(S) /\ Len(a \o b) = Len(a) + Len(b)
        /\ \A i \in 1 .. Len(a) + Len(b) : (a \o b)[i] = IF i <= Len(a) THEN a[i] ELSE b[i - Len(a)]
    BY <1>1, <1>2, ConcatProperties, Zenon
  <2>3. ASSUME NEW i \in 1 .. Len(q) - 1
        PROVE  (a \o b)[i] = IF i < k THEN q[i] ELSE q[i + 1]
    <3>1. i \in 1 .. Len(a) + Len(b)
      BY <1>0, <1>1, <1>2
    <3>2. CASE i < k
      BY <1>0, <1>1, <2>2, <3>1, <3>2
    <3>3. CASE i >= k
      <4>1. i - (k - 1) \in 1 .. Len(q) - k /\ k + (i - (k - 1)) = i + 1
        BY <1>0, <3>3
      <4>2. (a \o b)[i] = b[i - (k - 1)]
        BY <1>0, <1>1, <2>2, <3>1, <3>3
      <4> QED
        BY <1>0, <1>2, <3>3, <4>1, <4>2
    <3>4. i < k \/ i >= k
      BY <1>0
    <3> QED
      BY <3>2, <3>3, <3>4, Zenon
  <2> QED
    BY <1>0, <1>1, <1>2, <2>1, <2>2, <2>3
<1> HIDE DEF a, b, r
<1>4. DOMAIN r = 1 .. Len(q) - 1
  BY <1>3, LenProperties
<1>5. \A x, y \in 1 .. Len(q) : q[x] = q[y] => x = y
  BY <1>0 DEF Distinct
<1>6. ASSUME NEW i \in 1 .. Len(q) - 1
      PROVE  \E x \in 1 .. Len(q) : r[i] = q[x] /\ x # k /\ x = IF i < k THEN i ELSE i + 1
  BY <1>0, <1>3
<1>7. Distinct(r)
  <2> SUFFICES ASSUME NEW i \in 1 .. Len(q) - 1, NEW j \in 1 .. Len(q) - 1, r[i] = r[j]
               PROVE  i = j
    BY <1>4 DEF Distinct
  <2>1. PICK x \in 1 .. Len(q) : r[i] = q[x] /\ x = IF i < k THEN i ELSE i + 1
    BY <1>6
  <2>2. PICK y \in 1 .. Len(q) : r[j] = q[y] /\ y = IF j < k THEN j ELSE j + 1
    BY <1>6
  <2>3. x = y
    BY <1>5, <2>1, <2>2, Zenon
  <2> QED
    BY <1>0, <2>1, <2>2, <2>3
<1>8. Elems(r) \subseteq Elems(q) \ {q[k]}
  BY <1>0, <1>4, <1>5, <1>6 DEF Elems
<1>9. Elems(q) \ {q[k]} \subseteq Elems(r)
  <2> SUFFICES ASSUME NEW i \in 1 .. Len(q), i # k PROVE \E j \in 1 .. Len(q) - 1 : r[j] = q[i]
    BY <1>0, <1>4 DEF Elems
  <2>1. i < k => i \in 1 .. Len(q) - 1 /\ r[i] = q[i]
    BY <1>0, <1>3
  <2>2. i > k => i - 1 \in 1 .. Len(q) - 1 /\ r[i - 1] = q[i]
    BY <1>0, <1>3
  <2> QED
    BY <1>0, <2>1, <2>2
<1> QED
  BY <1>3, <1>7, <1>8, <1>9 DEF r

LEMMA InsertedAt ==
    ASSUME NEW S, NEW q \in Seq(S), NEW t \in S, NEW k \in 1 .. Len(q), Distinct(q), t \notin Elems(q)
    PROVE  /\ InsertAt(q, k, t) \in Seq(S)
           /\ Distinct(InsertAt(q, k, t)) /\ Elems(InsertAt(q, k, t)) = Elems(q) \cup {t}
<1> DEFINE a == SubSeq(q, 1, k - 1)
           b == SubSeq(q, k, Len(q))
           c == a \o <<t>>
           r == InsertAt(q, k, t)
<1>0. Len(q) \in Nat /\ q \in [1 .. Len(q) -> S]
  BY LenProperties
<1>1. /\ a \in Seq(S) /\ Len(a) = k - 1 /\ \A i \in 1 .. k - 1 : a[i] = q[i]
  <2>1. \A i \in 1 .. k - 1 : q[i] \in S
    BY <1>0
  <2>2. 1 \in Int /\ k - 1 \in Int
    BY <1>0
  <2>3. /\ a \in Seq(S) /\ Len(a) = (IF 1 <= k - 1 THEN k - 1 - 1 + 1 ELSE 0)
        /\ \A i \in 1 .. k - 1 - 1 + 1 : a[i] = q[1 + i - 1]
    BY <2>1, <2>2, SubSeqProperties
  <2> QED
    BY <1>0, <2>3
<1>2. /\ b \in Seq(S) /\ Len(b) = Len(q) - k + 1 /\ \A i \in 1 .. Len(q) - k + 1 : b[i] = q[k + i - 1]
  <2>1. \A i \in k .. Len(q) : q[i] \in S
    BY <1>0
  <2>2. k \in Int /\ Len(q) \in Int
    BY <1>0
  <2>3. /\ b \in Seq(S) /\ Len(b) = (IF k <= Len(q) THEN Len(q) - k + 1 ELSE 0)
        /\ \A i \in 1 .. Len(q) - k + 1 : b[i] = q[k + i - 1]
    BY <2>1, <2>2, SubSeqProperties
  <2> QED
    BY <1>0, <2>3
<1>3. /\ <<t>> \in Seq(S) /\ Len(<<t>>) = 1 /\ <<t>>[1] = t
  OBVIOUS
<1>4. r = c \o b
  BY DEF InsertAt
<1> HIDE DEF a, b, r
<1>5. /\ c \in Seq(S) /\ Len(c) = k /\ c[k] = t /\ \A i \in 1 .. k - 1 : c[i] = q[i]
  <2>1. /\ c \in Seq(S) /\ Len(c) = Len(a) + Len(<<t>>)
        /\ \A i \in 1 .. Len(a) + Len(<<t>>) : c[i] = IF i <= Len(a) THEN a[i] ELSE <<t>>[i - Len(a)]
    BY <1>1, <1>3, ConcatProperties
  <2> HIDE DEF c
  <2> QED
    BY <1>0, <1>1, <1>3, <2>1
<1> HIDE DEF c
<1>6. /\ r \in Seq(S) /\ Len(r) = Len(q) + 1
      /\ \A i \in 1 .. Len(q) + 1 : r[i] = IF i <= k THEN c[i] ELSE b[i - k]
  <2>1. /\ c \o b \in Seq(S) /\ Len(c \o b) = Len(c) + Len(b)
        /\ \A i \in 1 .. Len(c) + Len(b) : (c \o b)[i] = IF i <= Len(c) THEN c[i] ELSE b[i - Len(c)]
    BY <1>2, <1>5, ConcatProperties, Zenon
  <2> QED
    BY <1>0, <1>2, <1>4, <1>5, <2>1
<1>7. ASSUME NEW i \in 1 .. Len(q) + 1
      PROVE  r[i] = IF i < k THEN q[i] ELSE IF i = k THEN t ELSE q[i - 1]
  <2>1. CASE i <= k
    BY <1>0, <1>5, <1>6, <2>1
  <2>2. CASE i > k
    <3>1. i - k \in 1 .. Len(q) - k + 1 /\ k + (i - k) - 1 = i - 1
      BY <1>0, <2>2
    <3>2. r[i] = b[i - k] /\ b[i - k] = q[i - 1]
      BY <1>0, <1>2, <1>6, <2>2, <3>1
    <3> QED
      BY <1>0, <2>2, <3>2
  <2> QED
    BY <1>0, <2>1, <2>2
<1>8. k \in 1 .. Len(q) + 1
  BY <1>0
<1>9. Distinct(r) /\ Elems(r) = Elems(q) \cup {t}
  <2>1. InsertionOf(r, q, k, t)
    BY <1>6, <1>7, <1>8 DEF InsertionOf
  <2> QED
    BY <1>6, <2>1, Inserted
<1> QED
  BY <1>6, <1>9 DEF r

LEMMA InsertedFirst ==
    ASSUME NEW S, NEW q \in Seq(S), NEW t \in S, Distinct(q), t \notin Elems(q)
    PROVE  /\ <<t>> \o q \in Seq(S)
           /\ Distinct(<<t>> \o q) /\ Elems(<<t>> \o q) = Elems(q) \cup {t}
<1> DEFINE r == <<t>> \o q
<1>0. Len(q) \in Nat
  BY LenProperties
<1>1. /\ <<t>> \in Seq(S) /\ Len(<<t>>) = 1 /\ <<t>>[1] = t
  OBVIOUS
<1>2. /\ r \in Seq(S) /\ Len(r) = Len(<<t>>) + Len(q)
      /\ \A i \in 1 .. Len(<<t>>) + Len(q) : r[i] = IF i <= Len(<<t>>) THEN <<t>>[i] ELSE q[i - Len(<<t>>)]
  BY <1>1, ConcatProperties
<1> HIDE DEF r
<1>3. /\ Len(r) = Len(q) + 1 /\ 1 \in 1 .. Len(q) + 1
      /\ \A i \in 1 .. Len(q) + 1 : r[i] = IF i < 1 THEN q[i] ELSE IF i = 1 THEN t ELSE q[i - 1]
  BY <1>0, <1>1, <1>2
<1>4. Distinct(r) /\ Elems(r) = Elems(q) \cup {t}
  <2>1. InsertionOf(r, q, 1, t)
    BY <1>3 DEF InsertionOf
  <2> QED
    BY <1>2, <2>1, Inserted
<1> QED
  BY <1>2, <1>4 DEF r

LEMMA InsertedLast ==
    ASSUME NEW S, NEW q \in Seq(S), NEW t \in S, Distinct(q), t \notin Elems(q)
    PROVE  /\ Append(q, t) \in Seq(S)
           /\ Distinct(Append(q, t)) /\ Elems(Append(q, t)) = Elems(q) \cup {t}
<1> DEFINE r == Append(q, t)
<1>0. Len(q) \in Nat
  BY LenProperties
<1>1. /\ r \in Seq(S) /\ Len(r) = Len(q) + 1 /\ r[Len(q) + 1] = t
      /\ \A i \in 1 .. Len(q) : r[i] = q[i]
  BY AppendProperties
<1> HIDE DEF r
<1>2. /\ Len(q) + 1 \in 1 .. Len(q) + 1
      /\ \A i \in 1 .. Len(q) + 1 : r[i] = IF i < Len(q) + 1 THEN q[i] ELSE IF i = Len(q) + 1 THEN t ELSE q[i - 1]
  BY <1>0, <1>1
<1>3. Distinct(r) /\ Elems(r) = Elems(q) \cup {t}
  <2>1. InsertionOf(r, q, Len(q) + 1, t)
    BY <1>1, <1>2 DEF InsertionOf
  <2> QED
    BY <1>1, <2>1, Inserted
<1> QED
  BY <1>1, <1>3 DEF r

-----------------------------------------------------------------------------
(* The queue under the lock.                                               *)

\* The queue q and the times nx fit: each scheduled timer is in q, once.
Fits(q, nx) ==
    /\ q \in Seq(Timer) /\ nx \in [Timer -> Nat]
    /\ Distinct(q) /\ Elems(q) = {t \in Timer : nx[t] # 0}

LEMMA LeastNat ==
    ASSUME NEW T, T \subseteq Nat, T # {}
    PROVE  \E x \in T : \A y \in T : x <= y
<1> DEFINE R == OpToRel(<, Nat)
<1>1. IsWellFoundedOn(R, Nat)
  BY NatLessThanWellFounded
<1>2. \A x, y \in Nat : x < y => <<x, y>> \in R
  BY DEF OpToRel
<1> HIDE DEF R
<1>3. PICK x \in T : \A y \in T : ~ (<<y, x>> \in R)
  BY <1>1, WFMin, Zenon
<1>4. ASSUME NEW y \in T PROVE x <= y
  <2>1. x \in Nat /\ y \in Nat /\ ~ (y < x)
    BY <1>2, <1>3, Zenon
  <2> QED
    BY <2>1
<1> QED
  BY <1>4

\* The queue and the times s are what q and nx become when t gets the
\* interval iv.
Rescheduled(s, nx, iv, t) ==
    /\ Fits(s.q, s.nx)
    /\ \A u \in Timer : u # t => s.nx[u] = nx[u]
    /\ s.nx[t] # 0 => iv # 0

LEMMA SortedInsertion ==
    ASSUME NEW q \in Seq(Timer), NEW nx, NEW t \in Timer, Distinct(q), t \notin Elems(q)
    PROVE  /\ InsertSorted(q, nx, t) \in Seq(Timer)
           /\ Distinct(InsertSorted(q, nx, t)) /\ Elems(InsertSorted(q, nx, t)) = Elems(q) \cup {t}
<1> DEFINE later == {i \in DOMAIN q : Cmp(nx[t], nx[q[i]]) < 0}
           k == CHOOSE i \in later : \A j \in later : i <= j
<1>1. InsertSorted(q, nx, t) = IF later = {} THEN Append(q, t) ELSE InsertAt(q, k, t)
  BY DEF InsertSorted
<1>2. later \subseteq 1 .. Len(q) /\ Len(q) \in Nat
  BY LenProperties
<1> HIDE DEF later
<1>3. CASE later = {}
  <2>1. InsertSorted(q, nx, t) = Append(q, t)
    BY <1>1, <1>3
  <2> QED
    BY <2>1, InsertedLast
<1>4. CASE later # {}
  <2>1. later \subseteq Nat
    BY <1>2
  <2>2. \E i \in later : \A j \in later : i <= j
    BY <1>4, <2>1, LeastNat, Zenon
  <2>3. k \in later
    BY <2>2
  <2> HIDE DEF k
  <2>4. k \in 1 .. Len(q)
    BY <1>2, <2>3
  <2>5. InsertSorted(q, nx, t) = InsertAt(q, k, t)
    BY <1>1, <1>4
  <2> QED
    BY <2>4, <2>5, InsertedAt
<1> QED
  BY <1>3, <1>4

LEMMA ScheduleFits ==
    ASSUME NEW q, NEW nx, Fits(q, nx), NEW t \in Timer, nx[t] = 0,
           NEW iv \in Nat, NEW extra \in Nat, clock \in Nat
    PROVE  Rescheduled(Schedule(q, nx, iv, t, extra), nx, iv, t)
<1> DEFINE nxt == [nx EXCEPT ![t] = clock + iv + extra]
<1>1. CASE iv = 0 \/ ~enabled
  <2>1. Schedule(q, nx, iv, t, extra) = [q |-> q, nx |-> nx]
    BY <1>1 DEF Schedule
  <2> QED
    BY <2>1 DEF Rescheduled
<1>2. CASE ~(iv = 0 \/ ~enabled)
  <2>1. /\ nxt \in [Timer -> Nat] /\ nxt[t] # 0
        /\ \A u \in Timer : u # t => nxt[u] = nx[u]
    BY <1>2 DEF Fits
  <2>2. q \in Seq(Timer) /\ Distinct(q) /\ t \notin Elems(q) /\ Elems(q) = {u \in Timer : nx[u] # 0}
    BY DEF Fits
  <2>3. PICK p : p = IF q = <<>> \/ nxt[Head(q)] > nxt[t] THEN <<t>> \o q ELSE InsertSorted(q, nxt, t)
    BY Zenon
  <2>4. Schedule(q, nx, iv, t, extra) = [nx |-> nxt, q |-> p]
    BY <1>2, <2>3 DEF Schedule
  <2> HIDE DEF nxt
  <2>5. p = <<t>> \o q \/ p = InsertSorted(q, nxt, t)
    BY <2>3
  <2>6. p \in Seq(Timer) /\ Distinct(p) /\ Elems(p) = Elems(q) \cup {t}
    <3>1. CASE p = <<t>> \o q
      BY <2>2, <3>1, InsertedFirst
    <3>2. CASE p = InsertSorted(q, nxt, t)
      BY <2>2, <3>2, SortedInsertion
    <3> QED
      BY <2>5, <3>1, <3>2
  <2>7. Elems(p) = {u \in Timer : nxt[u] # 0}
    BY <2>1, <2>2, <2>6
  <2>8. Fits(p, nxt)
    BY <2>1, <2>6, <2>7 DEF Fits
  <2> QED
    BY <1>2, <2>1, <2>4, <2>8 DEF Rescheduled
<1> QED
  BY <1>1, <1>2

LEMMA UnscheduledFits ==
    ASSUME Fits(timers, next), NEW t \in Timer, scheduled(t)
    PROVE  /\ Fits(Unscheduled(t).q, Unscheduled(t).nx)
           /\ Unscheduled(t).nx = [next EXCEPT ![t] = 0]
<1> DEFINE k == CHOOSE i \in DOMAIN timers : timers[i] = t
<1>1. timers \in Seq(Timer) /\ Distinct(timers) /\ next \in [Timer -> Nat]
      /\ Elems(timers) = {u \in Timer : next[u] # 0}
  BY DEF Fits
<1>2. \E i \in DOMAIN timers : timers[i] = t
  BY <1>1 DEF scheduled, Elems
<1>3. k \in DOMAIN timers /\ timers[k] = t
  BY <1>2
<1>4. Unscheduled(t) = [q |-> RemoveAt(timers, k), nx |-> [next EXCEPT ![t] = 0]]
  BY DEF Unscheduled
<1> HIDE DEF k
<1>5. /\ RemoveAt(timers, k) \in Seq(Timer) /\ Distinct(RemoveAt(timers, k))
      /\ Elems(RemoveAt(timers, k)) = Elems(timers) \ {t}
  BY <1>1, <1>3, Removed
<1>6. [next EXCEPT ![t] = 0] \in [Timer -> Nat]
  BY <1>1
<1>7. Elems(timers) \ {t} = {u \in Timer : [next EXCEPT ![t] = 0][u] # 0}
  BY <1>1
<1>8. Fits(RemoveAt(timers, k), [next EXCEPT ![t] = 0])
  BY <1>5, <1>6, <1>7 DEF Fits
<1> QED
  BY <1>4, <1>8

LEMMA WithdrawnFits ==
    ASSUME Fits(timers, next), NEW t \in Timer
    PROVE  /\ Fits(Withdrawn(t).q, Withdrawn(t).nx)
           /\ Withdrawn(t).nx = [next EXCEPT ![t] = 0]
<1>1. CASE scheduled(t)
  <2>1. Withdrawn(t) = Unscheduled(t)
    BY <1>1 DEF Withdrawn
  <2> QED
    BY <1>1, <2>1, UnscheduledFits
<1>2. CASE ~scheduled(t)
  <2>1. Withdrawn(t) = [q |-> timers, nx |-> next]
    BY <1>2 DEF Withdrawn
  <2>2. next = [next EXCEPT ![t] = 0]
    BY <1>2 DEF scheduled, Fits
  <2> QED
    BY <2>1, <2>2
<1> QED
  BY <1>1, <1>2

-----------------------------------------------------------------------------
(* The inductive invariant.                                                *)

\* A timer is on the queue only while it has an interval, and until the engine
\* is destroyed it has one only while it is armed.
TimerInv ==
    /\ clock \in Nat /\ interval \in [Timer -> Nat] /\ oneshot \in [Timer -> BOOLEAN]
    /\ pc = "callback" => firing \in Timer
    /\ Fits(timers, next)
    /\ \A t \in Timer : scheduled(t) => started(t)
    /\ pc # "done" => enabled
    /\ enabled => \A t \in Timer : started(t) => t \in armed

LEMMA TimerInit == Init => TimerInv
<1> SUFFICES ASSUME Init PROVE TimerInv
  OBVIOUS
<1>1. timers = <<>> /\ next \in [Timer -> Nat] /\ \A t \in Timer : next[t] = 0
  BY DEF Init
<1>2. Distinct(timers) /\ Elems(timers) = {} /\ timers \in Seq(Timer)
  BY <1>1 DEF Distinct, Elems
<1>3. Fits(timers, next)
  BY <1>1, <1>2 DEF Fits
<1> QED
  BY <1>1, <1>3 DEF Init, TimerInv, scheduled, started

LEMMA TimerStart ==
    ASSUME TimerInv, NEW t \in Timer, NEW iv \in Nat, NEW once \in BOOLEAN, Start(t, iv, once)
    PROVE  TimerInv'
<1>1. PICK w : w = IF started(t) THEN Withdrawn(t) ELSE [q |-> timers, nx |-> next]
  BY Zenon
<1>2. Fits(w.q, w.nx) /\ w.nx = [next EXCEPT ![t] = 0]
  <2>1. CASE started(t)
    <3>1. w = Withdrawn(t)
      BY <1>1, <2>1
    <3> QED
      BY <3>1, WithdrawnFits DEF TimerInv
  <2>2. CASE ~started(t)
    <3>1. w = [q |-> timers, nx |-> next]
      BY <1>1, <2>2
    <3>2. next = [next EXCEPT ![t] = 0]
      BY <2>2 DEF TimerInv, Fits, scheduled
    <3> QED
      BY <3>1, <3>2 DEF TimerInv
  <2> QED
    BY <2>1, <2>2
<1>3. PICK s : s = Schedule(w.q, w.nx, iv, t, 0)
  OBVIOUS
<1>4. /\ SetQueue(s)
      /\ interval' = [interval EXCEPT ![t] = iv] /\ oneshot' = [oneshot EXCEPT ![t] = once]
      /\ armed' = armed \cup {t} /\ UNCHANGED <<clock, enabled, pc, firing>>
  BY <1>1, <1>3 DEF Start, mainVars
<1>5. next \in [Timer -> Nat] /\ w.nx[t] = 0 /\ clock \in Nat
  BY <1>2 DEF TimerInv, Fits
<1>6. Rescheduled(s, w.nx, iv, t)
  BY <1>2, <1>3, <1>5, ScheduleFits, Zenon
<1>7. Fits(timers', next')
  BY <1>4, <1>6 DEF Rescheduled, SetQueue
<1>8. ASSUME NEW u \in Timer, next'[u] # 0 PROVE interval'[u] # 0
  <2>1. CASE u = t
    BY <1>4, <1>6, <1>8, <2>1 DEF Rescheduled, SetQueue, TimerInv
  <2>2. CASE u # t
    <3>1. next'[u] = next[u]
      BY <1>2, <1>4, <1>5, <1>6, <2>2 DEF Rescheduled, SetQueue
    <3> QED
      BY <1>4, <1>8, <2>2, <3>1 DEF TimerInv, scheduled, started
  <2> QED
    BY <2>1, <2>2
<1> QED
  BY <1>4, <1>7, <1>8 DEF TimerInv, scheduled, started

LEMMA TimerStop ==
    ASSUME TimerInv, NEW t \in Timer, Stop(t)
    PROVE  TimerInv'
<1>1. Fits(Withdrawn(t).q, Withdrawn(t).nx) /\ Withdrawn(t).nx = [next EXCEPT ![t] = 0]
  BY WithdrawnFits DEF TimerInv
<1>2. Fits(timers', next') /\ next' = [next EXCEPT ![t] = 0]
  BY <1>1 DEF Stop, SetQueue
<1>3. next \in [Timer -> Nat]
  BY DEF TimerInv, Fits
<1> QED
  BY <1>2, <1>3 DEF TimerInv, Stop, mainVars, scheduled, started

LEMMA TimerBackedOff ==
    ASSUME TimerInv, NEW t \in Timer, NEW extra \in Nat, TimerBackoff(t, extra)
    PROVE  TimerInv'
<1>1. PICK w : w = Withdrawn(t)
  OBVIOUS
<1>2. Fits(w.q, w.nx) /\ w.nx = [next EXCEPT ![t] = 0]
  BY <1>1, WithdrawnFits DEF TimerInv
<1>3. PICK s : s = Schedule(w.q, w.nx, interval[t], t, extra)
  OBVIOUS
<1>4. SetQueue(s) /\ UNCHANGED <<clock, interval, oneshot, enabled, pc, firing, armed>>
  BY <1>1, <1>3 DEF TimerBackoff, mainVars
<1>5. next \in [Timer -> Nat] /\ w.nx[t] = 0 /\ clock \in Nat /\ interval[t] \in Nat
  BY <1>2 DEF TimerInv, Fits
<1>6. Rescheduled(s, w.nx, interval[t], t)
  BY <1>2, <1>3, <1>5, ScheduleFits, Zenon
<1>7. Fits(timers', next')
  BY <1>4, <1>6 DEF Rescheduled, SetQueue
<1>8. ASSUME NEW u \in Timer, next'[u] # 0 PROVE interval'[u] # 0
  <2>1. CASE u = t
    BY <1>4, <1>6, <1>8, <2>1 DEF Rescheduled, SetQueue
  <2>2. CASE u # t
    <3>1. next'[u] = next[u]
      BY <1>2, <1>4, <1>5, <1>6, <2>2 DEF Rescheduled, SetQueue
    <3> QED
      BY <1>4, <1>8, <3>1 DEF TimerInv, scheduled, started
  <2> QED
    BY <2>1, <2>2
<1> QED
  BY <1>4, <1>7, <1>8 DEF TimerInv, scheduled, started

\* The first timer of the queue is a scheduled one.
LEMMA HeadScheduled ==
    ASSUME TimerInv, HeadDue
    PROVE  Head(timers) \in Timer /\ scheduled(Head(timers))
<1>1. timers \in Seq(Timer) /\ timers # <<>> /\ Elems(timers) = {u \in Timer : next[u] # 0}
  BY DEF TimerInv, Fits, HeadDue
<1>2. Head(timers) = timers[1] /\ 1 \in DOMAIN timers
  BY <1>1
<1>3. Head(timers) \in Elems(timers)
  BY <1>2 DEF Elems
<1> QED
  BY <1>1, <1>3 DEF scheduled

LEMMA TimerFire ==
    ASSUME TimerInv, RunFire
    PROVE  TimerInv' /\ firing' \in armed
<1>1. PICK t : t = Head(timers)
  OBVIOUS
<1>2. t \in Timer /\ scheduled(t)
  BY <1>1, HeadScheduled DEF RunFire
<1>3. /\ SetQueue(Unscheduled(t)) /\ interval' = [interval EXCEPT ![t] = IntervalOnFire(t)]
      /\ firing' = t /\ armed' = IF oneshot[t] THEN armed \ {t} ELSE armed
      /\ pc = "run" /\ pc' = "callback" /\ UNCHANGED <<clock, oneshot, enabled>>
  BY <1>1 DEF RunFire
<1>4. Fits(Unscheduled(t).q, Unscheduled(t).nx) /\ Unscheduled(t).nx = [next EXCEPT ![t] = 0]
  BY <1>2, UnscheduledFits DEF TimerInv
<1>5. Fits(timers', next') /\ next' = [next EXCEPT ![t] = 0]
  BY <1>3, <1>4 DEF SetQueue
<1>6. enabled /\ started(t) /\ t \in armed
  BY <1>2, <1>3 DEF TimerInv
<1>7. next \in [Timer -> Nat] /\ interval \in [Timer -> Nat] /\ oneshot[t] \in BOOLEAN
  BY <1>2 DEF TimerInv, Fits
<1>8. interval' \in [Timer -> Nat]
  BY <1>3, <1>7, <1>2 DEF IntervalOnFire
<1>9. \A u \in Timer : scheduled(u)' => started(u)'
  BY <1>2, <1>3, <1>5, <1>7 DEF TimerInv, scheduled, started
<1>10. \A u \in Timer : started(u)' => u \in armed'
  BY <1>2, <1>3, <1>6, <1>7 DEF TimerInv, started, IntervalOnFire
<1> QED
  BY <1>2, <1>3, <1>5, <1>6, <1>8, <1>9, <1>10 DEF TimerInv

LEMMA TimerRestart ==
    ASSUME TimerInv, RunRestart
    PROVE  TimerInv'
<1>1. /\ firing \in Timer /\ pc' = "run" /\ pc = "callback"
      /\ UNCHANGED <<clock, interval, oneshot, enabled, armed>>
  BY DEF TimerInv, RunRestart
<1>2. CASE NeedsRestart(firing)
  <2>1. PICK s : s = Schedule(timers, next, interval[firing], firing, 0)
    OBVIOUS
  <2>2. SetQueue(s)
    BY <1>2, <2>1 DEF RunRestart
  <2>3. next[firing] = 0 /\ interval[firing] \in Nat /\ clock \in Nat /\ Fits(timers, next)
    BY <1>1, <1>2 DEF NeedsRestart, scheduled, TimerInv
  <2>4. Rescheduled(s, next, interval[firing], firing)
    BY <1>1, <2>1, <2>3, ScheduleFits
  <2>5. Fits(timers', next')
    BY <2>2, <2>4 DEF Rescheduled, SetQueue
  <2>6. \A u \in Timer : scheduled(u)' => started(u)'
    BY <1>1, <1>2, <2>2, <2>4 DEF Rescheduled, SetQueue, TimerInv, scheduled, started, NeedsRestart
  <2> QED
    BY <1>1, <2>5, <2>6 DEF TimerInv, started
<1>3. CASE ~NeedsRestart(firing)
  <2>1. UNCHANGED <<timers, next>>
    BY <1>3 DEF RunRestart
  <2> QED
    BY <1>1, <2>1 DEF TimerInv, scheduled, started
<1> QED
  BY <1>2, <1>3

LEMMA TimerDestroy ==
    ASSUME TimerInv, Destroy
    PROVE  TimerInv'
<1>1. timers' = <<>> /\ next' \in [Timer -> Nat] /\ \A t \in Timer : next'[t] = 0
  BY DEF Destroy
<1>2. Distinct(timers') /\ Elems(timers') = {} /\ timers' \in Seq(Timer)
  BY <1>1 DEF Distinct, Elems
<1>3. Fits(timers', next')
  BY <1>1, <1>2 DEF Fits
<1>4. interval' \in [Timer -> Nat]
  BY DEF Destroy, TimerInv
<1> QED
  BY <1>1, <1>3, <1>4 DEF TimerInv, Destroy, scheduled

\* The steps that leave the timers alone.
LEMMA TimerIdle ==
    ASSUME TimerInv,
           Terminate \/ MainServe \/ RunBegin \/ RunEnd \/ Tick \/ UNCHANGED vars
    PROVE  TimerInv'
<1>1. UNCHANGED <<timers, next, interval, oneshot, enabled, armed>>
  BY DEF Terminate, MainServe, RunBegin, RunEnd, Tick, vars, timerVars
<1>2. clock' \in Nat
  BY DEF TimerInv, Terminate, MainServe, RunBegin, RunEnd, Tick, vars
<1>3. /\ pc' = "callback" => firing' \in Timer
      /\ pc' # "done" => enabled'
  BY <1>1 DEF TimerInv, Terminate, MainServe, RunBegin, RunEnd, Tick, vars, mainVars
<1> QED
  BY <1>1, <1>2, <1>3 DEF TimerInv, scheduled, started

LEMMA TimerNext ==
    ASSUME TimerInv, [Next]_vars, Interval \subseteq Nat, Backoff \subseteq Nat
    PROVE  TimerInv'
<1>1. ASSUME NEW t \in Timer, NEW iv \in Interval, NEW once \in BOOLEAN, Start(t, iv, once)
      PROVE  TimerInv'
  BY <1>1, TimerStart
<1>2. ASSUME NEW t \in Timer, NEW b \in Backoff, TimerBackoff(t, b)
      PROVE  TimerInv'
  BY <1>2, TimerBackedOff
<1> QED
  BY <1>1, <1>2, TimerStop, TimerFire, TimerRestart, TimerDestroy, TimerIdle DEF Next

-----------------------------------------------------------------------------
(* What the timer engine promises.                                         *)

\* The list rkts_timers holds each scheduled timer exactly once and nothing
\* else, and a scheduled timer is a started one, whatever start, stop and
\* back-off calls run during a callback (rd_kafka_timers_run releases the lock
\* around it).  Intervals and back-offs are times, never negative.
THEOREM TimerQueueExact ==
    ASSUME Interval \subseteq Nat, Backoff \subseteq Nat
    PROVE  Spec => []QueueExact
<1>1. Init => TimerInv
  BY TimerInit
<1>2. TimerInv /\ [Next]_vars => TimerInv'
  BY TimerNext
<1>3. TimerInv => QueueExact
  BY DEF TimerInv, Fits, Distinct, Elems, QueueExact, scheduled
<1> QED
  BY <1>1, <1>2, <1>3, PTL DEF Spec

\* rd_kafka_timers_run calls a callback only for a timer that was started and
\* not stopped since, and for a one-shot timer once per start.
THEOREM TimerFiresArmed ==
    ASSUME Interval \subseteq Nat, Backoff \subseteq Nat
    PROVE  Spec => [][FiresArmed]_vars
<1>1. Init => TimerInv
  BY TimerInit
<1>2. TimerInv /\ [Next]_vars => TimerInv'
  BY TimerNext
<1>3. TimerInv /\ [Next]_vars => [FiresArmed]_vars
  <2> SUFFICES ASSUME TimerInv, Next, pc = "run", pc' = "callback"
               PROVE  firing' \in armed
    BY DEF FiresArmed
  <2>1. RunFire
    BY DEF Next, Stop, Start, TimerBackoff, Terminate, MainServe, RunBegin, RunRestart, RunEnd,
           Destroy, Tick, mainVars
  <2> QED
    BY <2>1, TimerFire
<1> QED
  BY <1>1, <1>2, <1>3, PTL DEF Spec
=============================================================================
