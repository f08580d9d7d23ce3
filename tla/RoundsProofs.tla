---------------------------- MODULE RoundsProofs ----------------------------
(***************************************************************************)
(* Streamer implements SessionRounds, for any number of sessions: the ring *)
(* of pointers always holds the sessions in one sequence, and a walk over  *)
(* the pointers is a walk over what is left of that sequence.              *)
(***************************************************************************)
EXTENDS StreamerProofs, FiniteSetTheorems, WellFoundedInduction, NaturalsInduction

\* the element at i, m_Clients behind the last session and in front of the first
ElementAt(q, i) == IF i \in 1 .. Len(q) THEN q[i] ELSE Clients

\* the pointers go through the sessions in the order of q
IsList(q) ==
  /\ q \in Seq(Sessions)
  /\ \A i, j \in 1 .. Len(q) : q[i] = q[j] => i = j
  /\ alive = {q[i] : i \in 1 .. Len(q)}
  /\ \A i \in 0 .. Len(q) : next[ElementAt(q, i)] = ElementAt(q, i + 1)

-----------------------------------------------------------------------------
(* The pointers that are followed.                                         *)

LEMMA LeastFact ==
  ASSUME NEW S \in SUBSET Nat, S # {}
  PROVE  \E m \in S : \A k \in S : m <= k
<1>1. \E m \in S : \A k \in S : ~(<<k, m>> \in OpToRel(<, Nat))
  BY NatLessThanWellFounded, WFMin, Zenon
<1>2. OpToRel(<, Nat) = {ss \in Nat \X Nat : ss[1] < ss[2]}
  BY DEF OpToRel
<1>3. \A k, m \in Nat : k < m => <<k, m>> \in OpToRel(<, Nat)
  BY <1>2, Zenon
<1>4. \A k, m \in Nat : ~(k < m) => m <= k
  OBVIOUS
<1> QED
  BY <1>1, <1>3, <1>4

\* A function that satisfies the equation of Behind is what Behind follows.
LEMMA BehindFact ==
  ASSUME NEW n \in Nat, NEW e, NEW g,
         g = [i \in 0 .. n |->
                IF i = 0 THEN e ELSE IF g[i - 1] = Freed THEN Freed ELSE next[g[i - 1]]]
  PROVE  Behind(e, n) = g[n]
<1> DEFINE Value(f, i) == IF i = 0 THEN e ELSE IF f[i - 1] = Freed THEN Freed ELSE next[f[i - 1]]
           f == CHOOSE h : h = [i \in 0 .. n |-> Value(h, i)]
<1>1. f = [i \in 0 .. n |-> Value(f, i)]
  <2>1. \E h : h = [i \in 0 .. n |-> Value(h, i)]
    OBVIOUS
  <2> QED
    BY <2>1
<1>2. Behind(e, n) = f[n]
  BY DEF Behind
<1> HIDE DEF f
<1>3. f[0] = e /\ g[0] = e
  BY <1>1
<1>4. \A i \in 1 .. n : f[i - 1] = g[i - 1] => f[i] = g[i]
  BY <1>1
<1>5. \A i \in 0 .. n : f[i] = g[i]
  <2> DEFINE S == {i \in 0 .. n : f[i] # g[i]}
  <2> SUFFICES ASSUME S # {} PROVE FALSE
    OBVIOUS
  <2>1. S \in SUBSET Nat
    OBVIOUS
  <2>2. PICK m \in S : \A k \in S : m <= k
    BY <2>1, LeastFact
  <2>3. m \in 1 .. n /\ m - 1 \in 0 .. n /\ ~(m <= m - 1) /\ f[m] # g[m]
    BY <1>3, <2>2
  <2>4. f[m - 1] = g[m - 1]
    BY <2>2, <2>3
  <2> QED
    BY <1>4, <2>3, <2>4
<1> QED
  BY <1>2, <1>5

-----------------------------------------------------------------------------
(* The sequence behind an element.                                         *)

LEMMA ListLength ==
  ASSUME NEW q, IsList(q)
  PROVE  Len(q) \in Nat /\ Cardinality(Sessions) \in Nat /\ Len(q) <= Cardinality(Sessions)
<1>1. /\ q \in Seq(Sessions) /\ Len(q) \in Nat
      /\ q \in [1 .. Len(q) -> Sessions]
      /\ \A i, j \in 1 .. Len(q) : q[i] = q[j] => i = j
  BY DEF IsList
<1>2. q \in Injection(1 .. Len(q), Sessions)
  BY <1>1 DEF Injection, IsInjective
<1>3. IsFiniteSet(Sessions)
  BY ListAssumption
<1>4. Cardinality(1 .. Len(q)) <= Cardinality(Sessions)
  BY <1>2, <1>3, FS_Injection
<1>5. Cardinality(1 .. Len(q)) = Len(q)
  <2>1. 1 \in Int /\ Len(q) \in Int /\ (1 > Len(q) => Len(q) = 0)
    BY <1>1
  <2>2. Cardinality(1 .. Len(q)) = IF 1 > Len(q) THEN 0 ELSE Len(q) - 1 + 1
    BY <2>1, FS_Interval
  <2> QED
    BY <2>1, <2>2
<1>6. Cardinality(Sessions) \in Nat
  BY <1>3, FS_CardinalityType
<1> QED
  BY <1>1, <1>4, <1>5, <1>6

LEMMA ListElements ==
  ASSUME NEW q, IsList(q)
  PROVE  /\ \A i \in 1 .. Len(q) : q[i] \in Sessions /\ q[i] # Clients /\ q[i] # Freed
         /\ \A i \in Int : ElementAt(q, i) # Freed
         /\ \A i \in Int : ElementAt(q, i) = Clients <=> i \notin 1 .. Len(q)
BY ListAssumption DEF IsList, ElementAt

\* Following pointers from the element at j is going on in q.
LEMMA BehindList ==
  ASSUME NEW q, IsList(q), NEW j \in 1 .. Len(q) + 1, NEW n \in 0 .. Len(q) + 1 - j
  PROVE  Behind(ElementAt(q, j), n) = ElementAt(q, j + n)
<1> DEFINE e == ElementAt(q, j)
           g == [i \in 0 .. n |-> ElementAt(q, j + i)]
<1>1. Len(q) \in Nat /\ j \in Nat /\ n \in Nat
  BY ListLength
<1>2. ASSUME NEW i \in 0 .. n
      PROVE  ElementAt(q, j + i) =
               IF i = 0 THEN e ELSE IF g[i - 1] = Freed THEN Freed ELSE next[g[i - 1]]
  <2>1. CASE i = 0
    BY <1>1, <2>1
  <2>2. CASE i # 0
    <3>1. i - 1 \in 0 .. n /\ j + (i - 1) \in 0 .. Len(q) /\ (j + (i - 1)) + 1 = j + i
      BY <1>1, <2>2
    <3>2. g[i - 1] = ElementAt(q, j + (i - 1))
      BY <3>1
    <3>3. g[i - 1] # Freed
      BY <3>1, <3>2, ListElements
    <3>4. next[g[i - 1]] = ElementAt(q, j + i)
      BY <3>1, <3>2 DEF IsList
    <3> HIDE DEF g
    <3> QED
      BY <2>2, <3>3, <3>4
  <2> QED
    BY <2>1, <2>2
<1>3. g = [i \in 0 .. n |->
             IF i = 0 THEN e ELSE IF g[i - 1] = Freed THEN Freed ELSE next[g[i - 1]]]
  BY <1>2
<1>4. g[n] = ElementAt(q, j + n)
  BY <1>1
<1> HIDE DEF g, e
<1>5. Behind(e, n) = g[n]
  BY <1>1, <1>3, BehindFact
<1> QED
  BY <1>4, <1>5 DEF e

LEMMA ChainOfList ==
  ASSUME NEW q, IsList(q), NEW j \in 1 .. Len(q) + 1
  PROVE  ChainFrom(ElementAt(q, j)) = [i \in 1 .. Len(q) + 1 - j |-> q[j + i - 1]]
<1> DEFINE e    == ElementAt(q, j)
           l    == Len(q) + 1 - j
           ends == {n \in 0 .. Cardinality(Sessions) : Behind(e, n) = Clients}
           len  == CHOOSE n \in ends : \A m \in ends : n <= m
<1>1. /\ Len(q) \in Nat /\ j \in Nat /\ l \in Nat /\ Cardinality(Sessions) \in Nat
      /\ l <= Cardinality(Sessions)
  BY ListLength
<1>2. \A n \in 0 .. l : Behind(e, n) = ElementAt(q, j + n)
  BY BehindList
<1>3. \A n \in 0 .. l : Behind(e, n) = Clients <=> n = l
  <2> TAKE n \in 0 .. l
  <2>1. j + n \in Int /\ (j + n \notin 1 .. Len(q) <=> n = l)
    BY <1>1
  <2> QED
    BY <1>2, <2>1, ListElements
<1>4. l \in ends /\ \A m \in ends : l <= m
  <2>1. l \in ends
    BY <1>1, <1>3
  <2>2. ASSUME NEW m \in ends, ~(l <= m) PROVE FALSE
    <3>1. m \in 0 .. l /\ m # l /\ Behind(e, m) = Clients
      BY <1>1, <2>2
    <3> QED
      BY <1>3, <3>1
  <2> QED
    BY <2>1, <2>2
<1>5. len = l
  <2>1. len \in ends /\ \A m \in ends : len <= m
    BY <1>4
  <2>2. len <= l /\ l <= len /\ len \in Nat
    BY <1>1, <1>4, <2>1
  <2> HIDE DEF len, ends
  <2> QED
    BY <1>1, <2>2
<1>6. ends # {}
  BY <1>4
<1>7. ChainFrom(e) = [i \in 1 .. len |-> Behind(e, i - 1)]
  BY <1>6 DEF ChainFrom
<1>8. ASSUME NEW i \in 1 .. l PROVE Behind(e, i - 1) = q[j + i - 1]
  <2>1. i - 1 \in 0 .. l /\ j + (i - 1) = j + i - 1 /\ j + i - 1 \in 1 .. Len(q)
    BY <1>1
  <2>2. Behind(e, i - 1) = ElementAt(q, j + (i - 1))
    BY <1>2, <2>1
  <2> QED
    BY <2>1, <2>2 DEF ElementAt
<1> HIDE DEF e, l, ends, len
<1>9. ChainFrom(e) = [i \in 1 .. l |-> q[j + i - 1]]
  BY <1>5, <1>7, <1>8
<1> QED
  BY <1>9 DEF e, l

\* what is left of q from the element at j on
Rest(q, j) == [i \in 1 .. Len(q) + 1 - j |-> q[j + i - 1]]

Chains ==
  \A q : IsList(q) =>
    /\ ChainFrom(next[Clients]) = q
    /\ \A j \in 1 .. Len(q) + 1 : ChainFrom(ElementAt(q, j)) = Rest(q, j)

LEMMA ChainsFact == Chains
<1> SUFFICES ASSUME NEW q, IsList(q)
             PROVE  /\ ChainFrom(next[Clients]) = q
                    /\ \A j \in 1 .. Len(q) + 1 : ChainFrom(ElementAt(q, j)) = Rest(q, j)
  BY DEF Chains
<1>1. \A j \in 1 .. Len(q) + 1 : ChainFrom(ElementAt(q, j)) = Rest(q, j)
  BY ChainOfList DEF Rest
<1>2. next[Clients] = ElementAt(q, 1)
  <2>1. Len(q) \in Nat /\ ElementAt(q, 0) = Clients
    BY ListLength DEF ElementAt
  <2> QED
    BY <2>1 DEF IsList
<1>3. Rest(q, 1) = q
  <2>1. q \in Seq(Sessions) /\ Len(q) \in Nat
    BY DEF IsList
  <2>2. q = [i \in 1 .. Len(q) |-> q[i]]
    BY <2>1
  <2> QED
    BY <2>1, <2>2 DEF Rest
<1>4. 1 \in 1 .. Len(q) + 1
  BY ListLength
<1> QED
  BY <1>1, <1>2, <1>3, <1>4

LEMMA SequenceFact ==
  \A w \in Seq(Sessions) : w = [i \in 1 .. Len(w) |-> w[i]]
OBVIOUS

LEMMA TailFact ==
  ASSUME NEW w \in Seq(Sessions), w # <<>>
  PROVE  Tail(w) = [i \in 1 .. Len(w) - 1 |-> w[i + 1]]
<1>1. Tail(w) \in Seq(Sessions) /\ Len(Tail(w)) = Len(w) - 1
  OBVIOUS
<1>2. \A i \in 1 .. Len(w) - 1 : Tail(w)[i] = w[i + 1]
  OBVIOUS
<1>3. Tail(w) = [i \in 1 .. Len(Tail(w)) |-> Tail(w)[i]]
  BY <1>1, SequenceFact, Zenon
<1> QED
  BY <1>1, <1>2, <1>3

LEMMA ConcatFact ==
  ASSUME NEW v \in Seq(Sessions), NEW w \in Seq(Sessions)
  PROVE  /\ v \o w \in Seq(Sessions) /\ Len(v \o w) = Len(v) + Len(w)
         /\ \A i \in 1 .. Len(v) + Len(w) :
              (v \o w)[i] = IF i <= Len(v) THEN v[i] ELSE w[i - Len(v)]
OBVIOUS

LEMMA RestFact ==
  ASSUME NEW q, IsList(q), NEW j \in 1 .. Len(q) + 1
  PROVE  /\ Rest(q, j) = <<>> <=> ElementAt(q, j) = Clients
         /\ j \in 1 .. Len(q) =>
              /\ Rest(q, j) # <<>> /\ Head(Rest(q, j)) = q[j]
              /\ Tail(Rest(q, j)) = Rest(q, j + 1)
<1>1. q \in Seq(Sessions) /\ Len(q) \in Nat /\ j \in Nat /\ Len(q) + 1 - j \in Nat
  BY DEF IsList
<1>2. Rest(q, j) \in Seq(Sessions) /\ Len(Rest(q, j)) = Len(q) + 1 - j
  BY <1>1 DEF Rest
<1>3. CASE j = Len(q) + 1
  <2>1. Rest(q, j) = <<>> /\ ElementAt(q, j) = Clients /\ j \notin 1 .. Len(q)
    BY <1>1, <1>2, <1>3 DEF ElementAt
  <2> QED
    BY <2>1
<1>4. CASE j # Len(q) + 1
  <2>1. j \in 1 .. Len(q) /\ j + 1 \in 1 .. Len(q) + 1 /\ Len(Rest(q, j)) \in Nat \ {0}
    BY <1>1, <1>2, <1>4
  <2>2. ElementAt(q, j) # Clients
    BY <2>1, ListElements
  <2>3. Rest(q, j) # <<>>
    BY <1>2, <2>1
  <2>4. Head(Rest(q, j)) = q[j]
    BY <1>1, <2>1 DEF Rest
  <2>5. Tail(Rest(q, j)) = Rest(q, j + 1)
    <3>1. Tail(Rest(q, j)) = [i \in 1 .. Len(Rest(q, j)) - 1 |-> Rest(q, j)[i + 1]]
      BY <1>2, <2>3, TailFact
    <3>2. Len(Rest(q, j)) - 1 = Len(q) + 1 - (j + 1)
      BY <1>1, <1>2
    <3>3. ASSUME NEW i \in 1 .. Len(q) + 1 - (j + 1)
          PROVE  Rest(q, j)[i + 1] = q[(j + 1) + i - 1]
      <4>1. i + 1 \in 1 .. Len(q) + 1 - j /\ j + (i + 1) - 1 = (j + 1) + i - 1
        BY <1>1
      <4> QED
        BY <4>1 DEF Rest
    <3> QED
      BY <3>1, <3>2, <3>3 DEF Rest
  <2> QED
    BY <2>1, <2>2, <2>3, <2>4, <2>5
<1> QED
  BY <1>3, <1>4

-----------------------------------------------------------------------------
(* The sequence changes with the pointers.                                 *)

LEMMA Distinct ==
  ASSUME NEW q, IsList(q), NEW i \in 0 .. Len(q), NEW j \in 0 .. Len(q),
         ElementAt(q, i) = ElementAt(q, j)
  PROVE  i = j
<1>1. Len(q) \in Nat /\ i \in Int /\ j \in Int
  BY ListLength
<1>2. i \in 1 .. Len(q) <=> j \in 1 .. Len(q)
  BY <1>1, ListElements
<1>3. CASE i \in 1 .. Len(q)
  BY <1>2, <1>3 DEF ElementAt, IsList
<1>4. CASE i \notin 1 .. Len(q)
  BY <1>1, <1>2, <1>4
<1> QED
  BY <1>3, <1>4

LEMMA PrevFact ==
  ASSUME Ring, NEW q, IsList(q), NEW i \in 0 .. Len(q)
  PROVE  /\ ElementAt(q, i) \in Linked /\ ElementAt(q, i) \in Element
         /\ prev[ElementAt(q, i + 1)] = ElementAt(q, i)
<1>1. ElementAt(q, i) \in Linked /\ ElementAt(q, i) \in Element
  BY DEF IsList, ElementAt, Linked, Element
<1>2. next[ElementAt(q, i)] = ElementAt(q, i + 1)
  BY DEF IsList
<1> QED
  BY <1>1, <1>2 DEF Ring

LEMMA AppendList ==
  ASSUME ListTypeOK, Ring, NEW q, IsList(q), NEW s \in Sessions, s \notin alive,
         AppendElement(s)
  PROVE  IsList(Append(q, s))'
<1> DEFINE r == Append(q, s)
           n == Len(q)
<1>1. q \in Seq(Sessions) /\ n \in Nat
  BY DEF IsList
<1>2. r \in Seq(Sessions) /\ Len(r) = n + 1 /\ r[n + 1] = s /\ \A i \in 1 .. n : r[i] = q[i]
  BY <1>1
<1> HIDE DEF r
<1>3. \A i \in 1 .. n : q[i] # s
  BY DEF IsList
<1>4. \A i, j \in 1 .. Len(r) : r[i] = r[j] => i = j
  <2>1. \A i \in 1 .. n + 1 : i \in 1 .. n \/ i = n + 1
    BY <1>1
  <2>2. \A i, j \in 1 .. n : q[i] = q[j] => i = j
    BY DEF IsList
  <2> QED
    BY <1>2, <1>3, <2>1, <2>2
<1>5. alive' = {r[i] : i \in 1 .. Len(r)}
  <2>1. alive' = {q[i] : i \in 1 .. n} \cup {s}
    BY DEF AppendElement, IsList
  <2>2. 1 .. Len(r) = (1 .. n) \cup {n + 1}
    BY <1>1, <1>2
  <2> QED
    BY <1>2, <2>1, <2>2
<1>6. prev[Clients] = ElementAt(q, n)
  <2>1. n \in 0 .. n /\ ElementAt(q, n + 1) = Clients
    BY <1>1 DEF ElementAt
  <2> QED
    BY <2>1, PrevFact
<1>7. \A i \in 0 .. n : ElementAt(r, i) = ElementAt(q, i) /\ ElementAt(q, i) # s
                        /\ ElementAt(q, i) \in Element
  <2> TAKE i \in 0 .. n
  <2>1. i \in 1 .. n <=> i \in 1 .. Len(r)
    BY <1>1, <1>2
  <2>2. s # Clients
    BY ListAssumption
  <2> QED
    BY <1>2, <1>3, <2>1, <2>2, PrevFact DEF ElementAt
<1>8. ElementAt(r, n + 1) = s /\ ElementAt(r, n + 2) = Clients
  <2>1. n + 1 \in 1 .. Len(r) /\ n + 2 \notin 1 .. Len(r)
    BY <1>1, <1>2
  <2> QED
    BY <1>2, <2>1 DEF ElementAt
<1>9. next' = [next EXCEPT ![ElementAt(q, n)] = s, ![s] = Clients]
      /\ next \in [Element -> Element \cup {Freed}] /\ s \in Element
  BY <1>6 DEF AppendElement, ListTypeOK, Element
<1>10. ASSUME NEW i \in 0 .. Len(r) PROVE next'[ElementAt(r, i)] = ElementAt(r, i + 1)
  <2>1. CASE i = n + 1
    BY <1>1, <1>8, <1>9, <2>1
  <2>2. CASE i = n
    <3>1. n \in 0 .. n
      BY <1>1
    <3> QED
      BY <1>7, <1>8, <1>9, <2>2, <3>1
  <2>3. CASE i < n
    <3>1. i \in 0 .. n /\ i + 1 \in 0 .. n /\ n \in 0 .. n /\ i # n
      BY <1>1, <2>3
    <3>2. ElementAt(q, i) # ElementAt(q, n)
      BY <3>1, Distinct
    <3>3. next'[ElementAt(q, i)] = next[ElementAt(q, i)]
      BY <1>7, <1>9, <3>1, <3>2
    <3>4. next[ElementAt(q, i)] = ElementAt(q, i + 1)
      BY <3>1 DEF IsList
    <3> QED
      BY <1>7, <3>1, <3>3, <3>4
  <2> QED
    BY <1>1, <1>2, <2>1, <2>2, <2>3
<1>11. IsList(r)'
  BY <1>2, <1>4, <1>5, <1>10 DEF IsList, ElementAt
<1> QED
  BY <1>11 DEF r

\* q without the element at k
Removed(q, k) == SubSeq(q, 1, k - 1) \o SubSeq(q, k + 1, Len(q))

LEMMA RemoveFact ==
  ASSUME NEW q, IsList(q), NEW k \in 1 .. Len(q)
  PROVE  /\ Removed(q, k) \in Seq(Sessions) /\ Len(Removed(q, k)) = Len(q) - 1
         /\ \A i \in 1 .. Len(q) - 1 :
              Removed(q, k)[i] = IF i < k THEN q[i] ELSE q[i + 1]
<1>1. q \in Seq(Sessions) /\ Len(q) \in Nat /\ k \in Nat
  BY DEF IsList
<1> DEFINE a == SubSeq(q, 1, k - 1)
           b == SubSeq(q, k + 1, Len(q))
<1>2. a \in Seq(Sessions) /\ Len(a) = k - 1 /\ \A i \in 1 .. k - 1 : a[i] = q[i]
  BY <1>1
<1>3. b \in Seq(Sessions) /\ Len(b) = Len(q) - k /\ \A i \in 1 .. Len(q) - k : b[i] = q[k + i]
  BY <1>1
<1> HIDE DEF a, b
<1>4. /\ a \o b \in Seq(Sessions) /\ Len(a \o b) = Len(a) + Len(b)
      /\ \A i \in 1 .. Len(a) + Len(b) : (a \o b)[i] = IF i <= Len(a) THEN a[i] ELSE b[i - Len(a)]
  BY <1>2, <1>3, ConcatFact
<1>5. ASSUME NEW i \in 1 .. Len(q) - 1
      PROVE  (a \o b)[i] = IF i < k THEN q[i] ELSE q[i + 1]
  <2>1. CASE i < k
    <3>1. i \in 1 .. k - 1 /\ i <= Len(a) /\ i \in 1 .. Len(a) + Len(b)
      BY <1>1, <1>2, <1>3, <2>1
    <3> QED
      BY <1>2, <1>4, <2>1, <3>1
  <2>2. CASE ~(i < k)
    <3>1. /\ i - Len(a) \in 1 .. Len(q) - k /\ ~(i <= Len(a)) /\ i \in 1 .. Len(a) + Len(b)
          /\ k + (i - Len(a)) = i + 1
      BY <1>1, <1>2, <1>3, <2>2
    <3> QED
      BY <1>3, <1>4, <2>2, <3>1
  <2> QED
    BY <2>1, <2>2
<1>6. Removed(q, k) = a \o b
  BY DEF Removed, a, b
<1>7. Len(a) + Len(b) = Len(q) - 1
  BY <1>1, <1>2, <1>3
<1> QED
  BY <1>4, <1>5, <1>6, <1>7

LEMMA RemoveList ==
  ASSUME ListTypeOK, Ring, NEW q, IsList(q), NEW k \in 1 .. Len(q), RemoveElement(q[k])
  PROVE  /\ IsList(Removed(q, k))'
         /\ ElementAt(Removed(q, k), k) = ElementAt(q, k + 1)
         /\ Rest(Removed(q, k), k) = Rest(q, k + 1)
<1> DEFINE r == Removed(q, k)
           n == Len(q)
           x == q[k]
<1>1. n \in Nat /\ k \in Nat /\ k <= n /\ 1 <= k
  BY DEF IsList
<1>2. r \in Seq(Sessions) /\ Len(r) = n - 1
      /\ \A i \in 1 .. n - 1 : r[i] = IF i < k THEN q[i] ELSE q[i + 1]
  BY RemoveFact
<1> HIDE DEF r
<1>3. \A i, j \in 1 .. n : q[i] = q[j] => i = j
  BY DEF IsList
<1>4. \A i, j \in 1 .. Len(r) : r[i] = r[j] => i = j
  <2> SUFFICES ASSUME NEW i \in 1 .. n - 1, NEW j \in 1 .. n - 1, r[i] = r[j] PROVE i = j
    BY <1>2
  <2>1. i \in 1 .. n /\ i + 1 \in 1 .. n /\ j \in 1 .. n /\ j + 1 \in 1 .. n
    BY <1>1
  <2>2. (i < k /\ r[i] = q[i]) \/ (~(i < k) /\ r[i] = q[i + 1])
    BY <1>2
  <2>3. (j < k /\ r[j] = q[j]) \/ (~(j < k) /\ r[j] = q[j + 1])
    BY <1>2
  <2>4. i = j \/ i + 1 = j + 1 \/ (i < k /\ ~(j < k) /\ i = j + 1)
        \/ (j < k /\ ~(i < k) /\ j = i + 1)
    BY <1>3, <2>1, <2>2, <2>3
  <2> QED
    BY <1>1, <2>1, <2>4
<1>5. alive' = {r[i] : i \in 1 .. Len(r)}
  <2>1. alive' = {q[i] : i \in 1 .. n} \ {x}
    BY DEF RemoveElement, IsList
  <2>2. ASSUME NEW i \in 1 .. n, q[i] # x PROVE \E j \in 1 .. n - 1 : r[j] = q[i]
    <3>1. i # k /\ i \in Nat
      BY <2>2
    <3>2. CASE i < k
      <4>1. i \in 1 .. n - 1
        BY <1>1, <3>2
      <4> QED
        BY <1>2, <3>2, <4>1
    <3>3. CASE i > k
      <4>1. i - 1 \in 1 .. n - 1 /\ ~(i - 1 < k) /\ (i - 1) + 1 = i
        BY <1>1, <3>3
      <4>2. r[i - 1] = q[i]
        BY <1>2, <4>1
      <4> QED
        BY <4>1, <4>2
    <3> QED
      BY <1>1, <3>1, <3>2, <3>3
  <2>3. ASSUME NEW j \in 1 .. n - 1 PROVE \E i \in 1 .. n : q[i] = r[j] /\ q[i] # x
    <3>1. j \in 1 .. n /\ j + 1 \in 1 .. n /\ (j < k => j # k) /\ (~(j < k) => j + 1 # k)
      BY <1>1
    <3>2. r[j] = IF j < k THEN q[j] ELSE q[j + 1]
      BY <1>2
    <3> QED
      BY <1>3, <3>1, <3>2
  <2> HIDE DEF x, n
  <2>4. ASSUME NEW y \in alive' PROVE y \in {r[i] : i \in 1 .. n - 1}
    <3>1. PICK i \in 1 .. n : y = q[i] /\ q[i] # x
      BY <2>1
    <3> QED
      BY <2>2, <3>1
  <2>5. ASSUME NEW j \in 1 .. n - 1 PROVE r[j] \in alive'
    BY <2>1, <2>3
  <2>6. alive' = {r[i] : i \in 1 .. n - 1}
    BY <2>4, <2>5
  <2> QED
    BY <1>2, <2>6
<1>6. \A i \in 0 .. n : ElementAt(r, i) = IF i < k THEN ElementAt(q, i) ELSE ElementAt(q, i + 1)
  <2> TAKE i \in 0 .. n
  <2>1. /\ i < k => (i \in 1 .. Len(r) <=> i \in 1 .. n)
        /\ ~(i < k) => (i \in 1 .. Len(r) <=> i + 1 \in 1 .. n)
    BY <1>1, <1>2
  <2>2. i \in 1 .. Len(r) => i \in 1 .. n - 1
    BY <1>2
  <2> QED
    BY <1>2, <2>1, <2>2 DEF ElementAt
<1>7. ElementAt(q, k) = x /\ x \in Element
  BY <1>1 DEF ElementAt, IsList, Element
<1>8. next[x] = ElementAt(q, k + 1) /\ prev[x] = ElementAt(q, k - 1)
  <2>1. k \in 0 .. n /\ k - 1 \in 0 .. n /\ (k - 1) + 1 = k
    BY <1>1
  <2>2. next[ElementAt(q, k)] = ElementAt(q, k + 1)
    BY <2>1 DEF IsList
  <2>3. prev[ElementAt(q, (k - 1) + 1)] = ElementAt(q, k - 1)
    BY <2>1, PrevFact
  <2> QED
    BY <1>7, <2>1, <2>2, <2>3
<1>9. next' = [next EXCEPT ![ElementAt(q, k - 1)] = ElementAt(q, k + 1), ![x] = Freed]
      /\ next \in [Element -> Element \cup {Freed}]
  BY <1>8 DEF RemoveElement, ListTypeOK
<1>10. ASSUME NEW i \in 0 .. Len(r) PROVE next'[ElementAt(r, i)] = ElementAt(r, i + 1)
  <2>1. i \in 0 .. n /\ i + 1 \in 0 .. n /\ k - 1 \in 0 .. n /\ k \in 0 .. n
    BY <1>1, <1>2
  <2>2. CASE i = k - 1
    <3>1. ElementAt(r, i) = ElementAt(q, k - 1) /\ ElementAt(r, i + 1) = ElementAt(q, k + 1)
      BY <1>1, <1>6, <2>1, <2>2
    <3>2. ElementAt(q, k - 1) # x /\ ElementAt(q, k - 1) \in Element
      <4>1. ElementAt(q, k - 1) = ElementAt(q, k) => k - 1 = k
        BY <2>1, Distinct
      <4> QED
        BY <1>1, <1>7, <2>1, <4>1, PrevFact
    <3> QED
      BY <1>9, <3>1, <3>2
  <2>3. CASE i # k - 1
    <3> DEFINE m == IF i < k THEN i ELSE i + 1
    <3>1. m \in 0 .. n /\ m # k - 1 /\ m # k
          /\ (i < k => i + 1 < k) /\ (~(i < k) => ~(i + 1 < k))
      BY <1>1, <2>1, <2>3
    <3>2. ElementAt(r, i) = ElementAt(q, m)
      BY <1>6, <2>1
    <3>3. ElementAt(r, i + 1) = ElementAt(q, m + 1)
      BY <1>1, <1>6, <2>1, <3>1
    <3>4. ElementAt(q, m) # ElementAt(q, k - 1) /\ ElementAt(q, m) # x
      <4>1. ElementAt(q, m) = ElementAt(q, k - 1) => m = k - 1
        BY <2>1, <3>1, Distinct
      <4>2. ElementAt(q, m) = ElementAt(q, k) => m = k
        BY <2>1, <3>1, Distinct
      <4> QED
        BY <1>7, <3>1, <4>1, <4>2
    <3>5. next[ElementAt(q, m)] = ElementAt(q, m + 1) /\ ElementAt(q, m) \in Element
      BY <3>1, PrevFact DEF IsList
    <3> HIDE DEF m
    <3> QED
      BY <1>9, <3>2, <3>3, <3>4, <3>5
  <2> QED
    BY <2>2, <2>3
<1>11. IsList(r)'
  BY <1>2, <1>4, <1>5, <1>10 DEF IsList, ElementAt
<1>12. ElementAt(r, k) = ElementAt(q, k + 1)
  <2>1. k \in 0 .. n /\ ~(k < k)
    BY <1>1
  <2> QED
    BY <1>6, <2>1
<1>13. Rest(r, k) = Rest(q, k + 1)
  <2>1. Len(r) + 1 - k = Len(q) + 1 - (k + 1)
    BY <1>1, <1>2
  <2>2. ASSUME NEW i \in 1 .. Len(q) + 1 - (k + 1) PROVE r[k + i - 1] = q[(k + 1) + i - 1]
    <3>1. k + i - 1 \in 1 .. n - 1 /\ ~(k + i - 1 < k) /\ (k + i - 1) + 1 = (k + 1) + i - 1
      BY <1>1
    <3> QED
      BY <1>2, <3>1
  <2> QED
    BY <2>1, <2>2 DEF Rest
<1> QED
  BY <1>11, <1>12, <1>13 DEF r

-----------------------------------------------------------------------------
(* The refinement: what SessionRounds sees, and its steps.                 *)

Active == pc \in {"requests", "handled", "packet"}

Order == ChainFrom(next[Clients])
Kind  == CASE pc \in {"requests", "handled"} -> "requests"
           [] pc \in {"packet", "killed"} -> pc
           [] OTHER -> "none"
Todo  == IF Active THEN ChainFrom(element) ELSE <<>>

LEMMA MapFact ==
  /\ \A s \in Sessions :
       Kind = "none" /\ (\A i \in DOMAIN Order : Order[i] # s) /\ Order' = Append(Order, s)
         /\ Kind' = Kind /\ Todo' = Todo => Rounds!Next
  /\ Kind # "killed" /\ Todo = <<>> /\ Kind' \in {"requests", "packet"}
       /\ Todo' = Order /\ Order' = Order => Rounds!Next
  /\ Todo # <<>> /\ Todo' = Tail(Todo) /\ Kind' = Kind
       /\ (\/ Order' = Order
           \/ Kind = "requests" /\ \E i \in DOMAIN Order :
                Order[i] = Head(Todo) /\ Order' = Removed(Order, i))
       => Rounds!Next
  /\ Kind # "killed" /\ Todo = <<>> /\ Kind' = "none" /\ Order' = Order /\ Todo' = Todo
       => Rounds!Next
  /\ Kind' = "killed" /\ Todo' = <<>> /\ Order' = Order => Rounds!Next
  /\ Order' = Order /\ Kind' = Kind /\ Todo' = Todo => UNCHANGED Rounds!vars
<1>1. ASSUME NEW s \in Sessions, Kind = "none", \A i \in DOMAIN Order : Order[i] # s,
             Order' = Append(Order, s), Kind' = Kind, Todo' = Todo
      PROVE  Rounds!Next
  BY <1>1 DEF Rounds!Next, Rounds!Come, Order, Kind, Todo, Active
<1>2. ASSUME Kind # "killed", Todo = <<>>, Kind' \in {"requests", "packet"}, Todo' = Order,
             Order' = Order
      PROVE  Rounds!Next
  BY <1>2 DEF Rounds!Next, Rounds!Begin, Order, Kind, Todo, Active
<1>3. ASSUME Todo # <<>>, Todo' = Tail(Todo), Kind' = Kind,
             \/ Order' = Order
             \/ Kind = "requests" /\ \E i \in DOMAIN Order :
                  Order[i] = Head(Todo) /\ Order' = Removed(Order, i)
      PROVE  Rounds!Next
  <2>1. Rounds!Turn
    BY <1>3 DEF Rounds!Turn, Rounds!RemoveAt, Removed, Order, Kind, Todo, Active
  <2> QED
    BY <2>1 DEF Rounds!Next
<1>4. ASSUME Kind # "killed", Todo = <<>>, Kind' = "none", Order' = Order, Todo' = Todo
      PROVE  Rounds!Next
  BY <1>4 DEF Rounds!Next, Rounds!End, Order, Kind, Todo, Active
<1>5. ASSUME Kind' = "killed", Todo' = <<>>, Order' = Order
      PROVE  Rounds!Next
  BY <1>5 DEF Rounds!Next, Rounds!Kill, Order, Kind, Todo, Active
<1>6. ASSUME Order' = Order, Kind' = Kind, Todo' = Todo
      PROVE  UNCHANGED Rounds!vars
  BY <1>6 DEF Rounds!vars, Order, Kind, Todo, Active
<1> QED
  BY <1>1, <1>2, <1>3, <1>4, <1>5, <1>6

\* A walk stands at an element of the sequence, and has the rest of it to do.
LEMMA Standing ==
  ASSUME TypeOK, NoDangling, Chains, NEW q, IsList(q)
  PROVE  /\ Order = q /\ (~Active => Todo = <<>>)
         /\ Active => \E j \in 1 .. Len(q) + 1 :
                        /\ element = ElementAt(q, j) /\ Todo = Rest(q, j)
                        /\ j \in 1 .. Len(q) <=> element # Clients
                        /\ Todo = <<>> <=> element = Clients
<1>1. Order = q /\ (~Active => Todo = <<>>)
  BY DEF Order, Todo, Chains
<1>2. ASSUME Active
      PROVE  \E j \in 1 .. Len(q) + 1 : element = ElementAt(q, j)
  <2>1. element \in alive \cup {Clients}
    BY <1>2 DEF NoDangling, Active, Linked
  <2>2. alive = {q[i] : i \in 1 .. Len(q)} /\ Len(q) \in Nat
    BY ListLength DEF IsList
  <2>3. CASE element = Clients
    <3>1. Len(q) + 1 \in 1 .. Len(q) + 1 /\ Len(q) + 1 \notin 1 .. Len(q)
      BY <2>2
    <3> QED
      BY <2>3, <3>1 DEF ElementAt
  <2>4. CASE element \in alive
    <3>1. PICK i \in 1 .. Len(q) : element = q[i]
      BY <2>2, <2>4
    <3>2. i \in 1 .. Len(q) + 1
      BY <2>2
    <3> QED
      BY <3>1, <3>2 DEF ElementAt
  <2> QED
    BY <2>1, <2>3, <2>4
<1>3. ASSUME Active, NEW j \in 1 .. Len(q) + 1, element = ElementAt(q, j)
      PROVE  /\ Todo = Rest(q, j)
             /\ j \in 1 .. Len(q) <=> element # Clients
             /\ Todo = <<>> <=> element = Clients
  <2>1. Todo = Rest(q, j)
    BY <1>3 DEF Todo, Chains
  <2>2. j \in Int
    OBVIOUS
  <2>3. j \in 1 .. Len(q) <=> element # Clients
    BY <1>3, <2>2, ListElements
  <2>4. Rest(q, j) = <<>> <=> ElementAt(q, j) = Clients
    BY RestFact
  <2> QED
    BY <1>3, <2>1, <2>3, <2>4
<1> QED
  BY <1>1, <1>2, <1>3

\* Where no session comes or goes, the sequence stays.
LEMMA SameList ==
  ASSUME UNCHANGED list, Chains', NEW q, IsList(q)
  PROVE  /\ IsList(q)' /\ Order' = q
         /\ \A j \in 1 .. Len(q) + 1 :
              Active' /\ element' = ElementAt(q, j) => Todo' = Rest(q, j)
         /\ \A i \in 0 .. Len(q) : next[ElementAt(q, i)] = ElementAt(q, i + 1)
         /\ next[Clients] = ElementAt(q, 1) /\ Rest(q, 1) = q /\ 1 \in 1 .. Len(q) + 1
<1>1. IsList(q)'
  BY DEF IsList, ElementAt, list
<1>2. Order' = q
  BY <1>1 DEF Chains, Order
<1>3. \A j \in 1 .. Len(q) + 1 : ChainFrom(ElementAt(q, j))' = Rest(q, j)
  BY <1>1 DEF Chains, ElementAt, Rest
<1>4. \A j \in 1 .. Len(q) + 1 :
        Active' /\ element' = ElementAt(q, j) => Todo' = Rest(q, j)
  <2> SUFFICES ASSUME NEW j \in 1 .. Len(q) + 1, Active', element' = ElementAt(q, j)
               PROVE  Todo' = Rest(q, j)
    OBVIOUS
  <2>1. ChainFrom(element)' = Rest(q, j)
    <3>1. ChainFrom(element)' = ChainFrom(ElementAt(q, j))'
      BY DEF ChainFrom, Behind, ElementAt
    <3> QED
      BY <1>3, <3>1
  <2> QED
    BY <2>1 DEF Todo
<1>5. \A i \in 0 .. Len(q) : next[ElementAt(q, i)] = ElementAt(q, i + 1)
  BY DEF IsList
<1>6. Len(q) \in Nat /\ ElementAt(q, 0) = Clients
  BY ListLength DEF ElementAt
<1>7. Rest(q, 1) = q
  <2>1. q \in Seq(Sessions)
    BY DEF IsList
  <2>2. q = [i \in 1 .. Len(q) |-> q[i]]
    BY <2>1
  <2> QED
    BY <1>6, <2>2 DEF Rest
<1> QED
  BY <1>1, <1>2, <1>4, <1>5, <1>6, <1>7

Refined == [Rounds!Next]_(Rounds!vars)

LEMMA ClientRefined ==
  ASSUME TypeOK, NoDangling, Chains, Chains', NEW q, IsList(q),
         \/ UNCHANGED vars
         \/ \E s \in Sessions : Client(s) \/ Handle(s)
         \/ Exit
  PROVE  IsList(q)' /\ Refined
<1>1. UNCHANGED list /\ UNCHANGED element /\ Kind' = Kind /\ (Active' <=> Active)
  BY DEF vars, worker, Client, Close, Read, Request, Handle, HandleAnswered, HandleBad,
         HandleTeardown, HandleClosed, HandleTimeout, Handled, Exit, Kind, Active
<1>2. Order = q /\ Order' = q /\ IsList(q)'
  BY <1>1, Standing, SameList
<1>3. Todo' = Todo
  <2>1. CASE Active
    BY <1>1, <2>1, Standing, SameList
  <2>2. CASE ~Active
    BY <1>1, <2>2 DEF Todo
  <2> QED
    BY <2>1, <2>2
<1> QED
  BY <1>1, <1>2, <1>3, MapFact DEF Refined

LEMMA AddSessionRefined ==
  ASSUME TypeOK, Ring, NoDangling, Chains, Chains', NEW q, IsList(q),
         NEW s \in Sessions, AddSession(s)
  PROVE  IsList(Append(q, s))' /\ Refined
<1>1. s \notin alive /\ AppendElement(s) /\ pc = "loop" /\ pc' = pc
  BY DEF AddSession, worker
<1>2. IsList(Append(q, s))'
  BY <1>1, AppendList DEF TypeOK
<1>3. Order = q /\ Order' = Append(q, s)
  BY <1>2, Standing DEF Chains, Order
<1>4. Kind = "none" /\ Kind' = Kind /\ Todo = <<>> /\ Todo' = <<>>
  BY <1>1 DEF Kind, Todo, Active
<1>5. \A i \in DOMAIN q : q[i] # s
  BY <1>1 DEF IsList
<1> QED
  BY <1>2, <1>3, <1>4, <1>5, MapFact DEF Refined

LEMMA RoundRefined ==
  ASSUME TypeOK, NoDangling, Chains, Chains', NEW q, IsList(q),
         BeginRound \/ EndRound \/ EndPacket
  PROVE  IsList(q)' /\ Refined
<1>1. UNCHANGED list /\ Kind # "killed" /\ (Active => element = Clients)
      /\ \/ pc' \in {"requests", "packet"} /\ element' = next[Clients]
         \/ pc' = "loop"
  BY DEF BeginRound, EndRound, EndPacket, Active, Kind
<1>2. Order = q /\ Todo = <<>>
  BY <1>1, Standing
<1>3. Order' = q /\ IsList(q)'
  BY <1>1, SameList
<1>4. CASE pc' \in {"requests", "packet"} /\ element' = next[Clients]
  <2>1. element' = ElementAt(q, 1) /\ Active' /\ Kind' \in {"requests", "packet"}
    BY <1>1, <1>4, SameList DEF Active, Kind
  <2>2. Todo' = q
    BY <1>1, <2>1, SameList
  <2> QED
    BY <1>1, <1>2, <1>3, <2>1, <2>2, MapFact DEF Refined
<1>5. CASE pc' = "loop"
  <2>1. Kind' = "none" /\ Todo' = <<>>
    BY <1>5 DEF Kind, Todo, Active
  <2> QED
    BY <1>1, <1>2, <1>3, <2>1, MapFact DEF Refined
<1> QED
  BY <1>1, <1>4, <1>5

\* The loop goes on behind a session that stays.
LEMMA TurnRefined ==
  ASSUME TypeOK, NoDangling, Chains, Chains', NEW q, IsList(q),
         UNCHANGED list, Active, Active', Kind' = Kind, element # Clients,
         element' = next[element]
  PROVE  IsList(q)' /\ Refined
<1>1. PICK j \in 1 .. Len(q) + 1 :
        element = ElementAt(q, j) /\ Todo = Rest(q, j) /\ j \in 1 .. Len(q) /\ Todo # <<>>
  BY Standing
<1>2. j \in 0 .. Len(q) /\ j + 1 \in 1 .. Len(q) + 1
  BY <1>1
<1>3. element' = ElementAt(q, j + 1)
  BY <1>1, <1>2, SameList
<1>4. Todo' = Rest(q, j + 1) /\ Order' = q /\ IsList(q)'
  BY <1>2, <1>3, SameList
<1>5. Todo' = Tail(Todo)
  BY <1>1, <1>4, RestFact
<1>6. Order = q
  BY Standing
<1> QED
  BY <1>1, <1>4, <1>5, <1>6, MapFact DEF Refined

\* It goes on behind a session that is deleted.
LEMMA DeleteRefined ==
  ASSUME TypeOK, Ring, NoDangling, Chains, Chains', NEW q, IsList(q),
         pc = "handled", element # Clients, NextSession, stopped[element]
  PROVE  (\E r : IsList(r)') /\ Refined
<1>0. Active /\ Active' /\ Kind = "requests" /\ Kind' = Kind /\ element' = next[element]
      /\ RemoveElement(element)
  BY DEF NextSession, Delete, Active, Kind
<1>1. PICK k \in 1 .. Len(q) + 1 :
        element = ElementAt(q, k) /\ Todo = Rest(q, k) /\ k \in 1 .. Len(q) /\ Todo # <<>>
  BY <1>0, Standing
<1>2. k \in 0 .. Len(q) /\ k + 1 \in 1 .. Len(q) + 1 /\ element = q[k] /\ Len(q) \in Nat
  BY <1>1, ListLength DEF ElementAt
<1> DEFINE r == Removed(q, k)
<1>3. IsList(r)' /\ ElementAt(r, k) = ElementAt(q, k + 1) /\ Rest(r, k) = Rest(q, k + 1)
  BY <1>0, <1>1, <1>2, RemoveList DEF TypeOK
<1>4. Len(r) = Len(q) - 1 /\ k \in 1 .. Len(r) + 1
  BY <1>1, <1>2, RemoveFact
<1> HIDE DEF r
<1>5. element' = ElementAt(r, k)
  <2>1. next[ElementAt(q, k)] = ElementAt(q, k + 1)
    BY <1>2 DEF IsList
  <2> QED
    BY <1>0, <1>1, <1>3, <2>1
<1>6. Order' = r
  BY <1>3 DEF Chains, Order
<1>7. Todo' = Rest(r, k)
  <2>1. ChainFrom(ElementAt(r, k))' = Rest(r, k)
    BY <1>3, <1>4 DEF Chains, ElementAt, Rest
  <2>2. ChainFrom(element)' = ChainFrom(ElementAt(r, k))'
    BY <1>5 DEF ChainFrom, Behind, ElementAt
  <2> QED
    BY <1>0, <2>1, <2>2 DEF Todo
<1>8. Todo' = Tail(Todo) /\ Head(Todo) = q[k] /\ k \in DOMAIN q
  BY <1>1, <1>3, <1>7, RestFact DEF IsList
<1>9. Order = q /\ Order' = Removed(q, k)
  BY <1>6, Standing DEF r
<1> QED
  BY <1>0, <1>1, <1>3, <1>8, <1>9, MapFact DEF Refined

LEMMA KillRefined ==
  ASSUME TypeOK, NoDangling, Chains, Chains', NEW q, IsList(q),
         NEW s \in Sessions, BrokenPipe(s)
  PROVE  IsList(q)' /\ Refined
<1>1. UNCHANGED list /\ pc' = "killed"
  BY DEF BrokenPipe
<1>2. Order = q /\ Order' = q /\ IsList(q)'
  BY <1>1, Standing, SameList
<1>3. Kind' = "killed" /\ Todo' = <<>>
  BY <1>1 DEF Kind, Todo, Active
<1> QED
  BY <1>2, <1>3, MapFact DEF Refined

LEMMA StepRefined ==
  IInv /\ Chains /\ Chains' /\ (\E q : IsList(q)) /\ [Next]_vars
    => (\E r : IsList(r)') /\ Refined
<1> SUFFICES ASSUME IInv, Chains, Chains', NEW q, IsList(q), [Next]_vars
             PROVE  (\E r : IsList(r)') /\ Refined
  OBVIOUS
<1>1. TypeOK /\ Ring /\ NoDangling
  BY InvParts
<1>2. HandledSession
  BY DEF IInv, Inv
<1>3. CASE UNCHANGED vars \/ (\E s \in Sessions : Client(s) \/ Handle(s)) \/ Exit
  BY <1>1, <1>3, ClientRefined
<1>4. CASE \E s \in Sessions : AddSession(s)
  BY <1>1, <1>4, AddSessionRefined
<1>5. CASE BeginRound \/ EndRound \/ EndPacket
  BY <1>1, <1>5, RoundRefined
<1>6. CASE \E s \in Sessions : SendPacket(s) \/ PassOver(s)
  <2>1. PICK s \in Sessions : SendPacket(s) \/ PassOver(s)
    BY <1>6
  <2>2. s # Clients
    BY ListAssumption
  <2>3. /\ UNCHANGED list /\ Active /\ Active' /\ Kind' = Kind /\ element # Clients
        /\ element' = next[element]
    BY <2>1, <2>2 DEF SendPacket, PassOver, Active, Kind
  <2> QED
    BY <1>1, <2>3, TurnRefined
<1>7. CASE NextSession
  <2>1. pc = "handled" /\ element # Clients
    BY <1>2, <1>7 DEF NextSession, HandledSession
  <2>2. CASE stopped[element]
    BY <1>1, <1>7, <2>1, <2>2, DeleteRefined
  <2>3. CASE ~stopped[element]
    <3>1. /\ UNCHANGED list /\ Active /\ Active' /\ Kind' = Kind /\ element' = next[element]
      BY <1>7, <2>3 DEF NextSession, Keep, Active, Kind
    <3> QED
      BY <1>1, <2>1, <3>1, TurnRefined
  <2> QED
    BY <2>2, <2>3
<1>8. CASE \E s \in Sessions : BrokenPipe(s)
  BY <1>1, <1>8, KillRefined
<1> QED
  BY <1>3, <1>4, <1>5, <1>6, <1>7, <1>8 DEF Next, Work

LEMMA InitRefined == Init /\ Chains => (\E q : IsList(q)) /\ Rounds!Init
<1> SUFFICES ASSUME Init, Chains PROVE (\E q : IsList(q)) /\ Rounds!Init
  OBVIOUS
<1>1. PICK s \in Sessions :
        /\ alive = {s}
        /\ next = [[e \in Element |-> Freed] EXCEPT ![s] = Clients, ![Clients] = s]
  BY DEF Init
<1>2. s # Clients /\ s \in Element /\ Clients \in Element
  BY ListAssumption DEF Element
<1>3. next[Clients] = s /\ next[s] = Clients
  BY <1>1, <1>2
<1> DEFINE q == <<s>>
<1>4. q \in Seq(Sessions) /\ Len(q) = 1 /\ q[1] = s
  OBVIOUS
<1> HIDE DEF q
<1>5. IsList(q)
  <2>1. ElementAt(q, 0) = Clients /\ ElementAt(q, 1) = s /\ ElementAt(q, 2) = Clients
    BY <1>4 DEF ElementAt
  <2>2. \A i \in 0 .. Len(q) : next[ElementAt(q, i)] = ElementAt(q, i + 1)
    BY <1>3, <1>4, <2>1
  <2>3. alive = {q[i] : i \in 1 .. Len(q)}
    BY <1>1, <1>4
  <2> QED
    BY <1>4, <2>2, <2>3 DEF IsList
<1>6. Order = q
  BY <1>5 DEF Chains, Order
<1>7. Kind = "none" /\ Todo = <<>>
  BY DEF Init, Kind, Todo, Active
<1> QED
  BY <1>5, <1>6, <1>7 DEF Rounds!Init, Order, Kind, Todo, Active, q

(* The rounds over the pointers are rounds over a sequence of sessions, for  *)
(* any number of them: each is reached once in a round and in the order of  *)
(* arrival, those that come stand at the end, and one that leaves in its    *)
(* turn takes nobody else with it (handleRequests, rtpSendData,             *)
(* LinkedListElement).                                                      *)
THEOREM RoundsKept == Spec => RoundsInOrder
<1>1. Init /\ Chains => (\E q : IsList(q)) /\ Rounds!Init
  BY InitRefined
<1>2. IInv /\ Chains /\ Chains' /\ (\E q : IsList(q)) /\ [Next]_vars
        => (\E q : IsList(q))' /\ [Rounds!Next]_(Rounds!vars)
  BY StepRefined DEF Refined
<1>3. Chains
  BY ChainsFact
<1> QED
  BY <1>1, <1>2, <1>3, Always, PTL DEF Spec, RoundsInOrder, Rounds!Spec
=============================================================================
