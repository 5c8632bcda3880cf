----------------------------- MODULE ArrayProofs -----------------------------
(***************************************************************************)
(* Lemmas, for arrays of anything and of any length: what filter keeps,    *)
(* where an element is inserted, the first element that passes a test, the *)
(* orders that sort may give, and arrays joined to one.                    *)
(***************************************************************************)
EXTENDS Arrays, FiniteSetTheorems, SequenceTheorems, WellFoundedInduction, TLAPS

LEMMA LeastOf ==
  ASSUME NEW S, S \subseteq Nat, S # {}
  PROVE  \E m \in S : \A n \in S : m <= n
<1>1. PICK m \in S : \A n \in S : ~(<<n, m>> \in OpToRel(<, Nat))
  BY NatLessThanWellFounded, WFMin
<1>2. \A a, b \in Nat : a < b => <<a, b>> \in OpToRel(<, Nat)
  BY Zenon DEF OpToRel
<1>3. \A n \in S : ~(n < m)
  BY <1>1, <1>2, Zenon
<1> QED
  BY <1>3

LEMMA GreatestOf ==
  ASSUME NEW n \in Nat, NEW S, S \subseteq 1..n, S # {}
  PROVE  \E m \in S : \A i \in S : i <= m
<1> DEFINE T == {n - i : i \in S}
<1>1. T \subseteq Nat /\ T # {}
  <2>1. \A i \in S : n - i \in Nat
    OBVIOUS
  <2> QED
    BY <2>1
<1>2. PICK m \in T : \A i \in T : m <= i
  <2> HIDE DEF T
  <2> QED
    BY <1>1, LeastOf
<1>3. PICK k \in S : m = n - k
  OBVIOUS
<1>4. \A i \in S : n - k <= n - i
  BY <1>2, <1>3
<1> QED
  BY <1>3, <1>4

\* findIndex gives the first index.
LEMMA MinOf ==
  ASSUME NEW S, S \subseteq Nat, S # {}
  PROVE  Min(S) \in S /\ \A n \in S : Min(S) <= n
  BY LeastOf DEF Min

Rank(I, i) == Cardinality(I \cap 1..i)

\* The rank numbers the indices, in their order and without a gap.
LEMMA RankNumbers ==
  ASSUME NEW n \in Nat, NEW I, I \subseteq 1..n
  PROVE  /\ Cardinality(I) \in Nat
         /\ \A i \in I : Rank(I, i) \in 1..Cardinality(I)
         /\ \A i, j \in I : i < j => Rank(I, i) < Rank(I, j)
         /\ \A k \in 1..Cardinality(I) : \E i \in I : Rank(I, i) = k
<1>1. IsFiniteSet(I) /\ Cardinality(I) \in Nat
  <2>1. IsFiniteSet(1..n) /\ I \in SUBSET (1..n)
    BY FS_Interval
  <2> QED
    BY <2>1, FS_Subset, FS_CardinalityType
<1>2. \A i \in I : /\ i \in Nat /\ IsFiniteSet(I \cap 1..i)
                   /\ Rank(I, i) \in Nat /\ Rank(I, i) <= Cardinality(I)
  <2> SUFFICES ASSUME NEW i \in I
               PROVE  /\ i \in Nat /\ IsFiniteSet(I \cap 1..i)
                      /\ Rank(I, i) \in Nat /\ Rank(I, i) <= Cardinality(I)
    OBVIOUS
  <2>1. i \in Nat
    OBVIOUS
  <2>2. IsFiniteSet(I \cap 1..i) /\ Cardinality(I \cap 1..i) <= Cardinality(I)
    BY <1>1, FS_Intersection
  <2>3. Cardinality(I \cap 1..i) \in Nat
    BY <2>2, FS_CardinalityType
  <2> QED
    BY <2>1, <2>2, <2>3 DEF Rank
<1>3. \A i \in I : Rank(I, i) \in 1..Cardinality(I)
  <2> SUFFICES ASSUME NEW i \in I PROVE Rank(I, i) \in 1..Cardinality(I)
    OBVIOUS
  <2>1. i \in Nat /\ i \in I \cap 1..i
    BY <1>2
  <2>2. Rank(I, i) # 0
    BY <1>2, <2>1, FS_EmptySet DEF Rank
  <2>3. Rank(I, i) \in Nat /\ Rank(I, i) <= Cardinality(I)
    BY <1>2
  <2> QED
    BY <1>1, <2>2, <2>3
<1>4. \A i, j \in I : i < j => Rank(I, i) < Rank(I, j)
  <2> SUFFICES ASSUME NEW i \in I, NEW j \in I, i < j PROVE Rank(I, i) < Rank(I, j)
    OBVIOUS
  <2>1. i \in Nat /\ j \in Nat
    BY <1>2
  <2>2. I \cap 1..i \in SUBSET (I \cap 1..j) /\ j \in I \cap 1..j /\ j \notin I \cap 1..i
    BY <2>1
  <2>3. /\ Cardinality(I \cap 1..i) <= Cardinality(I \cap 1..j)
        /\ Cardinality(I \cap 1..j) # Cardinality(I \cap 1..i)
    BY <1>2, <2>1, <2>2, FS_Subset
  <2>4. Rank(I, i) <= Rank(I, j) /\ Rank(I, j) # Rank(I, i)
    BY <2>3 DEF Rank
  <2>5. Rank(I, i) \in Nat /\ Rank(I, j) \in Nat
    BY <1>2
  <2> QED
    BY <2>4, <2>5
<1>5. \A k \in 1..Cardinality(I) : \E i \in I : Rank(I, i) = k
  <2> DEFINE f == [i \in I |-> Rank(I, i)]
             D == 1..Cardinality(I)
  <2>1. IsFiniteSet(D) /\ Cardinality(D) = Cardinality(I)
    BY <1>1, FS_Interval
  <2>2. f \in [I -> D]
    BY <1>3
  <2>3. \A i, j \in I : f[i] = f[j] => i = j
    <3> SUFFICES ASSUME NEW i \in I, NEW j \in I, Rank(I, i) = Rank(I, j) PROVE i = j
      OBVIOUS
    <3>1. i \in Nat /\ j \in Nat /\ Rank(I, i) \in Nat
      BY <1>2
    <3> QED
      BY <1>4, <3>1
  <2>4. f \in Injection(I, D)
    BY <2>2, <2>3 DEF Injection, IsInjective
  <2>5. f \in Surjection(I, D)
    <3> HIDE DEF f, D
    <3> QED
      BY <1>1, <2>1, <2>4, FS_Injection
  <2>6. \A k \in D : \E i \in I : f[i] = k
    BY <2>5 DEF Surjection
  <2> QED
    BY <2>6
<1> QED
  BY <1>1, <1>3, <1>4, <1>5

\* What filter keeps.
LEMMA KeptElements ==
  ASSUME NEW S, NEW ss \in Seq(S), NEW I, I \subseteq DOMAIN ss
  PROVE  /\ Cardinality(I) \in Nat
         /\ Kept(ss, I) \in Seq(S) /\ Len(Kept(ss, I)) = Cardinality(I)
         /\ \A k \in 1..Cardinality(I) : \E i \in I : Rank(I, i) = k /\ Kept(ss, I)[k] = ss[i]
         /\ \A i \in I : Rank(I, i) \in 1..Cardinality(I) /\ Kept(ss, I)[Rank(I, i)] = ss[i]
<1>1. I \subseteq 1..Len(ss) /\ Len(ss) \in Nat /\ \A i \in I : ss[i] \in S
  OBVIOUS
<1>2. /\ Cardinality(I) \in Nat
      /\ \A i \in I : Rank(I, i) \in 1..Cardinality(I)
      /\ \A i, j \in I : i < j => Rank(I, i) < Rank(I, j)
      /\ \A k \in 1..Cardinality(I) : \E i \in I : Rank(I, i) = k
  BY <1>1, RankNumbers
<1> DEFINE c(k) == CHOOSE i \in I : Rank(I, i) = k
<1>3. \A k \in 1..Cardinality(I) : c(k) \in I /\ Rank(I, c(k)) = k
  BY <1>2
<1>4. Kept(ss, I) = [k \in 1..Cardinality(I) |-> ss[c(k)]]
  BY DEF Kept, Rank
<1>5. \A i \in I : c(Rank(I, i)) = i
  <2> SUFFICES ASSUME NEW i \in I PROVE c(Rank(I, i)) = i
    OBVIOUS
  <2> DEFINE j == c(Rank(I, i))
  <2>1. j \in I /\ Rank(I, j) = Rank(I, i)
    BY <1>2, <1>3
  <2> HIDE DEF j
  <2>2. i \in Nat /\ j \in Nat /\ Rank(I, i) \in Nat
    BY <1>1, <1>2, <2>1
  <2>3. ~(i < j) /\ ~(j < i)
    BY <1>2, <2>1, <2>2
  <2> QED
    BY <2>2, <2>3 DEF j
<1> HIDE DEF c
<1>6. Kept(ss, I) \in [1..Cardinality(I) -> S]
  BY <1>1, <1>3, <1>4
<1>7. Kept(ss, I) \in Seq(S) /\ Len(Kept(ss, I)) = Cardinality(I)
  BY <1>2, <1>6
<1>8. \A k \in 1..Cardinality(I) : Kept(ss, I)[k] = ss[c(k)]
  BY <1>4
<1> QED
  BY <1>2, <1>3, <1>5, <1>7, <1>8

\* Increasing from each element to the next is increasing.
LEMMA Increasing ==
  ASSUME NEW n \in Nat, NEW f \in [1..n -> Int], \A i \in 1..n - 1 : f[i] < f[i + 1]
  PROVE  \A i, j \in 1..n : i < j => f[i] < f[j]
<1> SUFFICES ASSUME NEW i \in 1..n, NEW a \in 1..n, i < a, ~(f[i] < f[a]) PROVE FALSE
  OBVIOUS
<1> DEFINE S == {j \in 1..n : i < j /\ ~(f[i] < f[j])}
<1>1. S \subseteq Nat /\ a \in S
  OBVIOUS
<1>2. PICK j \in S : \A k \in S : j <= k
  <2> HIDE DEF S
  <2> QED
    BY <1>1, LeastOf
<1>3. j \in 1..n /\ i < j /\ ~(f[i] < f[j]) /\ j - 1 \notin S
  BY <1>2
<1>4. CASE j - 1 = i
  BY <1>3, <1>4
<1>5. CASE j - 1 # i
  <2>1. j - 1 \in 1..n - 1 /\ i < j - 1
    BY <1>3, <1>5
  <2>2. f[i] < f[j - 1] /\ f[j - 1] < f[j - 1 + 1] /\ j - 1 + 1 = j
    BY <1>3, <2>1
  <2>3. f[i] \in Int /\ f[j - 1] \in Int /\ f[j] \in Int
    BY <1>3, <2>1
  <2> QED
    BY <1>3, <2>2, <2>3
<1> QED
  BY <1>4, <1>5

\* tt is ss with new at index i.
IsInsertion(tt, ss, i, new) ==
  /\ Len(tt) = Len(ss) + 1
  /\ \A j \in 1..Len(ss) + 1 : tt[j] = IF j < i THEN ss[j] ELSE IF j = i THEN new ELSE ss[j - 1]

LEMMA Inserted ==
  ASSUME NEW S, NEW ss \in Seq(S), NEW new \in S, NEW i \in 1..Len(ss) + 1
  PROVE  InsertAt(ss, i, new) \in Seq(S) /\ IsInsertion(InsertAt(ss, i, new), ss, i, new)
<1> DEFINE n == Len(ss)
           p == SubSeq(ss, 1, i - 1)
           q == SubSeq(ss, i, n)
           o == p \o <<new>>
           r == o \o q
<1>1. n \in Nat /\ i \in Nat /\ i >= 1 /\ i <= n + 1
  OBVIOUS
<1>2. p \in Seq(S) /\ Len(p) = i - 1 /\ \A j \in 1..i - 1 : p[j] = ss[j]
  <2>1. \A j \in 1..i - 1 : ss[j] \in S
    BY <1>1
  <2>2. /\ SubSeq(ss, 1, i - 1) \in Seq(S)
        /\ Len(SubSeq(ss, 1, i - 1)) = IF 1 <= i - 1 THEN i - 1 - 1 + 1 ELSE 0
        /\ \A j \in 1..i - 1 - 1 + 1 : SubSeq(ss, 1, i - 1)[j] = ss[1 + j - 1]
    BY <1>1, <2>1, SubSeqProperties
  <2> HIDE DEF p
  <2>3. /\ p \in Seq(S)
        /\ Len(p) = IF 1 <= i - 1 THEN i - 1 - 1 + 1 ELSE 0
        /\ \A j \in 1..i - 1 - 1 + 1 : p[j] = ss[1 + j - 1]
    BY <2>2 DEF p
  <2>4. Len(p) = i - 1
    BY <1>1, <2>3
  <2>5. \A j \in 1..i - 1 : j \in 1..i - 1 - 1 + 1 /\ 1 + j - 1 = j
    BY <1>1
  <2> QED
    BY <2>3, <2>4, <2>5
<1>3. q \in Seq(S) /\ Len(q) = n - i + 1 /\ \A j \in 1..n - i + 1 : q[j] = ss[i + j - 1]
  <2>1. \A j \in i..n : ss[j] \in S
    BY <1>1
  <2>2. /\ SubSeq(ss, i, n) \in Seq(S)
        /\ Len(SubSeq(ss, i, n)) = IF i <= n THEN n - i + 1 ELSE 0
        /\ \A j \in 1..n - i + 1 : SubSeq(ss, i, n)[j] = ss[i + j - 1]
    BY <1>1, <2>1, SubSeqProperties
  <2> HIDE DEF q, n
  <2>3. /\ q \in Seq(S)
        /\ Len(q) = IF i <= n THEN n - i + 1 ELSE 0
        /\ \A j \in 1..n - i + 1 : q[j] = ss[i + j - 1]
    BY <2>2 DEF q
  <2> QED
    BY <1>1, <2>3
<1> HIDE DEF p, q, n
<1>4. o \in Seq(S) /\ Len(o) = i /\ \A j \in 1..i : o[j] = IF j < i THEN ss[j] ELSE new
  BY <1>1, <1>2
<1> HIDE DEF o
<1>5. r \in Seq(S) /\ Len(r) = n + 1
  <2>1. r \in Seq(S) /\ Len(r) = Len(o) + Len(q)
    BY <1>3, <1>4, ConcatProperties
  <2>2. Len(o) = i /\ Len(q) = n - i + 1
    BY <1>3, <1>4
  <2> HIDE DEF r
  <2> QED
    BY <1>1, <2>1, <2>2
<1>6. \A j \in 1..n + 1 : r[j] = IF j < i THEN ss[j] ELSE IF j = i THEN new ELSE ss[j - 1]
  <2> SUFFICES ASSUME NEW j \in 1..n + 1
               PROVE  r[j] = IF j < i THEN ss[j] ELSE IF j = i THEN new ELSE ss[j - 1]
    OBVIOUS
  <2>1. CASE j <= i
    BY <1>1, <1>3, <1>4, <2>1
  <2>2. CASE j > i
    <3>1. r[j] = q[j - i]
      BY <1>1, <1>3, <1>4, <2>2
    <3>2. j - i \in 1..n - i + 1 /\ i + (j - i) - 1 = j - 1
      BY <1>1, <2>2
    <3> QED
      BY <1>1, <1>3, <2>2, <3>1, <3>2
  <2>3. j <= i \/ j > i
    BY <1>1
  <2> QED
    BY <2>1, <2>2, <2>3
<1> QED
  BY <1>5, <1>6 DEF IsInsertion, InsertAt, r, o, p, q, n

\* Where addElementAtIndex adds.
LEMMA Added ==
  ASSUME NEW S, NEW ss \in Seq(S), NEW i \in -1..Len(ss), NEW new
  PROVE  \E m \in 1..Len(ss) + 1 : AddElementAtIndex(ss, i, new) = InsertAt(ss, m, new)
<1>1. Len(ss) \in Nat /\ (ss # <<>> => Len(ss) >= 1)
  OBVIOUS
<1>2. CASE i >= 0
  BY <1>1, <1>2 DEF AddElementAtIndex
<1>3. CASE i < 0
  BY <1>1, <1>3 DEF AddElementAtIndex
<1> QED
  BY <1>2, <1>3

\* tt has the elements of ss at the indices in I, each once.
IsPick(tt, ss, I) ==
  \E f \in [DOMAIN tt -> I] :
    /\ \A j \in DOMAIN tt : tt[j] = ss[f[j]]
    /\ \A j, k \in DOMAIN tt : j # k => f[j] # f[k]
    /\ \A i \in I : \E j \in DOMAIN tt : f[j] = i

LEMMA KeptPicks ==
  ASSUME NEW S, NEW ss \in Seq(S), NEW I, I \subseteq DOMAIN ss
  PROVE  Kept(ss, I) \in Seq(S) /\ IsPick(Kept(ss, I), ss, I)
<1> DEFINE tt == Kept(ss, I)
           N == Cardinality(I)
<1>1. /\ N \in Nat /\ tt \in Seq(S) /\ Len(tt) = N
      /\ \A k \in 1..N : \E i \in I : Rank(I, i) = k /\ tt[k] = ss[i]
      /\ \A i \in I : Rank(I, i) \in 1..N /\ tt[Rank(I, i)] = ss[i]
  BY KeptElements
<1>2. \A i, j \in I : i # j => Rank(I, i) # Rank(I, j)
  <2>1. I \subseteq 1..Len(ss) /\ Len(ss) \in Nat
    OBVIOUS
  <2>2. \A i, j \in I : i < j => Rank(I, i) < Rank(I, j)
    BY <2>1, RankNumbers
  <2>3. \A i \in I : i \in Nat /\ Rank(I, i) \in Nat
    BY <1>1, <2>1
  <2> QED
    BY <2>2, <2>3
<1> HIDE DEF tt, N
<1>3. DOMAIN tt = 1..N
  BY <1>1
<1> DEFINE f == [k \in DOMAIN tt |-> CHOOSE i \in I : Rank(I, i) = k /\ tt[k] = ss[i]]
<1>4. \A k \in DOMAIN tt : f[k] \in I /\ Rank(I, f[k]) = k /\ tt[k] = ss[f[k]]
  BY <1>1, <1>3
<1>5. f \in [DOMAIN tt -> I]
  BY <1>4
<1> HIDE DEF f
<1>6. \A i \in I : Rank(I, i) \in DOMAIN tt /\ f[Rank(I, i)] = i
  BY <1>1, <1>2, <1>3, <1>4
<1>7. IsPick(tt, ss, I)
  BY <1>4, <1>5, <1>6 DEF IsPick
<1> QED
  BY <1>1, <1>7 DEF tt

LEMMA RemovedPicks ==
  ASSUME NEW S, NEW ss \in Seq(S), NEW n \in DOMAIN ss
  PROVE  RemoveAt(ss, n) \in Seq(S) /\ IsPick(RemoveAt(ss, n), ss, DOMAIN ss \ {n})
<1> DEFINE m == Len(ss)
           p == SubSeq(ss, 1, n - 1)
           q == SubSeq(ss, n + 1, m)
           r == p \o q
           I == DOMAIN ss \ {n}
<1>1. m \in Nat /\ n \in Nat /\ n >= 1 /\ n <= m /\ DOMAIN ss = 1..m
  OBVIOUS
<1>2. p \in Seq(S) /\ Len(p) = n - 1 /\ \A j \in 1..n - 1 : p[j] = ss[j]
  BY <1>1
<1>3. q \in Seq(S) /\ Len(q) = m - n /\ \A j \in 1..m - n : q[j] = ss[n + j]
  BY <1>1
<1> HIDE DEF p, q, m
<1>4. r \in Seq(S) /\ Len(r) = m - 1
  <2>1. r \in Seq(S) /\ Len(r) = Len(p) + Len(q)
    BY <1>2, <1>3, ConcatProperties
  <2>2. Len(p) = n - 1 /\ Len(q) = m - n
    BY <1>2, <1>3
  <2> HIDE DEF r
  <2> QED
    BY <1>1, <2>1, <2>2
<1>5. \A j \in 1..m - 1 : r[j] = IF j < n THEN ss[j] ELSE ss[j + 1]
  <2> SUFFICES ASSUME NEW j \in 1..m - 1
               PROVE  r[j] = IF j < n THEN ss[j] ELSE ss[j + 1]
    OBVIOUS
  <2>1. CASE j < n
    BY <1>1, <1>2, <1>3, <2>1
  <2>2. CASE j >= n
    <3>1. r[j] = q[j - n + 1]
      BY <1>1, <1>2, <1>3, <2>2
    <3>2. PICK a \in 1..m - n : a = j - n + 1 /\ n + a = j + 1
      BY <1>1, <2>2
    <3>3. q[a] = ss[n + a] /\ ~(j < n)
      BY <1>1, <1>3, <2>2
    <3> QED
      BY <3>1, <3>2, <3>3
  <2>3. j < n \/ j >= n
    BY <1>1
  <2> QED
    BY <2>1, <2>2, <2>3
<1> HIDE DEF r
<1>6. DOMAIN r = 1..m - 1
  BY <1>1, <1>4
<1> DEFINE f == [j \in DOMAIN r |-> IF j < n THEN j ELSE j + 1]
<1>7. \A j \in DOMAIN r : /\ f[j] = (IF j < n THEN j ELSE j + 1) /\ f[j] \in 1..m /\ f[j] # n
                          /\ j \in Nat
  BY <1>1, <1>6
<1>8. f \in [DOMAIN r -> I]
  BY <1>1, <1>7
<1>9. \A i \in I : \E j \in DOMAIN r : f[j] = i
  <2> SUFFICES ASSUME NEW i \in 1..m, i # n PROVE \E j \in DOMAIN r : f[j] = i
    BY <1>1
  <2>1. CASE i < n
    <3>1. i \in DOMAIN r
      BY <1>1, <1>6, <2>1
    <3> QED
      BY <1>7, <2>1, <3>1
  <2>2. CASE i > n
    <3>1. i - 1 \in DOMAIN r /\ ~(i - 1 < n) /\ i - 1 + 1 = i
      BY <1>1, <1>6, <2>2
    <3> QED
      BY <1>7, <3>1
  <2> QED
    BY <1>1, <2>1, <2>2
<1>10. \A j, k \in DOMAIN r : j # k => f[j] # f[k]
  BY <1>1, <1>7
<1>11. \A j \in DOMAIN r : r[j] = ss[f[j]]
  BY <1>5, <1>6, <1>7
<1> HIDE DEF f, I
<1>12. IsPick(r, ss, I)
  BY <1>8, <1>9, <1>10, <1>11 DEF IsPick
<1> QED
  BY <1>4, <1>12 DEF RemoveAt, r, p, q, m, I

-----------------------------------------------------------------------------
(* Sorting and flattening.                                                 *)

LEMMA FiniteImage ==
  ASSUME NEW S, IsFiniteSet(S), NEW f, DOMAIN f = S
  PROVE  IsFiniteSet({f[x] : x \in S})
<1> DEFINE T == {f[x] : x \in S}
           g == [x \in S |-> f[x]]
<1>1. g \in [S -> T]
  OBVIOUS
<1>2. \A y \in T : \E x \in S : g[x] = y
  OBVIOUS
<1>3. g \in Surjection(S, T)
  BY <1>1, <1>2 DEF Surjection
<1> HIDE DEF T, g
<1>4. IsFiniteSet(T)
  BY <1>3, FS_Surjection
<1> QED
  BY <1>4 DEF T

LEMMA ArrayIs ==
  ASSUME NEW S, NEW f \in Seq(S)
  PROVE  Array(f) = f
  BY ConcatEmptySeq DEF Array

\* The number of pairs up to p.
Place(P, p) == Cardinality({q \in P : Before(q, p)})

LEMMA BeforeOrders ==
  /\ \A p, q \in Int \X Int : Before(p, q) \/ Before(q, p)
  /\ \A p \in Int \X Int : Before(p, p)
  /\ \A p, q \in Int \X Int : Before(p, q) /\ Before(q, p) => p = q
  /\ \A p, q, r \in Int \X Int : Before(p, q) /\ Before(q, r) => Before(p, r)
  BY DEF Before

\* The places number the pairs in their order and without a gap.
LEMMA PlacesNumber ==
  ASSUME NEW P, IsFiniteSet(P), P \subseteq Int \X Int
  PROVE  /\ Cardinality(P) \in Nat
         /\ \A p \in P : Place(P, p) \in 1..Cardinality(P)
         /\ \A p, q \in P : Before(p, q) /\ p # q => Place(P, p) < Place(P, q)
         /\ \A k \in 1..Cardinality(P) : \E p \in P : Place(P, p) = k
<1> DEFINE Upto(p) == {q \in P : Before(q, p)}
<1>1. Cardinality(P) \in Nat
  BY FS_CardinalityType
<1>2. \A p \in P : /\ p \in Upto(p) /\ IsFiniteSet(Upto(p)) /\ Cardinality(Upto(p)) \in Nat
                   /\ Cardinality(Upto(p)) <= Cardinality(P)
  <2> SUFFICES ASSUME NEW p \in P
               PROVE  /\ p \in Upto(p) /\ IsFiniteSet(Upto(p)) /\ Cardinality(Upto(p)) \in Nat
                      /\ Cardinality(Upto(p)) <= Cardinality(P)
    OBVIOUS
  <2>1. p \in Upto(p) /\ Upto(p) \in SUBSET P
    BY BeforeOrders
  <2> HIDE DEF Upto
  <2> QED
    BY <2>1, FS_Subset, FS_CardinalityType
<1>3. \A p \in P : Place(P, p) \in 1..Cardinality(P)
  <2> SUFFICES ASSUME NEW p \in P PROVE Cardinality(Upto(p)) \in 1..Cardinality(P)
    BY DEF Place
  <2> HIDE DEF Upto
  <2>1. Cardinality(Upto(p)) # 0
    BY <1>2, FS_EmptySet
  <2> QED
    BY <1>1, <1>2, <2>1
<1>4. \A p, q \in P : Before(p, q) /\ p # q => Place(P, p) < Place(P, q)
  <2> SUFFICES ASSUME NEW p \in P, NEW q \in P, Before(p, q), p # q
               PROVE  Cardinality(Upto(p)) < Cardinality(Upto(q))
    BY DEF Place
  <2>1. q \notin Upto(p)
    BY BeforeOrders
  <2>2. \A r \in Upto(p) : r \in Upto(q)
    <3> SUFFICES ASSUME NEW r \in P, Before(r, p) PROVE Before(r, q)
      OBVIOUS
    <3>1. p \in Int \X Int /\ q \in Int \X Int /\ r \in Int \X Int
      OBVIOUS
    <3> QED
      BY <3>1, BeforeOrders
  <2> HIDE DEF Upto
  <2>3. Upto(p) \in SUBSET Upto(q) /\ q \in Upto(q) /\ q \notin Upto(p)
    BY <1>2, <2>1, <2>2
  <2>4. /\ Cardinality(Upto(p)) <= Cardinality(Upto(q))
        /\ Cardinality(Upto(q)) # Cardinality(Upto(p))
    BY <1>2, <2>3, FS_Subset
  <2> QED
    BY <1>2, <2>4
<1>5. \A k \in 1..Cardinality(P) : \E p \in P : Place(P, p) = k
  <2> DEFINE f == [p \in P |-> Place(P, p)]
             D == 1..Cardinality(P)
  <2>1. IsFiniteSet(D) /\ Cardinality(D) = Cardinality(P)
    BY <1>1, FS_Interval
  <2>2. f \in [P -> D]
    BY <1>3
  <2>3. \A p, q \in P : f[p] = f[q] => p = q
    <3> SUFFICES ASSUME NEW p \in P, NEW q \in P, Place(P, p) = Place(P, q) PROVE p = q
      OBVIOUS
    <3>1. Place(P, p) \in Int /\ Place(P, q) \in Int
      BY <1>3
    <3>2. Before(p, q) \/ Before(q, p)
      BY BeforeOrders
    <3> QED
      BY <1>4, <3>1, <3>2
  <2>4. f \in Injection(P, D)
    BY <2>2, <2>3 DEF Injection, IsInjective
  <2>5. f \in Surjection(P, D)
    <3> HIDE DEF f, D
    <3> QED
      BY <1>1, <2>1, <2>4, FS_Injection
  <2>6. \A k \in D : \E p \in P : f[p] = k
    BY <2>5 DEF Surjection
  <2> QED
    BY <2>6
<1> QED
  BY <1>1, <1>3, <1>4, <1>5

\* The elements of P, each once, in order.
IsListing(at, P) ==
  /\ \A p \in P : \E k \in DOMAIN at : at[k] = p
  /\ \A k, l \in DOMAIN at : k <= l => Before(at[k], at[l])

LEMMA InOrderLists ==
  ASSUME NEW P, IsFiniteSet(P), P \subseteq Int \X Int
  PROVE  InOrder(P) \in Seq(P) /\ IsListing(InOrder(P), P)
<1> DEFINE N == Cardinality(P)
           c(k) == CHOOSE p \in P : Place(P, p) = k
           f == [k \in 1..N |-> c(k)]
<1>1. /\ N \in Nat
      /\ \A p \in P : Place(P, p) \in 1..N
      /\ \A p, q \in P : Before(p, q) /\ p # q => Place(P, p) < Place(P, q)
      /\ \A k \in 1..N : \E p \in P : Place(P, p) = k
  BY PlacesNumber
<1>2. \A k \in 1..N : c(k) \in P /\ Place(P, c(k)) = k
  BY <1>1
<1>3. f \in [1..N -> P]
  BY <1>2
<1>4. f \in Seq(P) /\ DOMAIN f = 1..N /\ \A k \in 1..N : f[k] = c(k)
  <2>1. DOMAIN f = 1..N /\ \A k \in 1..N : f[k] = c(k)
    BY Zenon
  <2> HIDE DEF f, N
  <2>2. f \in Seq(P)
    BY <1>1, <1>3
  <2> QED
    BY <2>1, <2>2
<1>5. InOrder(P) = Array(f)
  BY DEF InOrder, Place
<1> HIDE DEF f, c, N
<1>6. InOrder(P) = f
  BY <1>4, <1>5, ArrayIs
<1>7. \A p \in P : c(Place(P, p)) = p
  <2> SUFFICES ASSUME NEW p \in P PROVE c(Place(P, p)) = p
    OBVIOUS
  <2>1. PICK q \in P : q = c(Place(P, p)) /\ Place(P, q) = Place(P, p)
    BY <1>1, <1>2
  <2>2. Before(p, q) \/ Before(q, p)
    BY BeforeOrders
  <2>3. Place(P, p) \in Int /\ Place(P, q) \in Int
    BY <1>1
  <2> QED
    BY <1>1, <2>1, <2>2, <2>3
<1>8. \A k, l \in 1..N : k <= l => Before(c(k), c(l))
  <2> SUFFICES ASSUME NEW k \in 1..N, NEW l \in 1..N, k <= l, ~Before(c(k), c(l)) PROVE FALSE
    OBVIOUS
  <2>1. PICK p \in P, q \in P : p = c(k) /\ q = c(l) /\ Place(P, p) = k /\ Place(P, q) = l
    BY <1>2
  <2>2. ~Before(p, q)
    BY <2>1
  <2>3. Before(q, p) /\ p # q
    BY <2>2, BeforeOrders
  <2> QED
    BY <1>1, <2>1, <2>3
<1> QED
  BY <1>1, <1>4, <1>6, <1>7, <1>8 DEF IsListing

\* An array sorted has the elements it had.
LEMMA SortByTyped ==
  ASSUME NEW S, NEW ss \in Seq(S), NEW key \in [DOMAIN ss -> Int]
  PROVE  SortBy(ss, key) \in Seq(S)
<1> DEFINE f == [i \in DOMAIN ss |-> <<key[i], i>>]
           P == {<<key[i], i>> : i \in DOMAIN ss}
           at == InOrder(P)
           r == [k \in DOMAIN at |-> ss[at[k][2]]]
<1>1. Len(ss) \in Nat /\ DOMAIN ss = 1..Len(ss) /\ \A i \in DOMAIN ss : ss[i] \in S
  OBVIOUS
<1>2. IsFiniteSet(P)
  <2>1. IsFiniteSet(DOMAIN ss)
    BY <1>1, FS_Interval
  <2>2. DOMAIN f = DOMAIN ss /\ P = {f[i] : i \in DOMAIN ss}
    OBVIOUS
  <2> HIDE DEF f, P
  <2> QED
    BY <2>1, <2>2, FiniteImage
<1>3. P \subseteq Int \X Int /\ \A p \in P : p[2] \in DOMAIN ss
  BY <1>1
<1> HIDE DEF P
<1>4. at \in Seq(P)
  BY <1>2, <1>3, InOrderLists
<1> HIDE DEF at
<1>5. r \in [1..Len(at) -> S] /\ Len(at) \in Nat
  BY <1>1, <1>3, <1>4
<1> HIDE DEF r
<1>6. r \in Seq(S)
  BY <1>5
<1>7. SortBy(ss, key) = Array(r)
  BY DEF SortBy, r, at, P
<1> QED
  BY <1>6, <1>7, ArrayIs

LEMMA FlatTyped ==
  ASSUME NEW S, NEW aa \in Seq(Seq(S))
  PROVE  Flat(aa) \in Seq(S)
<1> DEFINE D == DOMAIN aa
           Of(i) == {<<i, j>> : j \in DOMAIN aa[i]}
           g == [i \in D |-> Of(i)]
           F == {Of(i) : i \in D}
           P == UNION F
           at == InOrder(P)
           r == [k \in DOMAIN at |-> aa[at[k][1]][at[k][2]]]
<1>1. Len(aa) \in Nat /\ D = 1..Len(aa) /\ \A i \in D : aa[i] \in Seq(S)
  OBVIOUS
<1>2. \A i \in D : /\ i \in Int /\ DOMAIN aa[i] \subseteq Int /\ IsFiniteSet(DOMAIN aa[i])
                   /\ \A j \in DOMAIN aa[i] : aa[i][j] \in S
  <2> SUFFICES ASSUME NEW i \in D
               PROVE  /\ i \in Int /\ DOMAIN aa[i] \subseteq Int /\ IsFiniteSet(DOMAIN aa[i])
                      /\ \A j \in DOMAIN aa[i] : aa[i][j] \in S
    OBVIOUS
  <2> HIDE DEF D
  <2>1. i \in Int /\ aa[i] \in Seq(S)
    BY <1>1
  <2>2. Len(aa[i]) \in Nat /\ DOMAIN aa[i] = 1..Len(aa[i]) /\ \A j \in DOMAIN aa[i] : aa[i][j] \in S
    BY <2>1
  <2>3. IsFiniteSet(DOMAIN aa[i])
    BY <2>2, FS_Interval
  <2> QED
    BY <2>1, <2>2, <2>3
<1>3. \A i \in D : IsFiniteSet(Of(i))
  <2> SUFFICES ASSUME NEW i \in D PROVE IsFiniteSet(Of(i))
    OBVIOUS
  <2> DEFINE h == [j \in DOMAIN aa[i] |-> <<i, j>>]
  <2>1. DOMAIN h = DOMAIN aa[i] /\ Of(i) = {h[j] : j \in DOMAIN aa[i]}
    OBVIOUS
  <2> HIDE DEF h, Of, D
  <2> QED
    BY <1>2, <2>1, FiniteImage
<1>4. \A p \in P : p \in Int \X Int /\ p[1] \in D /\ p[2] \in DOMAIN aa[p[1]]
  <2> SUFFICES ASSUME NEW i \in D, NEW j \in DOMAIN aa[i]
               PROVE  /\ <<i, j>> \in Int \X Int /\ <<i, j>>[1] \in D
                      /\ <<i, j>>[2] \in DOMAIN aa[<<i, j>>[1]]
    OBVIOUS
  <2> HIDE DEF D
  <2> QED
    BY <1>2
<1>5. IsFiniteSet(F)
  <2>1. DOMAIN g = D /\ F = {g[i] : i \in D}
    OBVIOUS
  <2>2. IsFiniteSet(D)
    BY <1>1, FS_Interval
  <2> HIDE DEF g, F, D
  <2> QED
    BY <2>1, <2>2, FiniteImage
<1>6. \A T \in F : IsFiniteSet(T)
  <2> HIDE DEF Of, D
  <2> QED
    BY <1>3
<1>7. IsFiniteSet(P)
  <2> HIDE DEF F
  <2> QED
    BY <1>5, <1>6, FS_UNION
<1> HIDE DEF P
<1>8. at \in Seq(P)
  BY <1>4, <1>7, InOrderLists
<1> HIDE DEF at, D
<1>9. \A k \in DOMAIN at : aa[at[k][1]][at[k][2]] \in S
  <2> SUFFICES ASSUME NEW k \in DOMAIN at PROVE aa[at[k][1]][at[k][2]] \in S
    OBVIOUS
  <2>1. PICK p \in P : p = at[k]
    BY <1>8
  <2> QED
    BY <1>2, <1>4, <2>1
<1>10. r \in [1..Len(at) -> S] /\ Len(at) \in Nat
  BY <1>8, <1>9
<1> HIDE DEF r
<1>11. r \in Seq(S)
  BY <1>10
<1>12. Flat(aa) = Array(r)
  BY DEF Flat, r, at, P, F, Of, D
<1> QED
  BY <1>11, <1>12, ArrayIs

LEMMA AscendingLists ==
  ASSUME NEW S, IsFiniteSet(S), S \subseteq Int
  PROVE  /\ Ascending(S) \in Seq(S)
         /\ \A n \in S : \E k \in DOMAIN Ascending(S) : Ascending(S)[k] = n
         /\ \A k, l \in DOMAIN Ascending(S) : k <= l => Ascending(S)[k] <= Ascending(S)[l]
<1> DEFINE f == [n \in S |-> <<0, n>>]
           P == {<<0, n>> : n \in S}
           at == InOrder(P)
           r == [k \in DOMAIN at |-> at[k][2]]
<1>1. IsFiniteSet(P)
  <2>1. DOMAIN f = S /\ P = {f[n] : n \in S}
    OBVIOUS
  <2> HIDE DEF f, P
  <2> QED
    BY <2>1, FiniteImage
<1>2. P \subseteq Int \X Int /\ \A n \in S : <<0, n>> \in P
  OBVIOUS
<1>3. \A p \in P : p[1] = 0 /\ p[2] \in S
  OBVIOUS
<1> HIDE DEF P
<1>4. at \in Seq(P) /\ IsListing(at, P)
  BY <1>1, <1>2, InOrderLists
<1> HIDE DEF at
<1>5. \A k \in DOMAIN at : at[k] \in P
  BY <1>4
<1>6. DOMAIN r = DOMAIN at /\ \A k \in DOMAIN r : r[k] = at[k][2]
  OBVIOUS
<1>7. r \in [1..Len(at) -> S] /\ Len(at) \in Nat
  BY <1>3, <1>4
<1> HIDE DEF r
<1>8. r \in Seq(S)
  BY <1>7
<1>9. \A n \in S : \E k \in DOMAIN r : r[k] = n
  <2> SUFFICES ASSUME NEW n \in S PROVE \E k \in DOMAIN r : r[k] = n
    OBVIOUS
  <2>1. PICK k \in DOMAIN at : at[k] = <<0, n>>
    BY <1>2, <1>4 DEF IsListing
  <2> QED
    BY <1>6, <2>1
<1>10. \A k, l \in DOMAIN r : k <= l => r[k] <= r[l]
  <2> SUFFICES ASSUME NEW k \in DOMAIN r, NEW l \in DOMAIN r, k <= l PROVE r[k] <= r[l]
    OBVIOUS
  <2>1. k \in DOMAIN at /\ l \in DOMAIN at /\ r[k] = at[k][2] /\ r[l] = at[l][2]
    BY <1>6
  <2>2. Before(at[k], at[l])
    BY <1>4, <2>1 DEF IsListing
  <2>3. at[k] \in P /\ at[l] \in P
    BY <1>5, <2>1
  <2>4. at[k][1] = 0 /\ at[l][1] = 0
    BY <1>3, <2>3
  <2> QED
    BY <2>1, <2>2, <2>4 DEF Before
<1>11. Ascending(S) = Array(r)
  BY DEF Ascending, r, at, P
<1>12. Ascending(S) = r
  BY <1>8, <1>11, ArrayIs
<1> QED
  BY <1>8, <1>9, <1>10, <1>12
=============================================================================
