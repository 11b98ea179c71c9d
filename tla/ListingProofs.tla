---------------------------- MODULE ListingProofs ----------------------------
(***************************************************************************)
(* What an ordering and a filter of a list return: a sequence, of exactly  *)
(* the rows there are, each once, and every one in its place.              *)
(***************************************************************************)
EXTENDS Listing, SequencesExt, FunctionTheorems, FiniteSetTheorems, TLAPS

\* A finite set in a strict total order, above[p] being what comes before p:
\* how many come before places each element, and fills every place.
LEMMA Ranks ==
  ASSUME NEW S, IsFiniteSet(S), NEW above \in [S -> SUBSET S],
         \A p \in S : p \notin above[p],
         \A p, q \in S : p # q => p \in above[q] \/ q \in above[p],
         \A p, q \in S : p \in above[q] => above[p] \subseteq above[q]
  PROVE  /\ Cardinality(S) \in Nat
         /\ \A p \in S : Cardinality(above[p]) \in 0..(Cardinality(S) - 1)
         /\ \A p, q \in S : p \in above[q] => Cardinality(above[p]) < Cardinality(above[q])
         /\ \A k \in 1..Cardinality(S) : \E p \in S : Cardinality(above[p]) = k - 1
<1> DEFINE n == Cardinality(S)
           rank == [p \in S |-> Cardinality(above[p])]
<1>1. n \in Nat
  BY FS_CardinalityType
<1>2. ASSUME NEW T, NEW U, IsFiniteSet(T), U \subseteq T, U # T
      PROVE  Cardinality(U) \in Nat /\ Cardinality(T) \in Nat /\ Cardinality(U) < Cardinality(T)
  BY <1>2, FS_Subset, FS_CardinalityType
<1>3. \A p \in S : IsFiniteSet(above[p])
  BY FS_Subset
<1>4. \A p \in S : Cardinality(above[p]) \in 0..(n - 1)
  <2> TAKE p \in S
  <2>1. above[p] \subseteq S /\ above[p] # S
    OBVIOUS
  <2> QED  BY <2>1, <1>2
<1>5. \A p, q \in S : p \in above[q] => Cardinality(above[p]) < Cardinality(above[q])
  <2> TAKE p, q \in S
  <2> HAVE p \in above[q]
  <2>1. above[p] \subseteq above[q] /\ above[p] # above[q]
    OBVIOUS
  <2> QED  BY <2>1, <1>2, <1>3
<1>6. rank \in Injection(S, 0..(n - 1))
  <2>1. rank \in [S -> 0..(n - 1)]
    BY <1>4
  <2>2. ASSUME NEW p \in S, NEW q \in S, rank[p] = rank[q]
        PROVE  p = q
    <3>1. Cardinality(above[p]) \in Int /\ Cardinality(above[q]) \in Int
      BY <1>4, <1>1
    <3> QED  BY <2>2, <1>5, <3>1
  <2> QED  BY <2>1, <2>2 DEF Injection, IsInjective
<1>7. IsFiniteSet(0..(n - 1)) /\ Cardinality(0..(n - 1)) = n
  BY <1>1, FS_Interval
<1>8. rank \in Surjection(S, 0..(n - 1))
  BY <1>6, <1>7, FS_Injection
<1>9. ASSUME NEW k \in 1..n
      PROVE  \E p \in S : Cardinality(above[p]) = k - 1
  <2>1. k - 1 \in 0..(n - 1)
    BY <1>1
  <2>2. PICK p \in S : rank[p] = k - 1
    BY <2>1, <1>8 DEF Surjection
  <2> QED  BY <2>2
<1> QED  BY <1>1, <1>4, <1>5, <1>9

\* The rows in the order newest first: those of the set, one place each,
\* the newest on top.
LEMMA NewestFirstOrders ==
  ASSUME NEW S \in SUBSET Nat, IsFiniteSet(S)
  PROVE  /\ NewestFirst(S) \in Seq(S)
         /\ Len(NewestFirst(S)) = Cardinality(S) /\ Cardinality(S) \in Nat
         /\ \A p \in S : \E k \in 1..Cardinality(S) : NewestFirst(S)[k] = p
         /\ \A j, k \in 1..Cardinality(S) : j < k => NewestFirst(S)[k] < NewestFirst(S)[j]
<1> DEFINE n == Cardinality(S)
           above == [p \in S |-> {q \in S : q > p}]
           row(k) == CHOOSE p \in S : Cardinality({q \in S : q > p}) = k - 1
<1>0. \A p \in S : p \in Int
  OBVIOUS
<1>1. /\ n \in Nat
      /\ \A p \in S : Cardinality(above[p]) \in 0..(n - 1)
      /\ \A p, q \in S : p \in above[q] => Cardinality(above[p]) < Cardinality(above[q])
      /\ \A k \in 1..n : \E p \in S : Cardinality(above[p]) = k - 1
  <2>1. above \in [S -> SUBSET S]
    OBVIOUS
  <2>2. \A p \in S : p \notin above[p]
    OBVIOUS
  <2>3. \A p, q \in S : p # q => p \in above[q] \/ q \in above[p]
    <3> TAKE p, q \in S
    <3>1. p \in Int /\ q \in Int
      BY <1>0
    <3> QED  BY <3>1
  <2>4. \A p, q \in S : p \in above[q] => above[p] \subseteq above[q]
    <3> TAKE p, q \in S
    <3> HAVE p \in above[q]
    <3> SUFFICES ASSUME NEW o \in above[p]  PROVE o \in above[q]
      OBVIOUS
    <3>1. p \in Int /\ q \in Int /\ o \in Int
      BY <1>0
    <3> QED  BY <3>1
  <2> HIDE DEF above
  <2> QED  BY <2>1, <2>2, <2>3, <2>4, Ranks
<1>2. \A p \in S : above[p] = {q \in S : q > p}
  OBVIOUS
<1>3. \A k \in 1..n : row(k) \in S /\ Cardinality(above[row(k)]) = k - 1
  BY <1>1, <1>2
<1>4. NewestFirst(S) = [k \in 1..n |-> row(k)]
  BY DEF NewestFirst
<1> HIDE DEF row, above, n
<1>4a. n \in Nat /\ \A p \in S : Cardinality(above[p]) \in 0..(n - 1)
  BY Zenon, <1>1
<1>5. NewestFirst(S) \in Seq(S) /\ Len(NewestFirst(S)) = n
  BY <1>1, <1>3, <1>4
<1>6. ASSUME NEW p \in S, NEW q \in S, Cardinality(above[p]) = Cardinality(above[q])
      PROVE  p = q
  <2>1. Cardinality(above[p]) \in Int /\ Cardinality(above[q]) \in Int
    BY ONLY <1>4a, <1>6
  <2>2. p \notin above[q] /\ q \notin above[p]
    BY <2>1, <1>1, <1>6
  <2>3. p \in Int /\ q \in Int
    BY <1>0
  <2> QED  BY <2>2, <2>3, <1>2
<1>7. ASSUME NEW p \in S
      PROVE  \E k \in 1..n : NewestFirst(S)[k] = p
  <2> DEFINE k == Cardinality(above[p]) + 1
  <2>1. k \in 1..n /\ k - 1 = Cardinality(above[p])
    BY <1>1
  <2> HIDE DEF k
  <2>2. row(k) = p
    BY <1>3, <1>6, <2>1
  <2> QED  BY <1>4, <2>1, <2>2
<1>8. ASSUME NEW j \in 1..n, NEW k \in 1..n, j < k
      PROVE  NewestFirst(S)[k] < NewestFirst(S)[j]
  <2>1. row(j) \in S /\ row(k) \in S
    BY <1>3
  <2>2. Cardinality(above[row(j)]) = j - 1 /\ Cardinality(above[row(k)]) = k - 1
    BY <1>3
  <2>3. ~(Cardinality(above[row(k)]) < Cardinality(above[row(j)]))
    BY <2>2, <1>1, <1>8
  <2>4. row(k) \notin above[row(j)] /\ row(k) # row(j)
    <3>1. row(k) \notin above[row(j)]
      BY <1>1, <2>1, <2>3
    <3>2. row(k) # row(j)
      BY <1>1, <1>8, <2>2
    <3> QED  BY <3>1, <3>2
  <2>5. row(j) \in Int /\ row(k) \in Int
    BY <1>0, <2>1
  <2> QED  BY <1>2, <1>4, <2>1, <2>4, <2>5
<1> QED  BY <1>1, <1>5, <1>7, <1>8 DEF n

\* Filtering keeps the rows that stay, in their order: place k of the result
\* is the k-th place kept.
LEMMA WithoutFilters ==
  ASSUME NEW T, NEW s \in Seq(T), NEW gone
  PROVE  /\ Without(s, gone) \in Seq(T)
         /\ \E at \in [DOMAIN Without(s, gone) -> Kept(s, gone)] :
              /\ \A k \in DOMAIN Without(s, gone) : Without(s, gone)[k] = s[at[k]]
              /\ \A i \in Kept(s, gone) : \E k \in DOMAIN Without(s, gone) : at[k] = i
              /\ \A j, k \in DOMAIN Without(s, gone) : j < k => at[j] < at[k]
<1> DEFINE K == Kept(s, gone)
           n == Cardinality(K)
           above == [i \in K |-> {j \in K : j < i}]
           place(k) == CHOOSE i \in K : Cardinality({j \in K : j < i}) = k - 1
<1>1. DOMAIN s = 1..Len(s) /\ Len(s) \in Nat /\ K \subseteq DOMAIN s
  BY DEF Kept
<1>2. IsFiniteSet(K)
  <2>1. IsFiniteSet(1..Len(s))
    BY <1>1, FS_Interval
  <2> QED  BY <1>1, <2>1, FS_Subset
<1>3. \A i \in K : i \in Int
  BY <1>1
<1>4. Without(s, gone) = [k \in 1..n |-> s[place(k)]]
  BY DEF Without
<1> HIDE DEF K
<1>5. /\ n \in Nat
      /\ \A i \in K : Cardinality(above[i]) \in 0..(n - 1)
      /\ \A i, j \in K : i \in above[j] => Cardinality(above[i]) < Cardinality(above[j])
      /\ \A k \in 1..n : \E i \in K : Cardinality(above[i]) = k - 1
  <2>1. above \in [K -> SUBSET K]
    OBVIOUS
  <2>2. \A p \in K : p \notin above[p]
    BY <1>3
  <2>3. \A p, q \in K : p # q => p \in above[q] \/ q \in above[p]
    <3> TAKE p, q \in K
    <3>1. p \in Int /\ q \in Int
      BY <1>3
    <3> QED  BY <3>1
  <2>4. \A p, q \in K : p \in above[q] => above[p] \subseteq above[q]
    <3> TAKE p, q \in K
    <3> HAVE p \in above[q]
    <3> SUFFICES ASSUME NEW o \in above[p]  PROVE o \in above[q]
      OBVIOUS
    <3>1. p \in Int /\ q \in Int /\ o \in Int
      BY <1>3
    <3> QED  BY <3>1
  <2> HIDE DEF above
  <2> QED  BY <1>2, <2>1, <2>2, <2>3, <2>4, Ranks
<1>6. \A i \in K : above[i] = {j \in K : j < i}
  OBVIOUS
<1>7. \A k \in 1..n : place(k) \in K /\ Cardinality(above[place(k)]) = k - 1
  BY <1>5, <1>6
<1> DEFINE at == [k \in 1..n |-> place(k)]
<1>8. at \in [1..n -> K] /\ \A k \in 1..n : at[k] = place(k)
  BY <1>7
<1> HIDE DEF place, above, at
<1>9. Without(s, gone) \in Seq(T) /\ DOMAIN Without(s, gone) = 1..n
  <2>1. \A k \in 1..n : s[place(k)] \in T
    BY <1>1, <1>7
  <2> QED  BY <1>4, <1>5, <2>1
<1>10. \A k \in 1..n : Without(s, gone)[k] = s[at[k]]
  BY <1>4, <1>8
<1>11. ASSUME NEW i \in K, NEW j \in K, Cardinality(above[i]) = Cardinality(above[j])
       PROVE  i = j
  <2>1. Cardinality(above[i]) \in Int /\ Cardinality(above[j]) \in Int
    BY <1>5
  <2>2. i \notin above[j] /\ j \notin above[i]
    BY <2>1, <1>5, <1>11
  <2>3. i \in Int /\ j \in Int
    BY <1>3
  <2> QED  BY <1>6, <2>2, <2>3
<1>12. ASSUME NEW i \in K
       PROVE  \E k \in 1..n : at[k] = i
  <2> DEFINE k == Cardinality(above[i]) + 1
  <2>1. k \in 1..n /\ k - 1 = Cardinality(above[i])
    BY <1>5
  <2> HIDE DEF k
  <2>2. place(k) = i
    BY <1>7, <1>11, <2>1
  <2> QED  BY <1>8, <2>1, <2>2
<1>13. ASSUME NEW j \in 1..n, NEW k \in 1..n, j < k
       PROVE  at[j] < at[k]
  <2>1. at[j] \in K /\ at[k] \in K
    BY <1>8
  <2>2. Cardinality(above[at[j]]) = j - 1 /\ Cardinality(above[at[k]]) = k - 1
    BY <1>7, <1>8
  <2>3. ~(Cardinality(above[at[k]]) < Cardinality(above[at[j]]))
    BY <2>2, <1>5, <1>13
  <2>4. at[k] \notin above[at[j]]
    BY <1>5, <2>1, <2>3
  <2>5. at[k] # at[j]
    BY <1>5, <1>13, <2>2
  <2>6. at[j] \in Int /\ at[k] \in Int
    BY <1>3, <2>1
  <2> QED  BY <1>6, <2>1, <2>4, <2>5, <2>6
<1> QED  BY <1>8, <1>9, <1>10, <1>12, <1>13 DEF K

----------------------------------------------------------------------------
\* A page newest first is a list of its rows, each once.
LEMMA NewestFirstRows ==
  ASSUME NEW S \in SUBSET Nat, IsFiniteSet(S)
  PROVE  /\ NewestFirst(S) \in Seq(S)
         /\ ToSet(NewestFirst(S)) = S
         /\ IsInjective(NewestFirst(S))
<1> DEFINE s == NewestFirst(S)
<1>1. /\ s \in Seq(S) /\ Len(s) = Cardinality(S) /\ Cardinality(S) \in Nat
      /\ \A p \in S : \E k \in 1..Cardinality(S) : s[k] = p
      /\ \A j, k \in 1..Cardinality(S) : j < k => s[k] < s[j]
  BY NewestFirstOrders
<1> HIDE DEF s
<1>2. DOMAIN s = 1..Cardinality(S) /\ \A k \in DOMAIN s : s[k] \in S
  BY <1>1
<1>3. ToSet(s) = S
  BY <1>1, <1>2 DEF ToSet
<1>4. IsInjective(s)
  <2>1. \A p \in S : p \in Int
    OBVIOUS
  <2>2. \A k \in DOMAIN s : s[k] \in Int
    BY <1>2, <2>1
  <2>3. ASSUME NEW j \in DOMAIN s, NEW k \in DOMAIN s, s[j] = s[k]  PROVE j = k
    <3>1. ~(j < k) /\ ~(k < j)
      BY <1>1, <1>2, <2>2, <2>3
    <3>2. j \in Int /\ k \in Int
      BY <1>1, <1>2
    <3> QED  BY <3>1, <3>2
  <2> QED  BY <2>3 DEF IsInjective
<1> QED  BY <1>1, <1>3, <1>4 DEF s

\* A filter leaves the rows that stay, and none twice that was there once.
LEMMA WithoutRows ==
  ASSUME NEW T, NEW s \in Seq(T), NEW gone
  PROVE  /\ Without(s, gone) \in Seq(T)
         /\ ToSet(Without(s, gone)) = ToSet(s) \ gone
         /\ IsInjective(s) => IsInjective(Without(s, gone))
<1> DEFINE w == Without(s, gone)
<1>1. w \in Seq(T)
  BY WithoutFilters
<1>2. PICK at \in [DOMAIN w -> Kept(s, gone)] :
        /\ \A k \in DOMAIN w : w[k] = s[at[k]]
        /\ \A i \in Kept(s, gone) : \E k \in DOMAIN w : at[k] = i
        /\ \A j, k \in DOMAIN w : j < k => at[j] < at[k]
  BY WithoutFilters
<1> HIDE DEF w
<1>3. ToSet(w) = ToSet(s) \ gone
  BY <1>2 DEF ToSet, Kept
<1>4. ASSUME IsInjective(s)  PROVE IsInjective(w)
  <2> SUFFICES ASSUME NEW j \in DOMAIN w, NEW k \in DOMAIN w, w[j] = w[k]  PROVE j = k
    BY DEF IsInjective
  <2>1. at[j] = at[k]
    BY <1>2, <1>4 DEF IsInjective, Kept
  <2>2. j \in Int /\ k \in Int /\ at[j] \in Int
    BY <1>1, <1>2 DEF Kept
  <2> QED  BY <1>2, <2>1, <2>2
<1> QED  BY <1>1, <1>3, <1>4 DEF w

\* Rows put behind others: those of both, and each once when the two share none.
LEMMA ConcatRows ==
  ASSUME NEW T, NEW s \in Seq(T), NEW t \in Seq(T)
  PROVE  /\ s \o t \in Seq(T)
         /\ ToSet(s \o t) = ToSet(s) \cup ToSet(t)
         /\ IsInjective(s) /\ IsInjective(t) /\ ToSet(s) \cap ToSet(t) = {} => IsInjective(s \o t)
<1> DEFINE c == s \o t
<1>1. /\ c \in Seq(T) /\ DOMAIN c = 1..(Len(s) + Len(t))
      /\ DOMAIN s = 1..Len(s) /\ DOMAIN t = 1..Len(t) /\ Len(s) \in Nat /\ Len(t) \in Nat
      /\ \A i \in 1..Len(s) : c[i] = s[i]
      /\ \A i \in (Len(s) + 1)..(Len(s) + Len(t)) : c[i] = t[i - Len(s)]
  OBVIOUS
<1> HIDE DEF c
<1>2. ASSUME NEW i \in DOMAIN c
      PROVE  \/ i \in DOMAIN s /\ c[i] = s[i]
             \/ i - Len(s) \in DOMAIN t /\ c[i] = t[i - Len(s)]
  BY <1>1
<1>3. ASSUME NEW i \in DOMAIN t
      PROVE  i + Len(s) \in DOMAIN c /\ c[i + Len(s)] = t[i]
  BY <1>1
<1>4. ToSet(c) = ToSet(s) \cup ToSet(t)
  <2>1. ASSUME NEW x \in ToSet(c)  PROVE x \in ToSet(s) \cup ToSet(t)
    BY <1>2, <2>1 DEF ToSet
  <2>2. ASSUME NEW x \in ToSet(s)  PROVE x \in ToSet(c)
    BY <1>1, <2>2 DEF ToSet
  <2>3. ASSUME NEW x \in ToSet(t)  PROVE x \in ToSet(c)
    BY <1>3, <2>3 DEF ToSet
  <2> QED  BY <2>1, <2>2, <2>3
<1>5. ASSUME IsInjective(s), IsInjective(t), ToSet(s) \cap ToSet(t) = {}
      PROVE  IsInjective(c)
  <2> SUFFICES ASSUME NEW i \in DOMAIN c, NEW j \in DOMAIN c, c[i] = c[j]  PROVE i = j
    BY DEF IsInjective
  <2>1. \A a \in DOMAIN s, b \in DOMAIN t : s[a] # t[b]
    BY <1>5 DEF ToSet
  <2>2. i \in Int /\ j \in Int
    BY <1>1
  <2>3. \/ i \in DOMAIN s /\ j \in DOMAIN s /\ s[i] = s[j]
        \/ i - Len(s) \in DOMAIN t /\ j - Len(s) \in DOMAIN t /\ t[i - Len(s)] = t[j - Len(s)]
    BY <1>2, <2>1
  <2>4. CASE i \in DOMAIN s /\ j \in DOMAIN s /\ s[i] = s[j]
    BY <2>4, <1>5 DEF IsInjective
  <2>5. CASE i - Len(s) \in DOMAIN t /\ j - Len(s) \in DOMAIN t /\ t[i - Len(s)] = t[j - Len(s)]
    <3>1. i - Len(s) = j - Len(s)
      BY <2>5, <1>5 DEF IsInjective
    <3> QED  BY <3>1, <2>2, <1>1
  <2> QED  BY <2>3, <2>4, <2>5
<1> QED  BY <1>1, <1>4, <1>5 DEF c

\* A set of naturals that is finite and has a member has a least one.
LEMMA LeastOfFinite ==
  ASSUME NEW S \in SUBSET Nat, IsFiniteSet(S), S # {}
  PROVE  Min(S) \in S /\ \A p \in S : Min(S) <= p
<1> DEFINE s == NewestFirst(S)
           n == Cardinality(S)
<1>0. \A p \in S : p \in Int
  OBVIOUS
<1>1. /\ s \in Seq(S) /\ Len(s) = n /\ n \in Nat
      /\ \A p \in S : \E k \in 1..n : s[k] = p
      /\ \A j, k \in 1..n : j < k => s[k] < s[j]
  BY NewestFirstOrders
<1>2. n # 0
  BY FS_EmptySet
<1> HIDE DEF s, n
<1>3. n \in 1..n
  BY <1>1, <1>2
<1>4. s[n] \in S
  BY <1>1, <1>3
<1>5. \A p \in S : s[n] <= p
  <2> TAKE p \in S
  <2>1. PICK k \in 1..n : s[k] = p
    BY <1>1
  <2>2. k = n \/ k < n
    BY <1>1
  <2>3. s[n] \in Int /\ p \in Int
    BY <1>0, <1>4
  <2> QED  BY <2>1, <2>2, <2>3, <1>1, <1>3
<1> QED  BY <1>4, <1>5 DEF Min

\* ... and a greatest.
LEMMA GreatestOfFinite ==
  ASSUME NEW S \in SUBSET Nat, IsFiniteSet(S), S # {}
  PROVE  \E p \in S : \A q \in S : q <= p
<1> DEFINE s == NewestFirst(S)
           n == Cardinality(S)
<1>0. \A p \in S : p \in Int
  OBVIOUS
<1>1. /\ s \in Seq(S) /\ Len(s) = n /\ n \in Nat
      /\ \A p \in S : \E k \in 1..n : s[k] = p
      /\ \A j, k \in 1..n : j < k => s[k] < s[j]
  BY NewestFirstOrders
<1>2. n # 0
  BY FS_EmptySet
<1> HIDE DEF s, n
<1>3. 1 \in 1..n
  BY <1>1, <1>2
<1>4. s[1] \in S
  BY <1>1, <1>3
<1>5. \A p \in S : p <= s[1]
  <2> TAKE p \in S
  <2>1. PICK k \in 1..n : s[k] = p
    BY <1>1
  <2>2. k = 1 \/ 1 < k
    BY <1>1
  <2>3. s[1] \in Int /\ p \in Int
    BY <1>0, <1>4
  <2> QED  BY <2>1, <2>2, <2>3, <1>1, <1>3
<1> QED  BY <1>4, <1>5
=============================================================================
