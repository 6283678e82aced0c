---------------------------- MODULE QueryProofs ----------------------------
(***************************************************************************)
(* Proofs of what the queries show, for every chain and content.           *)
(***************************************************************************)
EXTENDS IndexProofs, ApiProperties, FiniteSetTheorems

-----------------------------------------------------------------------------
\* Finite sets, their parts and their sizes.

\* A part of a finite set is finite and no larger, and smaller unless it is all of it.
LEMMA PartSize ==
  ASSUME NEW S, NEW T, IsFiniteSet(S), T \subseteq S
  PROVE  /\ IsFiniteSet(T) /\ Cardinality(T) \in Nat /\ Cardinality(S) \in Nat
         /\ Cardinality(T) <= Cardinality(S)
         /\ T # S => Cardinality(T) < Cardinality(S)
<1>1. T \in SUBSET S
  OBVIOUS
<1>2. IsFiniteSet(T) /\ Cardinality(T) <= Cardinality(S) /\ (Cardinality(S) = Cardinality(T) => S = T)
  BY <1>1, FS_Subset
<1>3. Cardinality(T) \in Nat /\ Cardinality(S) \in Nat
  BY <1>2, FS_CardinalityType
<1> QED
  BY <1>2, <1>3

\* The first n positions.
LEMMA Positions ==
  ASSUME NEW n \in Nat
  PROVE  IsFiniteSet(1 .. n) /\ Cardinality(1 .. n) = n
BY FS_Interval

-----------------------------------------------------------------------------
\* Sorting.  An order on the positions of a sequence is a set of pairs.

\* B is a strict total order on the positions.
Linear(n, B) ==
  /\ \A i, j \in 1 .. n : <<i, j>> \in B => <<j, i>> \notin B
  /\ \A i, j \in 1 .. n : i # j => <<i, j>> \in B \/ <<j, i>> \in B
  /\ \A i, j, k \in 1 .. n : <<i, j>> \in B /\ <<j, k>> \in B => <<i, k>> \in B

Rank(n, B, i) == 1 + Cardinality({j \in 1 .. n : <<j, i>> \in B})

\* The positions before the i-th.
LEMMA RankRange ==
  ASSUME NEW n \in Nat, NEW B, Linear(n, B), NEW i \in 1 .. n
  PROVE  /\ IsFiniteSet({j \in 1 .. n : <<j, i>> \in B})
         /\ Cardinality({j \in 1 .. n : <<j, i>> \in B}) \in Nat
         /\ Rank(n, B, i) \in 1 .. n
<1> DEFINE S == {j \in 1 .. n : <<j, i>> \in B}
           D == (1 .. n) \ {i}
<1>1. S \subseteq D
  BY DEF Linear
<1>2. IsFiniteSet(D) /\ Cardinality(D) = n - 1
  BY Positions, FS_RemoveElement
<1> HIDE DEF S, D
<1>4. IsFiniteSet(S) /\ Cardinality(S) \in Nat /\ Cardinality(S) <= n - 1
  BY <1>1, <1>2, PartSize
<1>6. Rank(n, B, i) = 1 + Cardinality(S)
  BY DEF Rank, S
<1> QED
  BY <1>4, <1>6 DEF S

\* A position that comes before another has fewer before it.
LEMMA RankOrder ==
  ASSUME NEW n \in Nat, NEW B, Linear(n, B), NEW i \in 1 .. n, NEW j \in 1 .. n, <<i, j>> \in B
  PROVE  Rank(n, B, i) < Rank(n, B, j)
<1> DEFINE S == {k \in 1 .. n : <<k, i>> \in B}
           T == {k \in 1 .. n : <<k, j>> \in B}
<1>1. S \subseteq T /\ i \in T /\ i \notin S
  BY DEF Linear
<1>2. IsFiniteSet(T)
  BY RankRange
<1>3. Rank(n, B, i) = 1 + Cardinality(S) /\ Rank(n, B, j) = 1 + Cardinality(T)
  BY DEF Rank
<1> HIDE DEF S, T
<1>4. Cardinality(S) \in Nat /\ Cardinality(T) \in Nat /\ Cardinality(S) < Cardinality(T)
  BY <1>1, <1>2, PartSize
<1> QED
  BY <1>3, <1>4

\* An injection of a finite set into itself is a bijection.
LEMMA Permutes ==
  ASSUME NEW S, NEW f, IsFiniteSet(S), f \in [S -> S],
         \A x, y \in S : f[x] = f[y] => x = y
  PROVE  \A y \in S : \E x \in S : f[x] = y
<1>1. f \in Injection(S, S)
  BY DEF Injection, IsInjective
<1>2. f \in Surjection(S, S)
  BY <1>1, FS_Injection
<1> QED
  BY <1>2 DEF Surjection

\* Every position has its rank, and every rank its position.
LEMMA RankPosition ==
  ASSUME NEW n \in Nat, NEW B, Linear(n, B)
  PROVE  /\ \A i, j \in 1 .. n : Rank(n, B, i) = Rank(n, B, j) => i = j
         /\ \A k \in 1 .. n : \E i \in 1 .. n : Rank(n, B, i) = k
<1> DEFINE f == [i \in 1 .. n |-> Rank(n, B, i)]
<1>1. \A i \in 1 .. n : Rank(n, B, i) \in 1 .. n
  BY RankRange
<1>2. f \in [1 .. n -> 1 .. n]
  BY <1>1
<1>3. ASSUME NEW i \in 1 .. n, NEW j \in 1 .. n, Rank(n, B, i) = Rank(n, B, j)
      PROVE  i = j
  <2> SUFFICES ASSUME i # j
               PROVE  FALSE
    OBVIOUS
  <2>1. <<i, j>> \in B \/ <<j, i>> \in B
    BY DEF Linear
  <2>2. Rank(n, B, i) \in 1 .. n /\ Rank(n, B, j) \in 1 .. n
    BY <1>1
  <2>3. Rank(n, B, i) < Rank(n, B, j) \/ Rank(n, B, j) < Rank(n, B, i)
    BY <2>1, RankOrder
  <2> QED
    BY <1>3, <2>2, <2>3
<1>4. \A i, j \in 1 .. n : f[i] = f[j] => i = j
  BY <1>3
<1>5. \A i \in 1 .. n : f[i] = Rank(n, B, i)
  OBVIOUS
<1> HIDE DEF f
<1>6. \A k \in 1 .. n : \E i \in 1 .. n : f[i] = k
  <2> DEFINE D == 1 .. n
  <2>1. IsFiniteSet(D) /\ f \in [D -> D] /\ \A i, j \in D : f[i] = f[j] => i = j
    BY <1>2, <1>4, Positions
  <2> HIDE DEF D
  <2>2. \A k \in D : \E i \in D : f[i] = k
    BY <2>1, Permutes
  <2> QED
    BY <2>2 DEF D
<1> QED
  BY <1>3, <1>5, <1>6

\* An order in which elements may be equal: L has the pairs of positions of which the
\* first must come before the second.
Weak(n, L) ==
  /\ \A i, j \in 1 .. n : <<i, j>> \in L => <<j, i>> \notin L
  /\ \A i, j, k \in 1 .. n : <<i, k>> \in L => <<i, j>> \in L \/ <<j, k>> \in L

\* The stable order: equal elements keep their order.
Stable(n, L) ==
  {p \in (1 .. n) \X (1 .. n) : \/ <<p[1], p[2]>> \in L
                                \/ <<p[2], p[1]>> \notin L /\ p[1] < p[2]}

\* It is a total order.
LEMMA StableLinear ==
  ASSUME NEW n \in Nat, NEW L, Weak(n, L)
  PROVE  Linear(n, Stable(n, L))
<1>1. \A i, j \in 1 .. n : <<i, j>> \in Stable(n, L) <=> <<i, j>> \in L \/ (<<j, i>> \notin L /\ i < j)
  BY DEF Stable
<1>2. ASSUME NEW i \in 1 .. n, NEW j \in 1 .. n, <<i, j>> \in Stable(n, L)
      PROVE  <<j, i>> \notin Stable(n, L)
  BY <1>1, <1>2 DEF Weak
<1>3. ASSUME NEW i \in 1 .. n, NEW j \in 1 .. n, i # j
      PROVE  <<i, j>> \in Stable(n, L) \/ <<j, i>> \in Stable(n, L)
  BY <1>1, <1>3 DEF Weak
<1>4. ASSUME NEW i \in 1 .. n, NEW j \in 1 .. n, NEW k \in 1 .. n,
             <<i, j>> \in Stable(n, L), <<j, k>> \in Stable(n, L)
      PROVE  <<i, k>> \in Stable(n, L)
  <2>1. /\ <<i, j>> \in L \/ (<<j, i>> \notin L /\ i < j)
        /\ <<j, k>> \in L \/ (<<k, j>> \notin L /\ j < k)
        /\ <<i, k>> \in Stable(n, L) <=> <<i, k>> \in L \/ (<<k, i>> \notin L /\ i < k)
    BY <1>1, <1>4
  <2>2. /\ <<i, j>> \in L => <<i, k>> \in L \/ <<k, j>> \in L
        /\ <<j, k>> \in L => <<j, i>> \in L \/ <<i, k>> \in L
        /\ <<k, i>> \in L => <<k, j>> \in L \/ <<j, i>> \in L
        /\ <<i, j>> \in L => <<j, i>> \notin L
        /\ <<j, k>> \in L => <<k, j>> \notin L
        /\ <<i, k>> \in L => <<k, i>> \notin L
    BY DEF Weak
  <2> QED
    BY <2>1, <2>2
<1> QED
  BY <1>2, <1>3, <1>4 DEF Linear

Ranks(n, L) == [i \in 1 .. n |-> Rank(n, Stable(n, L), i)]

\* A sequence that has each element of the set once.
Lists(S) ==
  {t \in [1 .. Cardinality(S) -> S] :
     /\ \A i, j \in DOMAIN t : t[i] = t[j] => i = j
     /\ \A x \in S : \E i \in DOMAIN t : t[i] = x}

\* What that says.
LEMMA InLists ==
  ASSUME NEW S, NEW t, t \in Lists(S)
  PROVE  /\ DOMAIN t = 1 .. Cardinality(S)
         /\ \A i \in DOMAIN t : t[i] \in S
         /\ \A i, j \in DOMAIN t : t[i] = t[j] => i = j
         /\ \A x \in S : \E i \in DOMAIN t : t[i] = x
BY DEF Lists

\* What a stable sort makes of the positions: a permutation that respects the order.
LEMMA Arrange ==
  ASSUME NEW n \in Nat, NEW L, Weak(n, L)
  PROVE  LET p == [k \in 1 .. n |-> CHOOSE i \in 1 .. n : Ranks(n, L)[i] = k]
         IN  /\ p \in [1 .. n -> 1 .. n]
             /\ \A j, k \in 1 .. n : p[j] = p[k] => j = k
             /\ \A i \in 1 .. n : \E k \in 1 .. n : p[k] = i
             /\ \A j, k \in 1 .. n : j < k => <<p[k], p[j]>> \notin L
<1> DEFINE B == Stable(n, L)
           p == [k \in 1 .. n |-> CHOOSE i \in 1 .. n : Ranks(n, L)[i] = k]
<1>1. Linear(n, B)
  BY StableLinear
<1>2. \A i, j \in 1 .. n : <<i, j>> \in L => <<i, j>> \in B
  BY DEF Stable
<1> HIDE DEF B
<1>3. /\ \A i, j \in 1 .. n : Rank(n, B, i) = Rank(n, B, j) => i = j
      /\ \A k \in 1 .. n : \E i \in 1 .. n : Rank(n, B, i) = k
  BY <1>1, RankPosition
<1>4. \A i \in 1 .. n : Ranks(n, L)[i] = Rank(n, B, i)
  BY DEF Ranks, B
<1>5. /\ p \in [1 .. n -> 1 .. n]
      /\ \A k \in 1 .. n : p[k] \in 1 .. n /\ Rank(n, B, p[k]) = k
  BY <1>3, <1>4
<1> HIDE DEF p
<1>6. \A j, k \in 1 .. n : p[j] = p[k] => j = k
  BY <1>5
<1>7. ASSUME NEW i \in 1 .. n
      PROVE  \E k \in 1 .. n : p[k] = i
  <2>1. Rank(n, B, i) \in 1 .. n
    BY <1>1, RankRange
  <2>2. Rank(n, B, p[Rank(n, B, i)]) = Rank(n, B, i) /\ p[Rank(n, B, i)] \in 1 .. n
    BY <1>5, <2>1
  <2>3. p[Rank(n, B, i)] = i
    BY <1>3, <2>2
  <2> QED
    BY <2>1, <2>3
<1>8. ASSUME NEW j \in 1 .. n, NEW k \in 1 .. n, j < k, <<p[k], p[j]>> \in L
      PROVE  FALSE
  <2>1. <<p[k], p[j]>> \in B /\ p[k] \in 1 .. n /\ p[j] \in 1 .. n
    BY <1>2, <1>5, <1>8
  <2>2. Rank(n, B, p[k]) < Rank(n, B, p[j])
    BY <1>1, <2>1, RankOrder
  <2> QED
    BY <1>5, <1>8, <2>2
<1> QED
  BY <1>5, <1>6, <1>7, <1>8 DEF p

\* StableSort, for the ranks of the positions: t is s sorted.
IsSort(D, rank, t, s) == t = [k \in D |-> s[CHOOSE i \in D : rank[i] = k]]

\* Sorting a list of a set gives a list of it, in order.
LEMMA SortLists ==
  ASSUME NEW S, NEW s, NEW t, NEW L, IsFiniteSet(S), s \in Lists(S),
         Weak(Cardinality(S), L),
         IsSort(1 .. Cardinality(S), Ranks(Cardinality(S), L), t, s)
  PROVE  /\ t \in Lists(S)
         /\ \A j, k \in 1 .. Cardinality(S) : j < k =>
              \E x, y \in 1 .. Cardinality(S) : s[x] = t[j] /\ s[y] = t[k] /\ <<y, x>> \notin L
<1> DEFINE n == Cardinality(S)
           p == [k \in 1 .. n |-> CHOOSE i \in 1 .. n : Ranks(n, L)[i] = k]
<1>1. n \in Nat
  BY FS_CardinalityType
<1>2. /\ s \in [1 .. n -> S]
      /\ \A i, j \in 1 .. n : s[i] = s[j] => i = j
      /\ \A x \in S : \E i \in 1 .. n : s[i] = x
  BY DEF Lists
<1>3. t = [k \in 1 .. n |-> s[p[k]]]
  BY DEF IsSort
<1> HIDE DEF n
<1>4. /\ p \in [1 .. n -> 1 .. n]
      /\ \A j, k \in 1 .. n : p[j] = p[k] => j = k
      /\ \A i \in 1 .. n : \E k \in 1 .. n : p[k] = i
      /\ \A j, k \in 1 .. n : j < k => <<p[k], p[j]>> \notin L
  BY <1>1, Arrange DEF n
<1> HIDE DEF p
<1>5. /\ t \in [1 .. n -> S] /\ DOMAIN t = 1 .. n
      /\ \A i \in 1 .. n : p[i] \in 1 .. n /\ t[i] = s[p[i]]
  BY <1>2, <1>3, <1>4
<1>6. \A i, j \in 1 .. n : t[i] = t[j] => i = j
  BY <1>2, <1>4, <1>5
<1>7. \A x \in S : \E i \in 1 .. n : t[i] = x
  BY <1>2, <1>4, <1>5
<1>8. t \in Lists(S)
  BY <1>5, <1>6, <1>7 DEF Lists, n
<1>9. ASSUME NEW j \in 1 .. n, NEW k \in 1 .. n, j < k
      PROVE  \E x, y \in 1 .. n : s[x] = t[j] /\ s[y] = t[k] /\ <<y, x>> \notin L
  <2>1. p[j] \in 1 .. n /\ p[k] \in 1 .. n /\ s[p[j]] = t[j] /\ s[p[k]] = t[k]
    BY <1>5
  <2>2. <<p[k], p[j]>> \notin L
    BY <1>4, <1>9
  <2> QED
    BY <2>1, <2>2, Zenon
<1> QED
  BY <1>8, <1>9 DEF n

\* SetToSeqs and SetToSeq list a finite set.
LEMMA ListsOf ==
  ASSUME NEW S, IsFiniteSet(S)
  PROVE  /\ SetToSeqs(S) = Lists(S)
         /\ SetToSeq(S) \in Lists(S)
<1> DEFINE n == Cardinality(S)
<1>1. n \in Nat /\ ExistsBijection(1 .. n, S)
  BY FS_CardinalityType
<1>2. ASSUME NEW f \in [1 .. n -> S], \A i, j \in 1 .. n : f[i] = f[j] => i = j
      PROVE  \A x \in S : \E i \in 1 .. n : f[i] = x
  <2> DEFINE D == 1 .. n
  <2>1. IsFiniteSet(D) /\ Cardinality(D) = Cardinality(S)
    BY <1>1, Positions
  <2>2. f \in Injection(D, S)
    BY <1>2 DEF Injection, IsInjective
  <2> HIDE DEF D
  <2>3. f \in Surjection(D, S)
    BY <2>1, <2>2, FS_Injection
  <2> QED
    BY <2>3 DEF Surjection, D
<1>3. SetToSeqs(S) = Lists(S)
  BY <1>2 DEF SetToSeqs, Lists
<1>4. PICK b : b \in Bijection(1 .. n, S)
  BY <1>1 DEF ExistsBijection
<1>5. b \in [1 .. n -> S] /\ IsInjective(b)
  BY <1>4 DEF Bijection, Injection, IsInjective
<1>6. SetToSeq(S) \in [1 .. n -> S] /\ IsInjective(SetToSeq(S))
  BY <1>5 DEF SetToSeq
<1>7. \A i, j \in 1 .. n : SetToSeq(S)[i] = SetToSeq(S)[j] => i = j
  BY <1>6 DEF IsInjective
<1>8. SetToSeq(S) \in Lists(S)
  BY <1>2, <1>6, <1>7 DEF Lists
<1> QED
  BY <1>3, <1>8

\* The elements have a position in the chain.
Placed(S) == \A x \in S : x.height \in Nat /\ x.tx \in Nat /\ x.vout \in Nat

\* Canonical order, with equal positions.
LEMMA LaterWeak ==
  ASSUME NEW x, NEW y, NEW z, Placed({x, y, z})
  PROVE  /\ LaterThan(x, y) => ~LaterThan(y, x)
         /\ LaterThan(x, z) => LaterThan(x, y) \/ LaterThan(y, z)
<1>1. /\ x.height \in Nat /\ x.tx \in Nat /\ x.vout \in Nat
      /\ y.height \in Nat /\ y.tx \in Nat /\ y.vout \in Nat
      /\ z.height \in Nat /\ z.tx \in Nat /\ z.vout \in Nat
  BY DEF Placed
<1> QED
  BY <1>1 DEF LaterThan

\* sortByNewest: the list of a set, newest first.
LEMMA NewestFirst ==
  ASSUME NEW S, NEW s, IsFiniteSet(S), Placed(S), s \in Lists(S)
  PROVE  /\ SortByNewest(s) \in Lists(S)
         /\ \A j, k \in 1 .. Cardinality(S) : j < k =>
              ~LaterThan(SortByNewest(s)[k], SortByNewest(s)[j])
<1> DEFINE n == Cardinality(S)
           L == {p \in (1 .. n) \X (1 .. n) : LaterThan(s[p[1]], s[p[2]])}
           B == Stable(n, L)
           R == [i \in DOMAIN s |->
                   1 + Cardinality({j \in DOMAIN s : LaterThan(s[j], s[i]) \/ (~LaterThan(s[i], s[j]) /\ j < i)})]
           t == SortByNewest(s)
<1>1. n \in Nat /\ DOMAIN s = 1 .. n /\ \A i \in 1 .. n : s[i] \in S
  BY FS_CardinalityType DEF Lists
<1> HIDE DEF n
<1>2. \A i, j \in 1 .. n : <<i, j>> \in L <=> LaterThan(s[i], s[j])
  OBVIOUS
<1>3. Weak(n, L)
  <2>1. \A i, j, k \in 1 .. n : Placed({s[i], s[j], s[k]})
    BY <1>1 DEF Placed
  <2> HIDE DEF L
  <2>2. \A i, j, k \in 1 .. n :
          /\ LaterThan(s[i], s[j]) => ~LaterThan(s[j], s[i])
          /\ LaterThan(s[i], s[k]) => LaterThan(s[i], s[j]) \/ LaterThan(s[j], s[k])
    BY <2>1, LaterWeak
  <2> QED
    BY <1>2, <2>2 DEF Weak
<1>4. \A i, j \in 1 .. n : <<j, i>> \in B <=> LaterThan(s[j], s[i]) \/ (~LaterThan(s[i], s[j]) /\ j < i)
  <2> HIDE DEF L
  <2> QED
    BY <1>2 DEF Stable
<1> HIDE DEF L, B
<1>5. \A i \in 1 .. n :
        {j \in DOMAIN s : LaterThan(s[j], s[i]) \/ (~LaterThan(s[i], s[j]) /\ j < i)}
          = {j \in 1 .. n : <<j, i>> \in B}
  BY <1>1, <1>4
<1>6. R = Ranks(n, L)
  BY <1>1, <1>5 DEF Ranks, Rank, B
<1>7. IsSort(DOMAIN s, R, t, s)
  BY DEF SortByNewest, StableSort, IsSort
<1> HIDE DEF R, t
<1>8. IsSort(1 .. n, Ranks(n, L), t, s)
  BY <1>1, <1>6, <1>7
<1>9. /\ t \in Lists(S)
      /\ \A j, k \in 1 .. n : j < k =>
           \E x, y \in 1 .. n : s[x] = t[j] /\ s[y] = t[k] /\ <<y, x>> \notin L
  BY <1>3, <1>8, SortLists DEF n
<1>10. \A j, k \in 1 .. n : j < k => ~LaterThan(t[k], t[j])
  BY <1>2, <1>9
<1> QED
  BY <1>9, <1>10 DEF t, n
\* The order of Thread.
SortByOldest(s) == StableSort(s, LAMBDA c, d : LaterThan(d, c))

\* ORDER BY of Thread: the list of a set, oldest first.
LEMMA OldestFirst ==
  ASSUME NEW S, NEW s, IsFiniteSet(S), Placed(S), s \in Lists(S)
  PROVE  /\ SortByOldest(s) \in Lists(S)
         /\ \A j, k \in 1 .. Cardinality(S) : j < k =>
              ~LaterThan(SortByOldest(s)[j], SortByOldest(s)[k])
<1> DEFINE n == Cardinality(S)
           L == {p \in (1 .. n) \X (1 .. n) : LaterThan(s[p[2]], s[p[1]])}
           B == Stable(n, L)
           R == [i \in DOMAIN s |->
                   1 + Cardinality({j \in DOMAIN s : LaterThan(s[i], s[j]) \/ (~LaterThan(s[j], s[i]) /\ j < i)})]
           t == SortByOldest(s)
<1>1. n \in Nat /\ DOMAIN s = 1 .. n /\ \A i \in 1 .. n : s[i] \in S
  BY FS_CardinalityType DEF Lists
<1> HIDE DEF n
<1>2. \A i, j \in 1 .. n : <<i, j>> \in L <=> LaterThan(s[j], s[i])
  OBVIOUS
<1>3. Weak(n, L)
  <2>1. \A i, j, k \in 1 .. n : Placed({s[i], s[j], s[k]})
    BY <1>1 DEF Placed
  <2> HIDE DEF L
  <2>2. \A i, j, k \in 1 .. n :
          /\ LaterThan(s[j], s[i]) => ~LaterThan(s[i], s[j])
          /\ LaterThan(s[k], s[i]) => LaterThan(s[j], s[i]) \/ LaterThan(s[k], s[j])
    BY <2>1, LaterWeak
  <2> QED
    BY <1>2, <2>2 DEF Weak
<1>4. \A i, j \in 1 .. n : <<j, i>> \in B <=> LaterThan(s[i], s[j]) \/ (~LaterThan(s[j], s[i]) /\ j < i)
  <2> HIDE DEF L
  <2> QED
    BY <1>2 DEF Stable
<1> HIDE DEF L, B
<1>5. \A i \in 1 .. n :
        {j \in DOMAIN s : LaterThan(s[i], s[j]) \/ (~LaterThan(s[j], s[i]) /\ j < i)}
          = {j \in 1 .. n : <<j, i>> \in B}
  BY <1>1, <1>4
<1>6. R = Ranks(n, L)
  BY <1>1, <1>5 DEF Ranks, Rank, B
<1>7. IsSort(DOMAIN s, R, t, s)
  BY DEF SortByOldest, StableSort, IsSort
<1> HIDE DEF R, t
<1>8. IsSort(1 .. n, Ranks(n, L), t, s)
  BY <1>1, <1>6, <1>7
<1>9. /\ t \in Lists(S)
      /\ \A j, k \in 1 .. n : j < k =>
           \E x, y \in 1 .. n : s[x] = t[j] /\ s[y] = t[k] /\ <<y, x>> \notin L
  BY <1>3, <1>8, SortLists DEF n
<1>10. \A j, k \in 1 .. n : j < k => ~LaterThan(t[j], t[k])
  BY <1>2, <1>9
<1> QED
  BY <1>9, <1>10 DEF t, n

\* The order of ListTopics.
SortByHeight(s) == StableSort(s, LAMBDA t, u : t.height < u.height)

\* ORDER BY of ListTopics: the list of a set, by height.
LEMMA LowestFirst ==
  ASSUME NEW S, NEW s, IsFiniteSet(S), \A x \in S : x.height \in Nat, s \in Lists(S)
  PROVE  /\ SortByHeight(s) \in Lists(S)
         /\ \A j, k \in 1 .. Cardinality(S) : j < k =>
              SortByHeight(s)[j].height <= SortByHeight(s)[k].height
<1> DEFINE n == Cardinality(S)
           L == {p \in (1 .. n) \X (1 .. n) : s[p[1]].height < s[p[2]].height}
           B == Stable(n, L)
           R == [i \in DOMAIN s |->
                   1 + Cardinality({j \in DOMAIN s : s[j].height < s[i].height \/ (~(s[i].height < s[j].height) /\ j < i)})]
           t == SortByHeight(s)
<1>1. n \in Nat /\ DOMAIN s = 1 .. n /\ \A i \in 1 .. n : s[i] \in S
  BY FS_CardinalityType DEF Lists
<1> HIDE DEF n
<1>2. \A i, j \in 1 .. n : <<i, j>> \in L <=> s[i].height < s[j].height
  OBVIOUS
<1>3. Weak(n, L)
  <2>1. \A i \in 1 .. n : s[i].height \in Nat
    BY <1>1
  <2> HIDE DEF L
  <2>2. \A i, j, k \in 1 .. n :
          /\ s[i].height < s[j].height => ~(s[j].height < s[i].height)
          /\ s[i].height < s[k].height => s[i].height < s[j].height \/ s[j].height < s[k].height
    BY <2>1
  <2> QED
    BY <1>2, <2>2 DEF Weak
<1>4. \A i, j \in 1 .. n : <<j, i>> \in B <=> s[j].height < s[i].height \/ (~(s[i].height < s[j].height) /\ j < i)
  <2> HIDE DEF L
  <2> QED
    BY <1>2 DEF Stable
<1> HIDE DEF L, B
<1>5. \A i \in 1 .. n :
        {j \in DOMAIN s : s[j].height < s[i].height \/ (~(s[i].height < s[j].height) /\ j < i)}
          = {j \in 1 .. n : <<j, i>> \in B}
  BY <1>1, <1>4
<1>6. R = Ranks(n, L)
  BY <1>1, <1>5 DEF Ranks, Rank, B
<1>7. IsSort(DOMAIN s, R, t, s)
  BY DEF SortByHeight, StableSort, IsSort
<1> HIDE DEF R, t
<1>8. IsSort(1 .. n, Ranks(n, L), t, s)
  BY <1>1, <1>6, <1>7
<1>9. /\ t \in Lists(S)
      /\ \A j, k \in 1 .. n : j < k =>
           \E x, y \in 1 .. n : s[x] = t[j] /\ s[y] = t[k] /\ <<y, x>> \notin L
  BY <1>3, <1>8, SortLists DEF n
<1>10. ASSUME NEW j \in 1 .. n, NEW k \in 1 .. n, j < k
       PROVE  t[j].height <= t[k].height
  <2>1. PICK x \in 1 .. n, y \in 1 .. n : s[x] = t[j] /\ s[y] = t[k] /\ <<y, x>> \notin L
    BY <1>9, <1>10
  <2>2. s[x].height \in Nat /\ s[y].height \in Nat
    BY <1>1
  <2>3. ~(s[y].height < s[x].height)
    BY <1>2, <2>1
  <2> QED
    BY <2>1, <2>2, <2>3
<1> QED
  BY <1>9, <1>10 DEF t, n

\* sortByScore: the higher score first, and the newer of two equal ones.
Better(f, g) == f.score > g.score \/ (f.score = g.score /\ f.height > g.height)

\* The list of a set, by score.
LEMMA BestFirst ==
  ASSUME NEW S, NEW s, IsFiniteSet(S), \A x \in S : x.score \in Int /\ x.height \in Nat,
         s \in Lists(S)
  PROVE  SortByScore(s) \in Lists(S)
<1> DEFINE n == Cardinality(S)
           L == {p \in (1 .. n) \X (1 .. n) : Better(s[p[1]], s[p[2]])}
           B == Stable(n, L)
           R == [i \in DOMAIN s |->
                   1 + Cardinality({j \in DOMAIN s : Better(s[j], s[i]) \/ (~Better(s[i], s[j]) /\ j < i)})]
           t == SortByScore(s)
<1>1. n \in Nat /\ DOMAIN s = 1 .. n /\ \A i \in 1 .. n : s[i] \in S
  BY FS_CardinalityType DEF Lists
<1> HIDE DEF n
<1>2. \A i, j \in 1 .. n : <<i, j>> \in L <=> Better(s[i], s[j])
  OBVIOUS
<1>3. Weak(n, L)
  <2>1. \A x, y, z \in S : /\ Better(x, y) => ~Better(y, x)
                           /\ Better(x, z) => Better(x, y) \/ Better(y, z)
    BY DEF Better
  <2> HIDE DEF L
  <2>2. \A i, j, k \in 1 .. n :
          /\ Better(s[i], s[j]) => ~Better(s[j], s[i])
          /\ Better(s[i], s[k]) => Better(s[i], s[j]) \/ Better(s[j], s[k])
    BY <1>1, <2>1
  <2> QED
    BY <1>2, <2>2 DEF Weak
<1>4. \A i, j \in 1 .. n : <<j, i>> \in B <=> Better(s[j], s[i]) \/ (~Better(s[i], s[j]) /\ j < i)
  <2> HIDE DEF L
  <2> QED
    BY <1>2 DEF Stable
<1> HIDE DEF L, B
<1>5. \A i \in 1 .. n :
        {j \in DOMAIN s : Better(s[j], s[i]) \/ (~Better(s[i], s[j]) /\ j < i)}
          = {j \in 1 .. n : <<j, i>> \in B}
  BY <1>1, <1>4
<1>6. R = Ranks(n, L)
  BY <1>1, <1>5 DEF Ranks, Rank, B
<1>7. IsSort(DOMAIN s, R, t, s)
  BY DEF SortByScore, StableSort, IsSort, Better
<1> HIDE DEF R, t
<1>8. IsSort(1 .. n, Ranks(n, L), t, s)
  BY <1>1, <1>6, <1>7
<1>9. t \in Lists(S)
  BY <1>3, <1>8, SortLists DEF n
<1> QED
  BY <1>9 DEF t

-----------------------------------------------------------------------------
\* What every state of the tables has, whatever fails: they are finite, a payload row is
\* of the kind of its message, the references lead to an item that refers to none, and a
\* row's height is that of a block.

Finite == IsFiniteSet(items) /\ IsFiniteSet(stories) /\ IsFiniteSet(comments) /\ IsFiniteSet(topics)

PayloadKinds ==
  /\ \A id \in stories : Msg[id].kind = "story"
  /\ \A id \in comments : Msg[id].kind = "comment"
  /\ \A t \in topics : Msg[t.id].kind = "topic" /\ Msg[t.id].topic = t.topic

\* No set of indexed answers refers only to itself.
Grounded ==
  \A T \in SUBSET Items :
    (\A t \in T : ItemByID(t) /\ Msg[t].kind \in SignedKinds /\ Msg[t].ref \in T) => T = {}

Mined ==
  /\ \A r \in items : \E b \in Blocks : r.height = Height[b]
  /\ \A t \in topics : \E b \in Blocks : t.height = Height[b]

QueryInv == Finite /\ PayloadKinds /\ Grounded /\ Mined

\* How a step changes a table that the queries read: it takes rows away, or adds the one
\* of the output at hand.
LEMMA TableSteps ==
  ASSUME IInv, [Next]_vars
  PROVE  /\ \/ items' \subseteq items
            \/ /\ items' = items \cup {row} /\ ~ItemByID(row.id) /\ Admissible(msg)
               /\ PersistItem
         /\ stories' \subseteq stories \/ (stories' = stories \cup {row.id} /\ PersistStory)
         /\ comments' \subseteq comments \/ (comments' = comments \cup {row.id} /\ PersistComment)
         /\ topics' \subseteq topics \/ (topics' = topics \cup {TopicOf(row)} /\ PersistTopic)
<1>1. CASE UNCHANGED <<items, stories, comments, topics>>
  BY <1>1
<1>2. CASE RewindDelete(StartHeight)
  BY <1>2 DEF RewindDelete, DeleteFromHeight
<1>3. CASE PersistItem
  BY <1>3 DEF PersistItem, PutItem
<1>4. CASE PersistTopic
  BY <1>4 DEF PersistTopic, InsertTopicIfAbsent, TopicOf, msg
<1>5. CASE PersistStory
  BY <1>5 DEF PersistStory, PutStory
<1>6. CASE PersistComment
  BY <1>6 DEF PersistComment, PutComment
<1>7. \/ UNCHANGED <<items, stories, comments, topics>> \/ RewindDelete(StartHeight)
      \/ PersistItem \/ PersistTopic \/ PersistStory \/ PersistComment
  BY DEF Next, ScannerStep, ProcessOutput, ResumeFresh, ResumeOnChain, ResumeDiverged,
         RewindAnchor, RewindSave, CaughtUp, CountBlocks, FetchHash, FetchBlock,
         FetchBlockDiverged, BlockDone, SkipOutput, DropMessage, PersistVote, PutVote,
         PersistContinuation, PutContinuation, SaveCursor, HeightRefused, Fail, NodeStep, vars,
         store, tables
<1> QED
  BY <1>1, <1>2, <1>3, <1>4, <1>5, <1>6, <1>7

\* The invariant holds of an empty database.
LEMMA InitQueryInv == Init => QueryInv
<1> SUFFICES ASSUME Init
             PROVE  QueryInv
  OBVIOUS
<1>1. items = {} /\ stories = {} /\ comments = {} /\ topics = {}
  BY DEF Init, StoreInit
<1> QED
  BY <1>1, FS_EmptySet DEF QueryInv, Finite, PayloadKinds, Grounded, ItemByID, Mined

\* A table with a row more, or with fewer rows, is finite.
LEMMA StaysFinite ==
  ASSUME NEW S, NEW T, NEW x, IsFiniteSet(S), T \subseteq S \/ T = S \cup {x}
  PROVE  IsFiniteSet(T)
BY PartSize, FS_AddElement

\* Every step keeps the invariant: an item that is added refers to one that is there.
LEMMA NextQueryInv == IInv /\ QueryInv /\ [Next]_vars => QueryInv'
<1> SUFFICES ASSUME IInv, QueryInv, [Next]_vars
             PROVE  QueryInv'
  OBVIOUS
<1>1. Finite'
  BY TableSteps, StaysFinite DEF QueryInv, Finite
<1>2. PayloadKinds'
  BY TableSteps DEF QueryInv, PayloadKinds, PersistStory, PersistComment, PersistTopic, msg, TopicOf
<1>3. Grounded'
  <2> SUFFICES ASSUME NEW T \in SUBSET Items,
                      \A t \in T : ItemByID(t)' /\ Msg[t].kind \in SignedKinds /\ Msg[t].ref \in T
               PROVE  T = {}
    BY DEF Grounded
  <2>1. CASE items' \subseteq items
    <3>1. \A t \in T : ItemByID(t)
      BY <2>1 DEF ItemByID
    <3> QED
      BY <3>1 DEF QueryInv, Grounded
  <2>2. CASE items' = items \cup {row} /\ ~ItemByID(row.id) /\ Admissible(msg)
    <3>1. \A t \in T : ItemByID(t) \/ t = row.id
      BY <2>2 DEF ItemByID
    <3>2. \A t \in T \ {row.id} : ItemByID(t) /\ ItemByID(Msg[t].ref)
      BY <3>1 DEF IInv, RefIntegrity, ItemByID
    <3>3. \A t \in T \ {row.id} : Msg[t].ref # row.id
      BY <2>2, <3>2
    <3>4. T \ {row.id} = {}
      <4>1. T \ {row.id} \in SUBSET Items
        OBVIOUS
      <4>2. \A t \in T \ {row.id} : ItemByID(t) /\ Msg[t].kind \in SignedKinds /\ Msg[t].ref \in T \ {row.id}
        BY <3>2, <3>3
      <4> QED
        BY <4>1, <4>2 DEF QueryInv, Grounded
    <3>5. row.id \in T => ItemByID(Msg[row.id].ref) /\ Msg[row.id].ref \in T
      BY <2>2 DEF Admissible, msg
    <3> QED
      BY <2>2, <3>4, <3>5
  <2> QED
    BY <2>1, <2>2, TableSteps
<1>4. Mined'
  <2>1. PersistItem \/ PersistTopic => hash \in Blocks
    <3>1. PersistItem \/ PersistTopic => pc \in {"item", "payload"}
      BY DEF PersistItem, PersistTopic, AtOutput
    <3> QED
      BY <3>1 DEF IInv, TypeOK
  <2>2. row.height = Height[hash] /\ TopicOf(row).height = Height[hash]
    BY DEF row, RowOf, TopicOf
  <2>3. \A r \in items' : r \in items \/ (r = row /\ hash \in Blocks)
    BY <2>1, TableSteps
  <2>4. \A t \in topics' : t \in topics \/ (t = TopicOf(row) /\ hash \in Blocks)
    BY <2>1, TableSteps
  <2> QED
    BY <2>2, <2>3, <2>4 DEF QueryInv, Mined
<1> QED
  BY <1>1, <1>2, <1>3, <1>4 DEF QueryInv

\* SQLiteStore: it holds in every state, whatever fails and however far the chain is
\* reorganised.
THEOREM QueryInvariance == Spec => [](IInv /\ QueryInv)
<1>1. Init => IInv /\ QueryInv
  BY InitIInv, InitQueryInv
<1>2. IInv /\ QueryInv /\ [Next]_vars => (IInv /\ QueryInv)'
  BY NextIInv, NextQueryInv
<1> QED
  BY <1>1, <1>2, PTL DEF Spec

-----------------------------------------------------------------------------
\* The feed.

\* A story has one item row, and the feed shows its position.
LEMMA StoryRow ==
  ASSUME IInv, QueryInv, NEW id \in stories \cup comments
  PROVE  /\ ItemByID(id) /\ id \in Items
         /\ ItemOf(id) \in items /\ ItemOf(id) \in ItemRow /\ ItemOf(id).id = id
         /\ \A r \in items : r.id = id => r = ItemOf(id)
<1>1. ItemByID(id)
  BY DEF IInv, RefIntegrity
<1>2. ItemOf(id) \in items /\ ItemOf(id).id = id
  BY <1>1 DEF ItemByID, ItemOf
<1>3. items \subseteq ItemRow /\ \A r, s \in items : r.id = s.id => r = s
  BY DEF IInv, TypeOK, StoreTypeOK
<1>4. id \in Items
  BY DEF IInv, TypeOK, StoreTypeOK
<1> QED
  BY <1>1, <1>2, <1>3, <1>4

\* A story, and a comment, as it is shown with its item.
FeedOf(id) == FeedItem(ItemOf(id))
CommentOf(c) == ThreadComment(ItemOf(c))

\* The join finds that row for each id, and no other.
LEMMA JoinedRows ==
  ASSUME IInv, QueryInv, NEW ids, ids \subseteq stories \cup comments
  PROVE  /\ {FeedItem(r) : r \in Joined(ids)} = {FeedOf(id) : id \in ids}
         /\ {ThreadComment(r) : r \in Joined(ids)} = {CommentOf(id) : id \in ids}
<1>1. \A r \in Joined(ids) : r.id \in ids /\ r = ItemOf(r.id)
  BY StoryRow DEF Joined
<1>2. \A id \in ids : ItemOf(id) \in Joined(ids)
  BY StoryRow DEF Joined
<1>3. {FeedItem(r) : r \in Joined(ids)} = {FeedOf(id) : id \in ids}
  BY <1>1, <1>2, Zenon DEF FeedOf
<1>4. {ThreadComment(r) : r \in Joined(ids)} = {CommentOf(id) : id \in ids}
  BY <1>1, <1>2, Zenon DEF CommentOf
<1> QED
  BY <1>3, <1>4

\* What a story is shown as.
LEMMA FeedItemIs ==
  ASSUME IInv, QueryInv, NEW id \in stories
  PROVE  /\ FeedOf(id).id = id
         /\ FeedOf(id).height = ItemOf(id).height
         /\ FeedOf(id).tx = ItemOf(id).tx
         /\ FeedOf(id).vout = ItemOf(id).vout
         /\ FeedOf(id).comments = CommentCount(id)
         /\ FeedOf(id).author = FirstCommentAuthor(id)
         /\ Placed({FeedOf(id)})
<1>1. /\ FeedOf(id).id = id
      /\ FeedOf(id).height = ItemOf(id).height
      /\ FeedOf(id).tx = ItemOf(id).tx
      /\ FeedOf(id).vout = ItemOf(id).vout
      /\ FeedOf(id).comments = CommentCount(id)
      /\ FeedOf(id).author = FirstCommentAuthor(id)
  BY StoryRow DEF FeedItem, FeedOf
<1>2. ItemOf(id).height \in Nat /\ ItemOf(id).tx \in Nat /\ ItemOf(id).vout \in Nat
  BY StoryRow DEF ItemRow
<1> QED
  BY <1>1, <1>2 DEF Placed

\* The image of a finite set under a function that tells its elements apart.
LEMMA ImageSize ==
  ASSUME NEW S, NEW f, IsFiniteSet(S), DOMAIN f = S, f = [x \in S |-> f[x]],
         \A x, y \in S : f[x] = f[y] => x = y
  PROVE  LET T == {f[x] : x \in S}
         IN  IsFiniteSet(T) /\ Cardinality(T) = Cardinality(S)
<1> DEFINE T == {f[x] : x \in S}
<1>1. f \in [S -> T]
  OBVIOUS
<1>2. f \in Surjection(S, T)
  BY <1>1 DEF Surjection
<1>3. f \in Injection(S, T)
  BY <1>1 DEF Injection, IsInjective
<1> HIDE DEF T
<1>4. IsFiniteSet(T) /\ Cardinality(T) = Cardinality(S)
  BY <1>2, <1>3, FS_Surjection
<1> QED
  BY <1>4 DEF T

\* The rows that queryFeed selects.
FeedSet(ids) == {FeedOf(id) : id \in ids}

\* There is one for each story.
LEMMA FeedRows ==
  ASSUME IInv, QueryInv, NEW ids, ids \subseteq stories
  PROVE  /\ IsFiniteSet(FeedSet(ids)) /\ Cardinality(FeedSet(ids)) = Cardinality(ids)
         /\ Placed(FeedSet(ids))
         /\ QueryFeed(ids) = Lists(FeedSet(ids))
<1> DEFINE f == [id \in ids |-> FeedOf(id)]
<1>1. \A x, y \in ids : f[x] = f[y] => x = y
  BY FeedItemIs
<1>2. {f[x] : x \in ids} = FeedSet(ids)
  BY DEF FeedSet
<1>3. DOMAIN f = ids /\ f = [x \in ids |-> f[x]]
  OBVIOUS
<1>4. IsFiniteSet(ids)
  BY PartSize DEF QueryInv, Finite
<1> HIDE DEF f
<1>5. IsFiniteSet(FeedSet(ids)) /\ Cardinality(FeedSet(ids)) = Cardinality(ids)
  BY <1>1, <1>2, <1>3, <1>4, ImageSize
<1>6. Placed(FeedSet(ids))
  BY FeedItemIs DEF FeedSet, Placed
<1>7. stories \cap ids = ids
  OBVIOUS
<1>8. QueryFeed(ids) = SetToSeqs(FeedSet(ids))
  BY <1>7, JoinedRows DEF QueryFeed, FeedSet
<1>9. SetToSeqs(FeedSet(ids)) = Lists(FeedSet(ids))
  BY <1>5, ListsOf
<1> QED
  BY <1>5, <1>6, <1>8, <1>9

\* page without a limit gives the whole list.
LEMMA WholePage ==
  ASSUME NEW S, IsFiniteSet(S), NEW t \in Lists(S)
  PROVE  Page(t, 0, 0) = t /\ Len(t) = Cardinality(S) /\ DOMAIN t = 1 .. Cardinality(S)
         /\ ToSet(t) = S
<1> DEFINE n == Cardinality(S)
<1>1. n \in Nat
  BY FS_CardinalityType
<1>2. t \in [1 .. n -> S] /\ DOMAIN t = 1 .. n
  BY DEF Lists
<1> HIDE DEF n
<1>3. t \in Seq(S) /\ Len(t) = n
  BY <1>1, <1>2
<1>4. Max({0, 0}) = 0
  BY DEF Max
<1>5. SubSeq(t, 1, Len(t)) = t
  BY <1>3
<1>6. Page(t, 0, 0) = t
  BY <1>4, <1>5 DEF Page
<1>7. ToSet(t) = S
  BY <1>2 DEF ToSet, Lists, n
<1> QED
  BY <1>2, <1>3, <1>6, <1>7 DEF n

\* The feed without filters has every story once, newest first.
LEMMA WholeFeed ==
  ASSUME IInv, QueryInv, NEW feed \in NewFeed(FeedQuery({}, {}, TRUE, 0, 0))
  PROVE  /\ feed \in Lists(FeedSet(stories))
         /\ Len(feed) = Cardinality(stories) /\ DOMAIN feed = 1 .. Cardinality(stories)
         /\ ToSet(feed) = FeedSet(stories)
         /\ \A j, k \in DOMAIN feed : j < k => ~LaterThan(feed[k], feed[j])
<1> DEFINE q == FeedQuery({}, {}, TRUE, 0, 0)
           S == FeedSet(stories)
<1>1. Filter(q) = stories /\ q.limit = 0 /\ q.offset = 0
  BY DEF Filter, FeedQuery
<1>2. /\ IsFiniteSet(S) /\ Cardinality(S) = Cardinality(stories) /\ Placed(S)
      /\ QueryFeed(stories) = Lists(S)
  BY FeedRows
<1> HIDE DEF q, S
<1>3. PICK s \in Lists(S) : feed = Page(SortByNewest(s), 0, 0)
  BY <1>1, <1>2 DEF NewFeed, q
<1>4. SortByNewest(s) \in Lists(S) /\ \A j, k \in 1 .. Cardinality(S) : j < k =>
              ~LaterThan(SortByNewest(s)[k], SortByNewest(s)[j])
  BY <1>2, NewestFirst
<1>5. feed = SortByNewest(s)
  BY <1>2, <1>3, <1>4, WholePage
<1>6. feed \in Lists(S) /\ \A j, k \in 1 .. Cardinality(S) : j < k => ~LaterThan(feed[k], feed[j])
  BY <1>4, <1>5
<1>7. Len(feed) = Cardinality(S) /\ DOMAIN feed = 1 .. Cardinality(S) /\ ToSet(feed) = S
  BY <1>2, <1>6, WholePage
<1> QED
  BY <1>2, <1>6, <1>7 DEF S

-----------------------------------------------------------------------------
\* The thread.

\* The function inside ThreadIds, as it is written there.
IsWalk(g, n, root) ==
  g = [k \in 0 .. n |-> IF k = 0 THEN Replies(root)
                        ELSE g[k - 1] \cup UNION {Replies(c) : c \in g[k - 1]}]

\* It exists.
LEMMA WalkExists ==
  ASSUME NEW root
  PROVE  \A n \in Nat : \E g : IsWalk(g, n, root)
<1> DEFINE S == {n \in Nat : \E g : IsWalk(g, n, root)}
           More(T) == T \cup UNION {Replies(c) : c \in T}
<1>1. 0 \in S
  <2> DEFINE g == [k \in 0 .. 0 |-> Replies(root)]
  <2>1. \A k \in 0 .. 0 : k = 0
    OBVIOUS
  <2>2. IsWalk(g, 0, root)
    BY <2>1 DEF IsWalk
  <2> QED
    BY <2>2
<1>2. ASSUME NEW n \in Nat, n \in S
      PROVE  n + 1 \in S
  <2>1. PICK g : IsWalk(g, n, root)
    BY <1>2
  <2>2. /\ g[0] = Replies(root)
        /\ \A k \in 1 .. n : g[k] = More(g[k - 1])
    BY <2>1 DEF IsWalk
  <2> HIDE DEF More
  <2> DEFINE f == [k \in 0 .. n + 1 |-> IF k = n + 1 THEN More(g[n]) ELSE g[k]]
  <2>3. \A k \in 0 .. n : f[k] = g[k]
    OBVIOUS
  <2>4. f[n + 1] = More(g[n])
    OBVIOUS
  <2>5. f = [k \in 0 .. n + 1 |-> f[k]]
    OBVIOUS
  <2> HIDE DEF f
  <2>6. ASSUME NEW k \in 0 .. n + 1
        PROVE  f[k] = IF k = 0 THEN Replies(root) ELSE More(f[k - 1])
    <3>1. CASE k = 0
      BY <2>2, <2>3, <3>1
    <3>2. CASE k = n + 1
      <4>1. k - 1 = n /\ n \in 0 .. n
        BY <3>2
      <4> QED
        BY <2>3, <2>4, <3>2, <4>1
    <3>3. CASE k \in 1 .. n
      <4>1. k \in 0 .. n /\ k - 1 \in 0 .. n
        BY <3>3
      <4> QED
        BY <2>2, <2>3, <3>3, <4>1
    <3> QED
      BY <3>1, <3>2, <3>3
  <2>7. f = [k \in 0 .. n + 1 |-> IF k = 0 THEN Replies(root) ELSE More(f[k - 1])]
    BY <2>5, <2>6
  <2>8. IsWalk(f, n + 1, root)
    BY <2>7 DEF IsWalk, More
  <2> QED
    BY <2>8
<1>3. \A n \in Nat : n \in S
  <2> HIDE DEF S
  <2> QED
    BY <1>1, <1>2, SetInduction
<1> QED
  BY <1>3

\* ThreadIds is where the walk is after as many steps as there are comments.
LEMMA ThreadWalk ==
  ASSUME QueryInv, NEW root
  PROVE  \E g : IsWalk(g, Cardinality(comments), root) /\ ThreadIds(root) = g[Cardinality(comments)]
<1> DEFINE n == Cardinality(comments)
           w == CHOOSE g : IsWalk(g, n, root)
<1>1. n \in Nat
  BY FS_CardinalityType DEF QueryInv, Finite
<1>2. \E g : IsWalk(g, n, root)
  <2> HIDE DEF n
  <2> QED
    BY <1>1, WalkExists
<1>3. IsWalk(w, n, root)
  BY <1>2
<1>4. ThreadIds(root) = w[n]
  BY DEF ThreadIds, IsWalk
<1> QED
  BY <1>3, <1>4

\* WITH RECURSIVE thread: the thread has the answers to the root, and with every comment
\* the answers to it.  A step that adds none is the last, and no step can add more comments
\* than there are.
LEMMA ThreadClosed ==
  ASSUME QueryInv, NEW root
  PROVE  /\ Replies(root) \subseteq ThreadIds(root)
         /\ ThreadIds(root) \subseteq comments
         /\ \A c \in ThreadIds(root) : Replies(c) \subseteq ThreadIds(root)
<1> DEFINE n == Cardinality(comments)
           Closed(T) == \A c \in T : Replies(c) \subseteq T
<1>1. n \in Nat /\ IsFiniteSet(comments)
  BY FS_CardinalityType DEF QueryInv, Finite
<1>2. PICK w : IsWalk(w, n, root) /\ ThreadIds(root) = w[n]
  BY ThreadWalk
<1>3. \A x : Replies(x) \subseteq comments
  BY DEF Replies
<1> HIDE DEF n
<1>4. /\ w[0] = Replies(root)
      /\ \A k \in 1 .. n : w[k] = w[k - 1] \cup UNION {Replies(c) : c \in w[k - 1]}
  BY <1>1, <1>2 DEF IsWalk
<1> DEFINE S == {k \in Nat : k <= n =>
                   /\ Replies(root) \subseteq w[k]
                   /\ w[k] \subseteq comments
                   /\ Closed(w[k]) \/ Cardinality(w[k]) >= k + 1}
<1>5. 0 \in S
  <2>1. CASE Replies(root) = {}
    BY <1>4, <2>1
  <2>2. CASE Replies(root) # {}
    <3>1. IsFiniteSet(Replies(root)) /\ Cardinality(Replies(root)) \in Nat
      BY <1>1, <1>3, PartSize
    <3>2. Cardinality(Replies(root)) # 0
      BY <2>2, <3>1, FS_EmptySet
    <3>3. Cardinality(Replies(root)) >= 0 + 1
      BY <3>1, <3>2
    <3> QED
      BY <1>3, <1>4, <3>3
  <2> QED
    BY <2>1, <2>2
<1>6. ASSUME NEW k \in Nat, k \in S
      PROVE  k + 1 \in S
  <2> SUFFICES ASSUME k + 1 <= n
               PROVE  /\ Replies(root) \subseteq w[k + 1]
                      /\ w[k + 1] \subseteq comments
                      /\ Closed(w[k + 1]) \/ Cardinality(w[k + 1]) >= (k + 1) + 1
    OBVIOUS
  <2>1. /\ Replies(root) \subseteq w[k]
        /\ w[k] \subseteq comments
        /\ Closed(w[k]) \/ Cardinality(w[k]) >= k + 1
    BY <1>1, <1>6
  <2>2. w[k + 1] = w[k] \cup UNION {Replies(c) : c \in w[k]}
    <3>1. k + 1 \in 1 .. n /\ (k + 1) - 1 = k
      BY <1>1
    <3> QED
      BY <1>4, <3>1
  <2>3. Replies(root) \subseteq w[k + 1] /\ w[k + 1] \subseteq comments
    BY <1>3, <2>1, <2>2
  <2>4. CASE Closed(w[k])
    <3>1. w[k + 1] = w[k]
      BY <2>2, <2>4
    <3> QED
      BY <2>3, <2>4, <3>1
  <2>5. CASE ~Closed(w[k]) /\ Cardinality(w[k]) >= k + 1
    <3>1. w[k] \subseteq w[k + 1] /\ w[k] # w[k + 1]
      BY <2>2, <2>5
    <3>2. IsFiniteSet(w[k + 1])
      BY <1>1, <2>3, PartSize
    <3>3. /\ Cardinality(w[k]) \in Nat /\ Cardinality(w[k + 1]) \in Nat
          /\ Cardinality(w[k]) < Cardinality(w[k + 1])
      BY <3>1, <3>2, PartSize
    <3>4. Cardinality(w[k + 1]) >= (k + 1) + 1
      BY <2>5, <3>3
    <3> QED
      BY <2>3, <3>4
  <2> QED
    BY <2>1, <2>4, <2>5
<1>7. n \in S
  <2> HIDE DEF S
  <2> QED
    BY <1>1, <1>5, <1>6, SetInduction
<1>8. /\ Replies(root) \subseteq w[n]
      /\ w[n] \subseteq comments
      /\ Closed(w[n]) \/ Cardinality(w[n]) >= n + 1
  BY <1>1, <1>7
<1>9. Cardinality(w[n]) <= n /\ Cardinality(w[n]) \in Nat
  BY <1>1, <1>8, PartSize DEF n
<1>10. Closed(w[n])
  BY <1>1, <1>8, <1>9
<1> QED
  BY <1>2, <1>8, <1>10

\* The rows that Thread selects.
ThreadSet(ids) == {CommentOf(c) : c \in ids}

\* What a comment is shown as.
LEMMA ThreadCommentIs ==
  ASSUME IInv, QueryInv, NEW c \in comments
  PROVE  /\ CommentOf(c).id = c
         /\ CommentOf(c).parent = Msg[c].ref
         /\ Placed({CommentOf(c)})
<1>1. /\ CommentOf(c).id = c
      /\ CommentOf(c).parent = Msg[c].ref
      /\ CommentOf(c).height = ItemOf(c).height
      /\ CommentOf(c).tx = ItemOf(c).tx
      /\ CommentOf(c).vout = ItemOf(c).vout
  BY StoryRow DEF ThreadComment, CommentOf
<1>2. ItemOf(c).height \in Nat /\ ItemOf(c).tx \in Nat /\ ItemOf(c).vout \in Nat
  BY StoryRow DEF ItemRow
<1> QED
  BY <1>1, <1>2 DEF Placed

\* There is one for each comment.
LEMMA ThreadRows ==
  ASSUME IInv, QueryInv, NEW ids, ids \subseteq comments
  PROVE  /\ IsFiniteSet(ThreadSet(ids)) /\ Cardinality(ThreadSet(ids)) = Cardinality(ids)
         /\ Placed(ThreadSet(ids))
         /\ {ThreadComment(r) : r \in Joined(ids)} = ThreadSet(ids)
<1> DEFINE f == [c \in ids |-> CommentOf(c)]
<1>1. \A x, y \in ids : f[x] = f[y] => x = y
  BY ThreadCommentIs
<1>2. {f[x] : x \in ids} = ThreadSet(ids)
  BY DEF ThreadSet
<1>3. DOMAIN f = ids /\ f = [x \in ids |-> f[x]]
  OBVIOUS
<1>4. IsFiniteSet(ids)
  BY PartSize DEF QueryInv, Finite
<1> HIDE DEF f
<1>5. IsFiniteSet(ThreadSet(ids)) /\ Cardinality(ThreadSet(ids)) = Cardinality(ids)
  BY <1>1, <1>2, <1>3, <1>4, ImageSize
<1>6. Placed(ThreadSet(ids))
  BY ThreadCommentIs DEF ThreadSet, Placed
<1>7. {ThreadComment(r) : r \in Joined(ids)} = ThreadSet(ids)
  BY JoinedRows DEF ThreadSet
<1> QED
  BY <1>5, <1>6, <1>7

\* Thread lists every comment of the walk once.
LEMMA ThreadLists ==
  ASSUME IInv, QueryInv, NEW root
  PROVE  /\ Thread(root) \in Lists(ThreadSet(ThreadIds(root)))
         /\ DOMAIN Thread(root) = 1 .. Cardinality(ThreadSet(ThreadIds(root)))
         /\ ToSet(Thread(root)) = ThreadSet(ThreadIds(root))
<1> DEFINE S == ThreadSet(ThreadIds(root))
<1>1. ThreadIds(root) \subseteq comments
  BY ThreadClosed
<1>2. IsFiniteSet(S) /\ Placed(S) /\ {ThreadComment(r) : r \in Joined(ThreadIds(root))} = S
  BY <1>1, ThreadRows
<1>3. Thread(root) = SortByOldest(SetToSeq(S))
  BY <1>2 DEF Thread, SortByOldest
<1> HIDE DEF S
<1>4. SetToSeq(S) \in Lists(S)
  BY <1>2, ListsOf
<1>5. Thread(root) \in Lists(S)
  BY <1>2, <1>3, <1>4, OldestFirst
<1>6. DOMAIN Thread(root) = 1 .. Cardinality(S) /\ ToSet(Thread(root)) = S
  BY <1>2, <1>5, WholePage
<1> QED
  BY <1>5, <1>6 DEF S

\* Thread and persist: every comment is in the thread of an item that is no comment,
\* whatever fails and however far the chain is reorganised.
THEOREM NoCommentLost == Spec => []CommentsReachable
<1>1. ASSUME IInv, QueryInv
      PROVE  CommentsReachable
  <2> DEFINE Shown(c) == \E r \in items : r.id \notin comments /\ c \in ThreadIds(r.id)
             T == {c \in comments : ~Shown(c)}
  <2>1. ASSUME NEW c \in T
        PROVE  ItemByID(c) /\ Msg[c].kind \in SignedKinds /\ Msg[c].ref \in T
    <3>1. ItemByID(c) /\ Msg[c].kind = "comment"
      BY <1>1, StoryRow DEF QueryInv, PayloadKinds
    <3>2. PICK p \in items : p.id = Msg[c].ref
      BY <1>1, <3>1 DEF IInv, RefIntegrity, ItemByID, SignedKinds
    <3>3. c \in Replies(p.id)
      BY <3>2 DEF Replies
    <3>4. p.id \in comments
      <4>1. Replies(p.id) \subseteq ThreadIds(p.id)
        BY <1>1, ThreadClosed
      <4> QED
        BY <3>3, <4>1
    <3>5. ~Shown(p.id)
      <4> SUFFICES ASSUME NEW r \in items, r.id \notin comments, p.id \in ThreadIds(r.id)
                   PROVE  c \in ThreadIds(r.id)
        OBVIOUS
      <4>1. Replies(p.id) \subseteq ThreadIds(r.id)
        BY <1>1, ThreadClosed
      <4> QED
        BY <3>3, <4>1
    <3> QED
      BY <3>1, <3>2, <3>4, <3>5 DEF SignedKinds
  <2>2. T \in SUBSET Items
    BY <1>1 DEF IInv, TypeOK, StoreTypeOK
  <2> HIDE DEF T
  <2>3. T = {}
    BY <1>1, <2>1, <2>2 DEF QueryInv, Grounded
  <2>4. ASSUME NEW c \in comments
        PROVE  \E r \in items : r.id \notin comments /\ \E d \in ToSet(Thread(r.id)) : d.id = c
    <3>1. PICK r \in items : r.id \notin comments /\ c \in ThreadIds(r.id)
      BY <2>3 DEF T
    <3>2. CommentOf(c) \in ToSet(Thread(r.id)) /\ CommentOf(c).id = c
      BY <1>1, <3>1, ThreadLists, ThreadCommentIs DEF ThreadSet
    <3> QED
      BY <3>1, <3>2
  <2> QED
    BY <2>4 DEF CommentsReachable
<1> QED
  BY <1>1, QueryInvariance, PTL

\* CommentCount and Thread: the number on a story is the number of answers to it that its
\* thread shows, although the one is counted without the join that the other makes.
THEOREM CountIsShown == Spec => []CountsShown
<1>1. ASSUME IInv, QueryInv
      PROVE  CountsShown
  <2> SUFFICES ASSUME NEW id \in stories, NEW f \in GetItem(id)
               PROVE  f.comments = Cardinality({i \in DOMAIN Thread(id) : Thread(id)[i].parent = id})
    BY DEF CountsShown
  <2> DEFINE t == Thread(id)
             P == {i \in DOMAIN t : t[i].parent = id}
             g == [i \in P |-> t[i].id]
  <2>1. f.comments = Cardinality(Replies(id))
    <3>1. stories \cap {id} \subseteq stories \cup comments /\ stories \cap {id} = {id}
      OBVIOUS
    <3>2. GetItem(id) = {FeedOf(i) : i \in {id}}
      BY <1>1, <3>1, JoinedRows DEF GetItem
    <3> QED
      BY <1>1, <3>2, FeedItemIs DEF CommentCount
  <2>2. /\ t \in Lists(ThreadSet(ThreadIds(id)))
        /\ DOMAIN t = 1 .. Cardinality(ThreadSet(ThreadIds(id)))
        /\ Replies(id) \subseteq ThreadIds(id) /\ ThreadIds(id) \subseteq comments
    BY <1>1, ThreadLists, ThreadClosed
  <2> HIDE DEF t
  <2>3. /\ \A i, j \in DOMAIN t : t[i] = t[j] => i = j
        /\ \A c \in ThreadIds(id) : \E i \in DOMAIN t : t[i] = CommentOf(c)
        /\ \A i \in DOMAIN t : \E c \in ThreadIds(id) : t[i] = CommentOf(c)
    <3>1. \A c \in ThreadIds(id) : CommentOf(c) \in ThreadSet(ThreadIds(id))
      BY DEF ThreadSet
    <3>2. \A x \in ThreadSet(ThreadIds(id)) : \E c \in ThreadIds(id) : x = CommentOf(c)
      BY DEF ThreadSet
    <3> DEFINE S == ThreadSet(ThreadIds(id))
    <3>3. t \in Lists(S)
      BY <2>2
    <3> HIDE DEF S
    <3>4. /\ \A i \in DOMAIN t : t[i] \in S
          /\ \A i, j \in DOMAIN t : t[i] = t[j] => i = j
          /\ \A x \in S : \E i \in DOMAIN t : t[i] = x
      BY <3>3, InLists
    <3> QED
      BY <3>1, <3>2, <3>4 DEF S
  <2>4. \A c \in ThreadIds(id) : /\ CommentOf(c).id = c
                                 /\ CommentOf(c).parent = id <=> c \in Replies(id)
    BY <1>1, <2>2, ThreadCommentIs DEF Replies
  <2>5. \A i \in P : g[i] \in Replies(id) /\ t[i] = CommentOf(g[i])
    BY <2>3, <2>4
  <2>6. g \in [P -> Replies(id)]
    BY <2>5
  <2>7. \A i, j \in P : g[i] = g[j] => i = j
    <3> HIDE DEF g
    <3> QED
      BY <2>3, <2>5
  <2>8. ASSUME NEW c \in Replies(id)
        PROVE  \E i \in P : g[i] = c
    <3>1. PICK i \in DOMAIN t : t[i] = CommentOf(c)
      BY <2>2, <2>3
    <3> QED
      BY <2>2, <2>4, <3>1
  <2> HIDE DEF g, P
  <2>9. g \in Injection(P, Replies(id)) /\ g \in Surjection(P, Replies(id))
    BY <2>6, <2>7, <2>8 DEF Injection, Surjection, IsInjective
  <2>10. IsFiniteSet(Replies(id))
    BY <1>1, <2>2, PartSize DEF QueryInv, Finite
  <2>11. Cardinality(P) = Cardinality(Replies(id))
    BY <2>9, <2>10, FS_Injection
  <2> QED
    BY <2>1, <2>11 DEF P, t
<1> QED
  BY <1>1, QueryInvariance, PTL

-----------------------------------------------------------------------------
\* The feed and the chain.  In the environment ShallowReorgs.

\* Between two blocks, every row is one of the chain of the cursor.
LEMMA SettledRows ==
  ASSUME IInv, IndexInv, ShallowReorgs, Settled, ~MidBlock
  PROVE  /\ cursor.hash \in Blocks
         /\ \A r : r \in ChainRows <=> OnChain(cursor.hash, r)
         /\ \A r \in ChainRows : r \in AllRows /\ r \in ItemRow /\ Done(r)
         /\ \A r \in items : r \in ChainRows
         /\ \A r \in ChainRows : Counts(r) => r \in items
<1>1. /\ cursor.hash \in Blocks
      /\ \A r : r \in ChainRows <=> OnChain(cursor.hash, r)
      /\ \A r : OnChain(cursor.hash, r) => Done(r) /\ r \in AllRows
  BY UnderCursor
<1>2. AllRows \subseteq ItemRow
  BY RowTypes
<1>3. IndexedHead = cursor.hash
  BY DEF Settled, IndexedHead
<1>4. \A r \in items : OnChain(cursor.hash, r)
  BY <1>3 DEF IndexInv, Source, Done, Writing, LeftOver, MidBlock, ShallowReorgs
<1>5. \A r \in ChainRows : Counts(r) => r \in items
  BY <1>1 DEF IndexInv, Tables, Complete
<1> QED
  BY <1>1, <1>2, <1>4, <1>5

ChainStories == {r \in ChainRows : Msg[r.id].kind = "story"}

\* The stories of the tables are those of the chain.
LEMMA StoriesOfChain ==
  ASSUME IInv, IndexInv, QueryInv, ShallowReorgs, Settled, ~MidBlock
  PROVE  /\ \A r \in ChainStories : r \in items /\ r.id \in stories /\ ItemOf(r.id) = r
         /\ \A id \in stories : ItemOf(id) \in ChainStories
<1>1. ASSUME NEW r \in ChainStories
      PROVE  r \in items /\ r.id \in stories /\ ItemOf(r.id) = r
  <2>1. Counts(r)
    BY <1>1 DEF ChainStories, Counts, SignedKinds
  <2>2. r \in items /\ Done(r)
    BY <2>1, SettledRows DEF ChainStories
  <2>3. r.id \in stories
    BY <2>2 DEF IndexInv, Tables, Payloads, ChainStories
  <2> QED
    BY <2>2, <2>3, StoryRow
<1>2. ASSUME NEW id \in stories
      PROVE  ItemOf(id) \in ChainStories
  <2>1. ItemOf(id) \in items /\ ItemOf(id).id = id
    BY StoryRow
  <2> QED
    BY <2>1, SettledRows DEF ChainStories, QueryInv, PayloadKinds
<1> QED
  BY <1>1, <1>2

\* The answers to a story in the tables are those of the chain.
LEMMA AnswersOfChain ==
  ASSUME IInv, IndexInv, QueryInv, ShallowReorgs, Settled, ~MidBlock, NEW r \in ChainStories
  PROVE  ChainReplies(r) = {q \in items : q.id \in Replies(r.id)}
<1>0. r \in items
  BY StoriesOfChain
<1>1. ASSUME NEW q \in ChainReplies(r)
      PROVE  q \in items /\ q.id \in Replies(r.id)
  <2>1. /\ q \in ChainRows /\ Msg[q.id].kind = "comment" /\ Msg[q.id].sig
        /\ Msg[q.id].ref = r.id /\ LaterThan(q, r)
    BY <1>1 DEF ChainReplies
  <2>2. Counts(q)
    BY <1>0, <2>1 DEF Counts
  <2>3. q \in items /\ Done(q)
    BY <2>1, <2>2, SettledRows
  <2>4. q.id \in comments
    BY <2>1, <2>3 DEF IndexInv, Tables, Payloads
  <2> QED
    BY <2>1, <2>3, <2>4 DEF Replies
<1>2. ASSUME NEW q \in items, q.id \in Replies(r.id)
      PROVE  q \in ChainReplies(r)
  <2>1. q.id \in comments /\ Msg[q.id].ref = r.id
    BY <1>2 DEF Replies
  <2>2. Msg[q.id].kind = "comment" /\ Counts(q) /\ q \in ChainRows
    BY <2>1, SettledRows DEF QueryInv, PayloadKinds, IndexInv, Tables, Rules
  <2>3. PICK p \in items : p.id = r.id /\ LaterThan(q, p)
    BY <2>1, <2>2 DEF Counts, SignedKinds
  <2>4. p = r
    BY <1>0, <2>3 DEF IInv, TypeOK, StoreTypeOK
  <2>5. Msg[q.id].sig
    BY <2>2 DEF Counts, SignedKinds
  <2> QED
    BY <2>1, <2>2, <2>3, <2>4, <2>5 DEF ChainReplies
<1> QED
  BY <1>1, <1>2 DEF ChainReplies

\* The feed's columns that are computed from the answers agree with the chain.
LEMMA StoryOfChain ==
  ASSUME IInv, IndexInv, QueryInv, ShallowReorgs, Settled, ~MidBlock, NEW r \in ChainStories
  PROVE  ChainStory(r) = [id |-> r.id, comments |-> CommentCount(r.id),
                          author |-> FirstCommentAuthor(r.id)]
<1> DEFINE cs == {q \in items : q.id \in Replies(r.id)}
           First(S) == IF S = {} THEN ZeroKey
                       ELSE Msg[(CHOOSE c \in S : \A d \in S : ~LaterThan(c, d)).id].author
<1>1. ChainReplies(r) = cs
  BY AnswersOfChain
<1>2. FirstCommentAuthor(r.id) = First(cs)
  BY DEF FirstCommentAuthor
<1>3. ChainStory(r) = [id |-> r.id, comments |-> Cardinality(ChainReplies(r)),
                       author |-> First(ChainReplies(r))]
  BY DEF ChainStory
<1>4. Cardinality(cs) = CommentCount(r.id)
  <2> DEFINE f == [q \in cs |-> q.id]
  <2>1. \A x, y \in cs : f[x] = f[y] => x = y
    BY DEF IInv, TypeOK, StoreTypeOK
  <2>2. {f[x] : x \in cs} = Replies(r.id)
    <3>1. ASSUME NEW c \in Replies(r.id)
          PROVE  \E q \in cs : q.id = c
      BY StoryRow DEF Replies
    <3> QED
      BY <3>1
  <2>3. DOMAIN f = cs /\ f = [x \in cs |-> f[x]]
    OBVIOUS
  <2>4. IsFiniteSet(cs)
    BY PartSize DEF QueryInv, Finite
  <2> HIDE DEF f, cs
  <2>5. Cardinality(Replies(r.id)) = Cardinality(cs)
    BY <2>1, <2>2, <2>3, <2>4, ImageSize
  <2> QED
    BY <2>5 DEF CommentCount
<1> HIDE DEF cs, First
<1> QED
  BY <1>1, <1>2, <1>3, <1>4

\* Two rows of one chain are never at the same position.
LEMMA ChainStoriesOrder ==
  ASSUME IInv, IndexInv, ShallowReorgs, Settled, ~MidBlock,
         NEW r \in ChainStories, NEW s \in ChainStories, r # s
  PROVE  LaterThan(r, s) \/ LaterThan(s, r)
BY SettledRows, OneRow DEF ChainStories

\* The feed lists the chain.
LEMMA FeedOfChain ==
  ASSUME IInv, IndexInv, QueryInv, ShallowReorgs, Settled, ~MidBlock,
         NEW feed \in NewFeed(FeedQuery({}, {}, TRUE, 0, 0))
  PROVE  /\ Len(feed) = Cardinality(ChainStories)
         /\ \A i \in DOMAIN feed : \E r \in ChainStories :
              /\ Cardinality({q \in ChainStories : LaterThan(q, r)}) = i - 1
              /\ ChainStory(r) = [id |-> feed[i].id, comments |-> feed[i].comments,
                                  author |-> feed[i].author]
<1> DEFINE RowAt(i) == ItemOf(feed[i].id)
<1>1. /\ Len(feed) = Cardinality(stories) /\ DOMAIN feed = 1 .. Cardinality(stories)
      /\ feed \in Lists(FeedSet(stories))
      /\ \A j, k \in DOMAIN feed : j < k => ~LaterThan(feed[k], feed[j])
      /\ Cardinality(stories) \in Nat
  BY WholeFeed, FS_CardinalityType DEF QueryInv, Finite
<1>2. /\ \A i, j \in DOMAIN feed : feed[i] = feed[j] => i = j
      /\ \A x \in FeedSet(stories) : \E i \in DOMAIN feed : feed[i] = x
      /\ \A i \in DOMAIN feed : feed[i] \in FeedSet(stories)
  BY <1>1, InLists
<1>3. ASSUME NEW i \in DOMAIN feed
      PROVE  feed[i].id \in stories /\ feed[i] = FeedOf(feed[i].id)
  <2>1. PICK id \in stories : feed[i] = FeedOf(id)
    BY <1>2 DEF FeedSet
  <2> QED
    BY <2>1, FeedItemIs
<1>4. /\ \A i \in DOMAIN feed : RowAt(i) \in ChainStories /\ RowAt(i).id = feed[i].id
      /\ \A i, j \in DOMAIN feed : RowAt(i) = RowAt(j) => i = j
      /\ \A r \in ChainStories : \E i \in DOMAIN feed : RowAt(i) = r
  <2>1. \A i \in DOMAIN feed : RowAt(i) \in ChainStories /\ RowAt(i).id = feed[i].id
    BY <1>3, StoriesOfChain, StoryRow
  <2>2. ASSUME NEW i \in DOMAIN feed, NEW j \in DOMAIN feed, RowAt(i) = RowAt(j)
        PROVE  i = j
    <3>1. feed[i].id = feed[j].id
      BY <2>1, <2>2
    <3>2. feed[i] = feed[j]
      BY <1>3, <3>1, Zenon
    <3> QED
      BY <1>2, <3>2
  <2>3. ASSUME NEW r \in ChainStories
        PROVE  \E i \in DOMAIN feed : RowAt(i) = r
    <3>1. r.id \in stories /\ ItemOf(r.id) = r
      BY StoriesOfChain
    <3>2. PICK i \in DOMAIN feed : feed[i] = FeedOf(r.id)
      BY <1>2, <3>1 DEF FeedSet
    <3>3. feed[i].id = r.id
      BY <3>1, <3>2, FeedItemIs
    <3> QED
      BY <3>1, <3>3
  <2> QED
    BY <2>1, <2>2, <2>3
<1>5. ASSUME NEW i \in DOMAIN feed, NEW j \in DOMAIN feed
      PROVE  LaterThan(feed[i], feed[j]) <=> LaterThan(RowAt(i), RowAt(j))
  <2>1. ASSUME NEW k \in DOMAIN feed
        PROVE  /\ feed[k].height = RowAt(k).height
               /\ feed[k].tx = RowAt(k).tx /\ feed[k].vout = RowAt(k).vout
    BY <1>3, <2>1, FeedItemIs
  <2> HIDE DEF RowAt
  <2> QED
    BY <2>1 DEF LaterThan
<1>6. \A i, j \in DOMAIN feed : LaterThan(RowAt(i), RowAt(j)) <=> i < j
  <2> SUFFICES ASSUME NEW i \in DOMAIN feed, NEW j \in DOMAIN feed
               PROVE  LaterThan(RowAt(i), RowAt(j)) <=> i < j
    OBVIOUS
  <2>0. i \in Nat /\ j \in Nat
    BY <1>1
  <2>1. RowAt(i) \in ItemRow /\ RowAt(j) \in ItemRow
    BY <1>4, SettledRows DEF ChainStories
  <2>2. /\ i < j => ~LaterThan(RowAt(j), RowAt(i))
        /\ j < i => ~LaterThan(RowAt(i), RowAt(j))
    BY <1>1, <1>5
  <2>3. i # j => LaterThan(RowAt(i), RowAt(j)) \/ LaterThan(RowAt(j), RowAt(i))
    BY <1>4, ChainStoriesOrder
  <2>4. i = j => ~LaterThan(RowAt(i), RowAt(j))
    BY <2>1, Order
  <2> QED
    BY <2>0, <2>2, <2>3, <2>4
<1> DEFINE f == [i \in DOMAIN feed |-> RowAt(i)]
<1>7. /\ f = [i \in DOMAIN feed |-> f[i]]
      /\ \A i \in DOMAIN feed : f[i] = RowAt(i)
  OBVIOUS
<1> HIDE DEF f, RowAt
<1>8. Cardinality(ChainStories) = Len(feed)
  <2> DEFINE D == DOMAIN feed
  <2>1. IsFiniteSet(D) /\ Cardinality(D) = Len(feed)
    BY <1>1, Positions
  <2>2. /\ \A x, y \in D : f[x] = f[y] => x = y
        /\ {f[x] : x \in D} = ChainStories
        /\ DOMAIN f = D /\ f = [x \in D |-> f[x]]
    BY <1>4, <1>7 DEF f
  <2> HIDE DEF D
  <2> QED
    BY <2>1, <2>2, ImageSize
<1>9. ASSUME NEW i \in DOMAIN feed
      PROVE  Cardinality({q \in ChainStories : LaterThan(q, RowAt(i))}) = i - 1
  <2> DEFINE D == 1 .. i - 1
             g == [x \in D |-> RowAt(x)]
  <2>0. i - 1 \in Nat /\ D \subseteq DOMAIN feed /\ \A j \in DOMAIN feed : j < i <=> j \in D
    BY <1>1
  <2>1. IsFiniteSet(D) /\ Cardinality(D) = i - 1
    BY <2>0, Positions
  <2>2. \A x, y \in D : g[x] = g[y] => x = y
    BY <1>4, <2>0
  <2>3. {g[x] : x \in D} = {q \in ChainStories : LaterThan(q, RowAt(i))}
    <3>1. ASSUME NEW x \in D
          PROVE  RowAt(x) \in ChainStories /\ LaterThan(RowAt(x), RowAt(i))
      <4>1. x \in DOMAIN feed /\ x < i
        BY <2>0
      <4> QED
        BY <1>4, <1>6, <4>1
    <3>2. ASSUME NEW q \in ChainStories, LaterThan(q, RowAt(i))
          PROVE  \E x \in D : RowAt(x) = q
      <4>1. PICK x \in DOMAIN feed : RowAt(x) = q
        BY <1>4
      <4>2. x < i
        BY <1>6, <3>2, <4>1
      <4> QED
        BY <2>0, <4>1, <4>2
    <3> HIDE DEF D
    <3> QED
      BY <3>1, <3>2
  <2>4. DOMAIN g = D /\ g = [x \in D |-> g[x]]
    OBVIOUS
  <2> HIDE DEF D, g
  <2> QED
    BY <2>1, <2>2, <2>3, <2>4, ImageSize
<1>10. ASSUME NEW i \in DOMAIN feed
       PROVE  ChainStory(RowAt(i)) = [id |-> feed[i].id, comments |-> feed[i].comments,
                                   author |-> feed[i].author]
  <2>1. ChainStory(RowAt(i)) = [id |-> RowAt(i).id, comments |-> CommentCount(RowAt(i).id),
                             author |-> FirstCommentAuthor(RowAt(i).id)]
    BY <1>4, StoryOfChain
  <2>2. RowAt(i).id = feed[i].id /\ feed[i].id \in stories /\ feed[i] = FeedOf(feed[i].id)
    BY <1>3, <1>4
  <2>3. feed[i].comments = CommentCount(feed[i].id) /\ feed[i].author = FirstCommentAuthor(feed[i].id)
    BY <2>2, FeedItemIs
  <2> QED
    BY <2>1, <2>2, <2>3
<1> QED
  BY <1>4, <1>8, <1>9, <1>10

\* NewFeed and the scanner: once the scanner has caught up, the feed is what the blocks of
\* the active chain say, newest first, after any reorganisations no deeper than a rewind.
THEOREM FeedFollowsTheChain ==
  ASSUME ShallowReorgs
  PROVE  Spec => []FeedIsTheChain
<1>1. IInv /\ IndexInv /\ QueryInv => FeedIsTheChain
  BY FeedOfChain DEF FeedIsTheChain, ChainStories
<1>2. Spec => [](IInv /\ IndexInv)
  BY IndexInvariance
<1> QED
  BY <1>1, <1>2, QueryInvariance, PTL

-----------------------------------------------------------------------------
\* Readers beside the scanner.

\* Server and SQLiteStore: the requests change no table and delay no step of the scanner,
\* so that the index does not depend on who reads it.
THEOREM ReadersOnlyRead == ReaderSpec => Spec
<1>1. [WriterStep \/ ReaderStep]_allvars => [Next]_vars
  BY DEF WriterStep, ReaderStep, BeginTopics, EndTopics, BeginWalk, WalkPage, Finish, allvars
<1> QED
  BY <1>1, PTL DEF ReaderSpec, Spec

\* All the rows are of one chain, so that no two of them are at the same position.
LEMMA NoTies ==
  ASSUME IInv, IndexInv, ShallowReorgs \/ OneChain, NEW r \in items, NEW s \in items, r # s
  PROVE  LaterThan(r, s) \/ LaterThan(s, r)
<1> SUFFICES \E b \in Blocks : OnChain(b, r) /\ OnChain(b, s)
  BY OneRow
<1>1. \A x \in items : Done(x) \/ Writing(x) \/ LeftOver(x)
  BY DEF IndexInv, Source
<1>2. CASE MidBlock
  <2>1. pc \in {"item", "payload"} /\ (pc = "payload" => idx <= Len(Outs[hash]))
    BY <1>2 DEF MidBlock, IInv, TypeOK
  <2>2. \A x \in items : OnChain(hash, x)
    BY <1>1, <2>1, AtBlock DEF Writing, row
  <2> QED
    BY <2>1, <2>2, AtBlock
<1>3. CASE ~MidBlock
  <2>1. \A x \in items : OnChain(IndexedHead, x) \/ LeftOver(x)
    BY <1>1, <1>3 DEF Done, Writing, MidBlock
  <2>2. IndexedHead \in Blocks \cup {NoHash}
    <3>1. ~Rewinding => IndexedHead \in Blocks \cup {NoHash}
      BY Types DEF IndexedHead
    <3>2. Rewinding /\ pc \notin {"anchor", "reanchor"} => IndexedHead = NoHash
      BY DEF IndexedHead
    <3>3. ASSUME Rewinding, pc \in {"anchor", "reanchor"}
          PROVE  IndexedHead \in Blocks
      <4>1. /\ cursor.hash \in Blocks /\ Height[cursor.hash] = cursor.height /\ StartHeight \in Nat
            /\ StartHeight < next /\ next <= cursor.height /\ next \in Nat /\ cursor.height \in Nat
        BY <3>3, Types DEF Rewinding, IInv, Control
      <4>2. Path[cursor.hash][next - 1] \in Blocks
        BY <4>1, OnPath
      <4> QED
        BY <3>3, <4>2 DEF IndexedHead
    <3> QED
      BY <3>1, <3>2, <3>3
  <2>3. CASE OnChain(IndexedHead, r) /\ OnChain(IndexedHead, s)
    BY <2>2, <2>3 DEF OnChain
  <2>4. CASE LeftOver(r) \/ LeftOver(s)
    <3>0. OneChain
      BY <2>4 DEF LeftOver
    <3>1. PICK b \in Blocks : Height[b] = ScanHeight
      BY <2>4 DEF LeftOver
    <3>2. \A c \in Blocks : Height[c] = ScanHeight => c = b
      <4> SUFFICES ASSUME NEW c \in Blocks, Height[c] = ScanHeight
                   PROVE  c = b
        OBVIOUS
      <4>1. Height[c] = Height[b] /\ Height[b] \in Nat
        BY <3>1, TreeAssumption
      <4>2. Path[b][Height[c]] = c /\ Path[b][Height[b]] = b
        BY <3>0, <4>1, TreeAssumption DEF OneChain
      <4> QED
        BY <4>1, <4>2
    <3>3. Height[b] \in Nat /\ Height[b] >= StartHeight /\ StartHeight \in Nat
      <4>1. Height[b] \in Nat /\ StartHeight \in Nat /\ NoHash \notin Blocks
        BY TreeAssumption, ScannerAssumption
      <4>2. CASE IndexedHead = NoHash
        BY <3>1, <4>1, <4>2 DEF ScanHeight
      <4>3. CASE IndexedHead # NoHash
        <5>1. ~Rewinding
          <6>1. pc \notin {"anchor", "reanchor"}
            BY <3>0 DEF IndexInv, Straight
          <6> QED
            BY <4>3, <6>1 DEF IndexedHead
        <5>2. IndexedHead = cursor.hash /\ cursor # NoCursor
          BY <4>3, <5>1, Types DEF IndexedHead
        <5>3. Height[IndexedHead] >= StartHeight /\ Height[IndexedHead] \in Nat
          BY <4>1, <5>2, Types
        <5> QED
          BY <3>1, <4>1, <4>3, <5>3 DEF ScanHeight
      <4> QED
        BY <4>2, <4>3
    <3>4. ASSUME NEW x \in items, LeftOver(x)
          PROVE  OnChain(b, x)
      <4>1. PICK i \in DOMAIN Outs[b] : x = RowOf(b, i)
        BY <3>2, <3>4 DEF LeftOver
      <4>2. x.height = Height[b] /\ Path[b][Height[b]] = b /\ b # NoHash
        BY <4>1, RowTypes, TreeAssumption
      <4> QED
        BY <3>3, <4>1, <4>2 DEF OnChain
    <3>5. ASSUME NEW x \in items, OnChain(IndexedHead, x)
          PROVE  OnChain(b, x)
      <4>1. IndexedHead \in Blocks /\ IndexedHead # NoHash
        BY <2>2, <3>5 DEF OnChain
      <4>2. Height[IndexedHead] \in Nat /\ Height[b] = Height[IndexedHead] + 1
        BY <3>1, <4>1, TreeAssumption DEF ScanHeight
      <4>3. Path[b][Height[IndexedHead]] = IndexedHead
        BY <3>0, <3>3, <4>1, <4>2 DEF OneChain
      <4>4. x.height \in Nat
        BY DEF IInv, TypeOK, StoreTypeOK, ItemRow
      <4>5. OnChain(Path[b][Height[IndexedHead]], x) <=> OnChain(b, x) /\ x.height <= Height[IndexedHead]
        BY <3>3, <4>2, <4>4, ChainCut
      <4> QED
        BY <3>5, <4>3, <4>5
    <3> QED
      BY <2>1, <3>4, <3>5
  <2> QED
    BY <2>1, <2>3, <2>4
<1> QED
  BY <1>2, <1>3

\* Where a story is in the feed.
Newer(ids, id) == {s \in ids : LaterThan(ItemOf(s), ItemOf(id))}

\* The stories that a feed shows before a story are those that are newer.
LEMMA FeedPosition ==
  ASSUME IInv, IndexInv, QueryInv, ShallowReorgs \/ OneChain, NEW ids, ids \subseteq stories,
         NEW t \in Lists(FeedSet(ids)), \A j, k \in DOMAIN t : j < k => ~LaterThan(t[k], t[j])
  PROVE  /\ \A i \in DOMAIN t : /\ t[i].id \in ids /\ t[i] = FeedOf(t[i].id)
                                /\ Cardinality(Newer(ids, t[i].id)) = i - 1
         /\ \A id \in ids : \E i \in DOMAIN t : t[i].id = id
<1> DEFINE RowAt(i) == ItemOf(t[i].id)
<1>1. DOMAIN t = 1 .. Cardinality(ids) /\ Cardinality(ids) \in Nat
  <2>1. IsFiniteSet(ids)
    BY PartSize DEF QueryInv, Finite
  <2> QED
    BY <2>1, FeedRows, InLists, FS_CardinalityType
<1>2. /\ \A i, j \in DOMAIN t : t[i] = t[j] => i = j
      /\ \A x \in FeedSet(ids) : \E i \in DOMAIN t : t[i] = x
      /\ \A i \in DOMAIN t : t[i] \in FeedSet(ids)
  BY InLists
<1>3. ASSUME NEW i \in DOMAIN t
      PROVE  t[i].id \in ids /\ t[i] = FeedOf(t[i].id)
  <2>1. PICK id \in ids : t[i] = FeedOf(id)
    BY <1>2 DEF FeedSet
  <2> QED
    BY <2>1, FeedItemIs
<1>4. ASSUME NEW id \in ids
      PROVE  \E i \in DOMAIN t : t[i].id = id
  <2>1. PICK i \in DOMAIN t : t[i] = FeedOf(id)
    BY <1>2 DEF FeedSet
  <2> QED
    BY <2>1, FeedItemIs
<1>5. ASSUME NEW i \in DOMAIN t, NEW j \in DOMAIN t, t[i].id = t[j].id
      PROVE  i = j
  <2>1. t[i] = t[j]
    BY <1>3, <1>5, Zenon
  <2> QED
    BY <1>2, <2>1
<1>6. \A i \in DOMAIN t : RowAt(i) \in items /\ RowAt(i) \in ItemRow /\ RowAt(i).id = t[i].id
  BY <1>3, StoryRow
<1>7. ASSUME NEW i \in DOMAIN t, NEW j \in DOMAIN t
      PROVE  LaterThan(t[i], t[j]) <=> LaterThan(RowAt(i), RowAt(j))
  <2>1. ASSUME NEW k \in DOMAIN t
        PROVE  /\ t[k].height = RowAt(k).height
               /\ t[k].tx = RowAt(k).tx /\ t[k].vout = RowAt(k).vout
    BY <1>3, <2>1, FeedItemIs
  <2> HIDE DEF RowAt
  <2> QED
    BY <2>1 DEF LaterThan
<1>8. ASSUME NEW i \in DOMAIN t, NEW j \in DOMAIN t
      PROVE  LaterThan(RowAt(i), RowAt(j)) <=> i < j
  <2>0. i \in Nat /\ j \in Nat
    BY <1>1
  <2>1. /\ i < j => ~LaterThan(RowAt(j), RowAt(i))
        /\ j < i => ~LaterThan(RowAt(i), RowAt(j))
    BY <1>7
  <2>2. i # j => RowAt(i) # RowAt(j)
    BY <1>5, <1>6
  <2>3. i # j => LaterThan(RowAt(i), RowAt(j)) \/ LaterThan(RowAt(j), RowAt(i))
    BY <1>6, <2>2, NoTies
  <2>4. i = j => ~LaterThan(RowAt(i), RowAt(j))
    BY <1>6, Order
  <2> QED
    BY <2>0, <2>1, <2>3, <2>4
<1>9. ASSUME NEW i \in DOMAIN t
      PROVE  Cardinality(Newer(ids, t[i].id)) = i - 1
  <2> DEFINE D == 1 .. i - 1
             g == [x \in D |-> t[x].id]
  <2>0. i - 1 \in Nat /\ D \subseteq DOMAIN t /\ \A j \in DOMAIN t : j < i <=> j \in D
    BY <1>1
  <2>1. IsFiniteSet(D) /\ Cardinality(D) = i - 1
    BY <2>0, Positions
  <2>2. \A x, y \in D : g[x] = g[y] => x = y
    BY <1>5, <2>0
  <2>3. {g[x] : x \in D} = Newer(ids, t[i].id)
    <3>1. ASSUME NEW x \in D
          PROVE  t[x].id \in Newer(ids, t[i].id)
      <4>1. x \in DOMAIN t /\ x < i
        BY <2>0
      <4>2. LaterThan(ItemOf(t[x].id), ItemOf(t[i].id))
        BY <1>8, <4>1
      <4> QED
        BY <1>3, <4>1, <4>2 DEF Newer
    <3>2. ASSUME NEW q \in Newer(ids, t[i].id)
          PROVE  \E x \in D : t[x].id = q
      <4>1. q \in ids /\ LaterThan(ItemOf(q), ItemOf(t[i].id))
        BY <3>2 DEF Newer
      <4>2. PICK x \in DOMAIN t : t[x].id = q
        BY <1>4, <4>1
      <4>3. LaterThan(RowAt(x), RowAt(i))
        BY <4>1, <4>2
      <4>4. x < i
        BY <1>8, <4>3
      <4> QED
        BY <2>0, <4>2, <4>4
    <3> HIDE DEF D
    <3> QED
      BY <3>1, <3>2
  <2>4. DOMAIN g = D /\ g = [x \in D |-> g[x]]
    OBVIOUS
  <2> HIDE DEF D, g
  <2> QED
    BY <2>1, <2>2, <2>3, <2>4, ImageSize
<1> QED
  BY <1>3, <1>4, <1>9

\* Max and Min of two numbers.
LEMMA MaxMin ==
  ASSUME NEW a \in Int, NEW b \in Int
  PROVE  /\ Max({a, b}) = IF a >= b THEN a ELSE b
         /\ Min({a, b}) = IF a <= b THEN a ELSE b
<1>1. \E x \in {a, b} : \A y \in {a, b} : x >= y
  OBVIOUS
<1>2. \E x \in {a, b} : \A y \in {a, b} : x =< y
  OBVIOUS
<1>3. Max({a, b}) \in {a, b} /\ \A y \in {a, b} : Max({a, b}) >= y
  BY <1>1 DEF Max
<1>4. Min({a, b}) \in {a, b} /\ \A y \in {a, b} : Min({a, b}) =< y
  BY <1>2 DEF Min
<1> QED
  BY <1>3, <1>4

\* Where a page ends.
PageEnd(n, limit, offset) == IF offset + limit <= n THEN offset + limit ELSE n

\* page: the elements from the offset on, up to the limit.
LEMMA PageIs ==
  ASSUME NEW S, NEW t \in Seq(S), NEW limit \in Nat, limit > 0, NEW offset \in Nat
  PROVE  LET n == Len(t)
             e == PageEnd(n, limit, offset)
             p == Page(t, limit, offset)
         IN  /\ p = SubSeq(t, offset + 1, e)
             /\ p \in Seq(S)
             /\ Len(p) = IF offset <= n THEN e - offset ELSE 0
             /\ \A i \in 1 .. Len(p) : p[i] = t[offset + i]
<1> DEFINE n == Len(t)
           e == PageEnd(n, limit, offset)
           p == Page(t, limit, offset)
<1>1. n \in Nat /\ e \in Nat /\ e <= n /\ (offset <= n => offset <= e)
  BY DEF PageEnd
<1>2. Max({offset, 0}) = offset
  BY MaxMin
<1>3. Min({offset + limit, n}) = e
  <2> DEFINE a == offset + limit
  <2>1. a \in Int /\ n \in Int /\ e = IF a <= n THEN a ELSE n
    BY <1>1 DEF PageEnd
  <2> HIDE DEF a, n, e
  <2>2. Min({a, n}) = e
    BY <2>1, MaxMin
  <2> QED
    BY <2>2 DEF a
<1>4. p = SubSeq(t, offset + 1, e)
  BY <1>2, <1>3 DEF Page
<1> HIDE DEF n, e, p
<1>5. CASE offset <= n
  <2>1. p \in Seq(S) /\ Len(p) = e - offset
    BY <1>1, <1>4, <1>5 DEF n
  <2>2. \A i \in 1 .. Len(p) : p[i] = t[offset + i]
    BY <1>1, <1>4, <1>5, <2>1 DEF n
  <2> QED
    BY <1>4, <1>5, <2>1, <2>2 DEF n, e, p
<1>6. CASE offset > n
  <2>1. p = <<>>
    BY <1>1, <1>4, <1>6 DEF n
  <2> QED
    BY <1>1, <1>4, <1>6, <2>1 DEF n, e, p
<1> QED
  BY <1>1, <1>5, <1>6

\* A page of the feed without filters.
LEMMA FeedPage ==
  ASSUME IInv, IndexInv, QueryInv, ShallowReorgs \/ OneChain, NEW limit \in Nat, limit > 0,
         NEW offset \in Nat, NEW page \in NewFeed(FeedQuery({}, {}, TRUE, limit, offset))
  PROVE  \A id \in stories :
           LET k == Cardinality(Newer(stories, id))
           IN  /\ k \in Nat
               /\ offset <= k /\ k < offset + limit => id \in {f.id : f \in ToSet(page)}
               /\ offset <= k => page # <<>>
<1> DEFINE q == FeedQuery({}, {}, TRUE, limit, offset)
           S == FeedSet(stories)
           n == Cardinality(stories)
<1>1. Filter(q) = stories /\ q.limit = limit /\ q.offset = offset
  BY DEF Filter, FeedQuery
<1>2. /\ IsFiniteSet(S) /\ Cardinality(S) = n /\ Placed(S) /\ n \in Nat
      /\ QueryFeed(stories) = Lists(S)
  BY FeedRows, FS_CardinalityType DEF QueryInv, Finite
<1> HIDE DEF q, S, n
<1>3. PICK s \in Lists(S) : page = Page(SortByNewest(s), limit, offset)
  BY <1>1, <1>2 DEF NewFeed, q
<1> DEFINE t == SortByNewest(s)
<1>4. t \in Lists(S) /\ \A j, k \in 1 .. n : j < k => ~LaterThan(t[k], t[j])
  BY <1>2, NewestFirst
<1> HIDE DEF t
<1>5. DOMAIN t = 1 .. n /\ Len(t) = n /\ t \in Seq(S)
  <2>1. t \in [1 .. n -> S]
    BY <1>2, <1>4 DEF Lists
  <2> QED
    BY <1>2, <2>1
<1>6. /\ \A i \in 1 .. n : t[i].id \in stories /\ Cardinality(Newer(stories, t[i].id)) = i - 1
      /\ \A id \in stories : \E i \in 1 .. n : t[i].id = id
  BY <1>4, <1>5, FeedPosition DEF S
<1> DEFINE e == PageEnd(n, limit, offset)
<1>7. /\ Len(page) = IF offset <= n THEN e - offset ELSE 0
      /\ page \in Seq(S)
      /\ \A i \in 1 .. Len(page) : page[i] = t[offset + i]
  BY <1>3, <1>5, PageIs DEF t
<1> SUFFICES ASSUME NEW id \in stories
             PROVE  LET k == Cardinality(Newer(stories, id))
                    IN  /\ k \in Nat
                        /\ offset <= k /\ k < offset + limit => id \in {f.id : f \in ToSet(page)}
                        /\ offset <= k => page # <<>>
  OBVIOUS
<1>8. PICK i \in 1 .. n : t[i].id = id
  BY <1>6
<1>9. Cardinality(Newer(stories, id)) = i - 1
  BY <1>6, <1>8
<1>10. ASSUME offset <= i - 1
       PROVE  Len(page) > 0
  BY <1>2, <1>7, <1>10 DEF PageEnd
<1>11. ASSUME offset <= i - 1, i - 1 < offset + limit
       PROVE  id \in {f.id : f \in ToSet(page)}
  <2>1. i - offset \in 1 .. Len(page) /\ offset + (i - offset) = i
    BY <1>2, <1>7, <1>11 DEF PageEnd
  <2>2. page[i - offset] = t[i] /\ i - offset \in DOMAIN page
    BY <1>7, <2>1
  <2> QED
    BY <1>8, <2>2 DEF ToSet
<1> QED
  BY <1>2, <1>7, <1>9, <1>10, <1>11

\* An item that is there keeps its row while rows are only added.
LEMMA RowStays ==
  ASSUME IInv, IInv', items \subseteq items', NEW id, ItemByID(id)
  PROVE  /\ ItemByID(id)' /\ ItemOf(id)' = ItemOf(id)
         /\ ItemOf(id) \in items /\ ItemOf(id).id = id
<1>1. ItemOf(id) \in items /\ ItemOf(id).id = id
  BY DEF ItemByID, ItemOf
<1>2. ItemByID(id)'
  BY <1>1 DEF ItemByID
<1>3. ItemOf(id)' \in items' /\ ItemOf(id)'.id = id
  BY <1>2 DEF ItemByID, ItemOf
<1>4. ItemOf(id)' = ItemOf(id)
  BY <1>1, <1>3 DEF IInv, TypeOK, StoreTypeOK
<1> QED
  BY <1>1, <1>2, <1>4

\* A story moves down the feed and never up while rows are only added.
LEMMA MovesDown ==
  ASSUME IInv, QueryInv, IInv', QueryInv', items \subseteq items', stories \subseteq stories',
         NEW id \in stories
  PROVE  /\ Cardinality(Newer(stories, id)) \in Nat
         /\ Cardinality(Newer(stories, id))' \in Nat
         /\ Cardinality(Newer(stories, id)) <= Cardinality(Newer(stories, id))'
<1> DEFINE S == Newer(stories, id)
           T == Newer(stories, id)'
<1>1. \A s \in stories : ItemOf(s)' = ItemOf(s)
  BY StoryRow, RowStays
<1>2. S \subseteq T
  BY <1>1 DEF Newer
<1>3. T \subseteq stories' /\ IsFiniteSet(stories')
  BY DEF Newer, QueryInv, Finite
<1> HIDE DEF S, T
<1>4. IsFiniteSet(T)
  BY <1>3, PartSize
<1>5. Cardinality(S) \in Nat /\ Cardinality(T) \in Nat /\ Cardinality(S) <= Cardinality(T)
  BY <1>2, <1>4, PartSize
<1> QED
  BY <1>5 DEF S, T

\* The walk of a client: every story that was there when it began was shown, or is still
\* to come.
WalkInv ==
  /\ at \in Nat
  /\ req \in {"idle", "topics", "listed"} => at = 0
  /\ req \in {"walk", "walked"} /\ clean =>
       \A id \in base.ids :
         /\ id \in stories
         /\ id \in seen \/ (req = "walk" /\ Cardinality(Newer(stories, id)) >= at)

\* It holds when a client begins, ...
LEMMA InitWalkInv == ReaderInit => WalkInv
BY DEF ReaderInit, WalkInv

\* ... every step of the scanner keeps it, ...
LEMMA WriterWalkInv ==
  ASSUME IInv, QueryInv, WalkInv, WriterStep, IInv', QueryInv'
  PROVE  WalkInv'
<1>1. UNCHANGED <<req, at, seen>>
  BY DEF WriterStep
<1> SUFFICES ASSUME req \in {"walk", "walked"}, clean', NEW id \in base'.ids
             PROVE  /\ id \in stories'
                    /\ id \in seen \/ (req = "walk" /\ Cardinality(Newer(stories, id))' >= at)
  BY <1>1 DEF WalkInv
<1>2. base' = base /\ clean /\ stories \subseteq stories' /\ items \subseteq items'
  BY DEF WriterStep
<1>3. id \in stories /\ (id \in seen \/ (req = "walk" /\ Cardinality(Newer(stories, id)) >= at))
  BY <1>2 DEF WalkInv
<1>4. /\ Cardinality(Newer(stories, id)) \in Nat
      /\ Cardinality(Newer(stories, id))' \in Nat
      /\ Cardinality(Newer(stories, id)) <= Cardinality(Newer(stories, id))'
  BY <1>2, <1>3, MovesDown
<1>5. at \in Nat
  BY DEF WalkInv
<1> QED
  BY <1>2, <1>3, <1>4, <1>5

\* ... and so does every request.
LEMMA ReaderWalkInv ==
  ASSUME IInv, IndexInv, QueryInv, ShallowReorgs \/ OneChain, WalkInv, ReaderStep
  PROVE  WalkInv'
<1>0. UNCHANGED <<items, stories>>
  BY DEF ReaderStep, BeginTopics, EndTopics, BeginWalk, WalkPage, Finish, vars, store, tables
<1>1. CASE BeginTopics \/ EndTopics \/ Finish
  BY <1>1 DEF BeginTopics, EndTopics, Finish, WalkInv
<1>2. CASE BeginWalk
  <2>1. at' = 0 /\ base'.ids = stories /\ req' = "walk"
    BY <1>2 DEF BeginWalk, Snapshot, WalkInv
  <2>2. ASSUME NEW id \in stories
        PROVE  Cardinality(Newer(stories, id))' >= 0
    <3>1. Newer(stories, id)' = Newer(stories, id)
      BY <1>0 DEF Newer, ItemOf
    <3>2. Newer(stories, id) \subseteq stories /\ IsFiniteSet(stories)
      BY DEF Newer, QueryInv, Finite
    <3>3. Cardinality(Newer(stories, id)) \in Nat
      BY <3>2, PartSize
    <3> QED
      BY <3>1, <3>3
  <2> QED
    BY <1>0, <2>1, <2>2 DEF WalkInv
<1>3. CASE WalkPage
  <2>1. PICK page \in NewFeed(FeedQuery({}, {}, TRUE, PageSize, at)) :
          /\ req' = IF page = <<>> THEN "walked" ELSE "walk"
          /\ seen' = seen \cup {f.id : f \in ToSet(page)}
    BY <1>3 DEF WalkPage
  <2>2. /\ req = "walk" /\ at' = at + PageSize /\ base' = base /\ clean' = clean
        /\ at \in Nat /\ PageSize \in Nat /\ PageSize > 0
    BY <1>3, ReaderAssumption DEF WalkPage, WalkInv
  <2>3. ASSUME clean, NEW id \in base.ids
        PROVE  /\ id \in stories
               /\ id \in seen' \/ (req' = "walk" /\ Cardinality(Newer(stories, id)) >= at')
    <3>1. id \in stories /\ (id \in seen \/ Cardinality(Newer(stories, id)) >= at)
      BY <2>2, <2>3 DEF WalkInv
    <3>2. /\ Cardinality(Newer(stories, id)) \in Nat
          /\ at <= Cardinality(Newer(stories, id)) /\ Cardinality(Newer(stories, id)) < at + PageSize
               => id \in {f.id : f \in ToSet(page)}
          /\ at <= Cardinality(Newer(stories, id)) => page # <<>>
      BY <2>2, <3>1, FeedPage
    <3> QED
      BY <2>1, <2>2, <3>1, <3>2
  <2>4. \A id : Newer(stories, id)' = Newer(stories, id)
    BY <1>0 DEF Newer, ItemOf
  <2>5. at' \in Nat /\ req' \in {"walk", "walked"}
    BY <2>1, <2>2
  <2> QED
    BY <1>0, <2>2, <2>3, <2>4, <2>5 DEF WalkInv
<1> QED
  BY <1>1, <1>2, <1>3 DEF ReaderStep

\* NewFeed, asked for page after page while blocks are indexed: a client misses no story
\* that was there when it began, unless rows were deleted meanwhile.
THEOREM WalkSkipsNothing ==
  ASSUME ShallowReorgs \/ OneChain
  PROVE  ReaderSpec => []NoStorySkipped
<1> DEFINE Inv == IInv /\ IndexInv /\ QueryInv
<1>1. Spec => []Inv
  BY IndexInvariance, QueryInvariance, PTL
<1>2. Inv /\ Inv' /\ WalkInv /\ [WriterStep \/ ReaderStep]_allvars => WalkInv'
  <2>1. ASSUME Inv, Inv', WalkInv, UNCHANGED allvars
        PROVE  WalkInv'
    <3>1. UNCHANGED <<req, base, at, seen, clean, items, stories>>
      BY <2>1 DEF allvars, vars, rvars, store, tables
    <3>2. \A id : Newer(stories, id)' = Newer(stories, id)
      BY <3>1 DEF Newer, ItemOf
    <3> QED
      BY <2>1, <3>1, <3>2 DEF WalkInv
  <2> QED
    BY <2>1, WriterWalkInv, ReaderWalkInv
<1>3. WalkInv => NoStorySkipped
  BY DEF WalkInv, NoStorySkipped
<1> HIDE DEF Inv
<1> QED
  BY <1>1, <1>2, <1>3, InitWalkInv, ReadersOnlyRead, PTL DEF ReaderSpec

-----------------------------------------------------------------------------
\* The list of the topics, whose counts come from a second query.

IsTopic(id) == ItemByID(id) /\ Msg[id].kind = "topic"

\* The stories of a listed topic that precede its creation.
Earlier(t) ==
  {id \in stories : Msg[id].topic = t.topic /\ LaterThan(ItemOf(t.id), ItemOf(id))}

TopicInv ==
  /\ base.rows \subseteq TopicRow /\ IsFiniteSet(base.rows)
  /\ req = "topics" /\ clean => \A t \in base.rows : IsTopic(t.id)
  /\ req = "listed" /\ clean =>
       \A t \in ToSet(answer) :
         IsTopic(t.id) /\ t.count \in Nat /\ t.count >= Cardinality(Earlier(t))

\* What ListTopics makes of the results of its two queries: an entry for each topic.
TopicEntry(t, counts) ==
  [topic |-> t.topic, id |-> t.id, height |-> t.height, count |-> counts[t.topic]]

\* The entries of a list of topics are those of the rows it is made of.
LEMMA TopicListIs ==
  ASSUME NEW rows, NEW counts, rows \subseteq TopicRow, IsFiniteSet(rows)
  PROVE  \A list \in TopicList(rows, counts) : ToSet(list) = {TopicEntry(t, counts) : t \in rows}
<1> DEFINE f == [t \in rows |-> TopicEntry(t, counts)]
           S == {TopicEntry(t, counts) : t \in rows}
<1>1. \A x, y \in rows : f[x] = f[y] => x = y
  BY DEF TopicEntry, TopicRow
<1>2. {f[x] : x \in rows} = S /\ DOMAIN f = rows /\ f = [x \in rows |-> f[x]]
  OBVIOUS
<1>3. \A x \in S : x.height \in Nat
  BY DEF TopicEntry, TopicRow
<1>4. TopicList(rows, counts) = {SortByHeight(s) : s \in SetToSeqs(S)}
  BY DEF TopicList, SortByHeight, TopicEntry
<1> HIDE DEF f, S
<1>5. IsFiniteSet(S)
  BY <1>1, <1>2, ImageSize
<1>6. SetToSeqs(S) = Lists(S)
  BY <1>5, ListsOf
<1>7. ASSUME NEW s \in Lists(S)
      PROVE  ToSet(SortByHeight(s)) = S
  <2>1. SortByHeight(s) \in Lists(S)
    BY <1>3, <1>5, LowestFirst
  <2> QED
    BY <1>5, <2>1, WholePage
<1> QED
  BY <1>4, <1>6, <1>7 DEF S

\* The first query reads topics, each with the item that created it.
LEMMA TopicSnapshot ==
  ASSUME IInv, IndexInv, QueryInv
  PROVE  /\ Snapshot.rows \subseteq TopicRow /\ IsFiniteSet(Snapshot.rows)
         /\ \A t \in Snapshot.rows : IsTopic(t.id)
<1>1. Snapshot.rows = TopicRows /\ TopicRows \subseteq topics
  BY DEF Snapshot, TopicRows
<1>2. IsFiniteSet(topics) /\ topics \subseteq TopicRow
  BY DEF QueryInv, Finite, IInv, TypeOK, StoreTypeOK
<1>3. IsFiniteSet(TopicRows)
  BY <1>1, <1>2, PartSize
<1>4. \A t \in topics : IsTopic(t.id)
  BY DEF IndexInv, Tables, Firsts, IsTopic, ItemByID, TopicOf
<1> QED
  BY <1>1, <1>2, <1>3, <1>4

\* A story that is added while nothing is deleted is later than every topic that is
\* there, so that what precedes a topic stays as it is.
LEMMA EarlierStays ==
  ASSUME IInv, IndexInv, QueryInv, ShallowReorgs, [Next]_vars, IInv', items \subseteq items',
         stories \subseteq stories', NEW t, IsTopic(t.id)
  PROVE  Earlier(t)' \subseteq Earlier(t)
<1>1. ItemOf(t.id)' = ItemOf(t.id) /\ ItemOf(t.id) \in items /\ ItemOf(t.id).id = t.id
  BY RowStays DEF IsTopic
<1>2. \A id \in stories : ItemOf(id)' = ItemOf(id)
  BY StoryRow, RowStays
<1>3. CASE stories' = stories
  BY <1>1, <1>2, <1>3 DEF Earlier
<1>4. CASE stories' = stories \cup {row.id} /\ PersistStory
  <2>1. pc = "payload" /\ Msg[row.id].kind = "story" /\ idx <= Len(Outs[hash])
    BY <1>4 DEF PersistStory, msg, IInv, TypeOK
  <2>2. row \in items
    BY <2>1 DEF IndexInv, RowThere
  <2>3. ItemByID(row.id) /\ \A r \in items : r.id = row.id => r = row
    BY <2>2 DEF ItemByID, IInv, TypeOK, StoreTypeOK
  <2>0. PICK x : x = row.id
    OBVIOUS
  <2>4. ItemOf(x)' = ItemOf(x) /\ ItemOf(x) \in items /\ ItemOf(x).id = x
    BY <2>0, <2>3, RowStays
  <2>5. ItemOf(x) = row /\ stories' = stories \cup {x}
    BY <1>4, <2>0, <2>3, <2>4
  <2>6. Done(ItemOf(t.id))
    <3>1. ~LeftOver(ItemOf(t.id))
      BY DEF LeftOver, ShallowReorgs
    <3>2. ~Writing(ItemOf(t.id))
      BY <1>1, <2>1 DEF Writing, IsTopic
    <3> QED
      BY <1>1, <3>1, <3>2 DEF IndexInv, Source
  <2>7. LaterThan(row, ItemOf(t.id))
    BY <2>1, <2>6, AtBlock
  <2>8. row \in ItemRow /\ ItemOf(t.id) \in ItemRow
    BY <1>1, <2>2 DEF IInv, TypeOK, StoreTypeOK
  <2>9. ~LaterThan(ItemOf(t.id), row)
    BY <2>7, <2>8 DEF LaterThan, ItemRow
  <2> QED
    BY <1>1, <1>2, <2>4, <2>5, <2>9 DEF Earlier
<1> QED
  BY <1>3, <1>4, TableSteps

\* The count of a topic is that of all its stories.
LEMMA CountsAll ==
  ASSUME QueryInv, NEW t \in TopicRow
  PROVE  LET e == TopicEntry(t, StoryCounts)
         IN  /\ e.id = t.id /\ e.count \in Nat /\ e.count >= Cardinality(Earlier(e))
<1> DEFINE e == TopicEntry(t, StoryCounts)
           S == {id \in stories : Msg[id].topic = t.topic}
<1>1. e.id = t.id /\ e.topic = t.topic /\ e.count = Cardinality(S)
  BY DEF TopicEntry, StoryCounts, TopicRow
<1>2. S \subseteq stories /\ IsFiniteSet(stories)
  BY DEF QueryInv, Finite
<1>3. Earlier(e) \subseteq S
  BY <1>1 DEF Earlier
<1> HIDE DEF e, S
<1>4. IsFiniteSet(S) /\ Cardinality(S) \in Nat
  BY <1>2, PartSize
<1>5. Cardinality(Earlier(e)) <= Cardinality(S) /\ Cardinality(Earlier(e)) \in Nat
  BY <1>3, <1>4, PartSize
<1> QED
  BY <1>1, <1>4, <1>5 DEF e

\* Every step of the scanner keeps the invariant ...
LEMMA WriterTopicInv ==
  ASSUME IInv, IndexInv, QueryInv, ShallowReorgs, TopicInv, WriterStep, IInv', IndexInv', QueryInv'
  PROVE  TopicInv'
<1>0. UNCHANGED <<req, answer>> /\ Next
  BY DEF WriterStep
<1>1. CASE req = "idle"
  <2>1. base' = Snapshot'
    BY <1>1 DEF WriterStep
  <2>2. base'.rows \subseteq topics'
    BY <2>1 DEF Snapshot, TopicRows
  <2>3. base'.rows \subseteq TopicRow /\ IsFiniteSet(base'.rows)
    BY <2>2, PartSize DEF QueryInv, Finite, IInv, TypeOK, StoreTypeOK
  <2> QED
    BY <1>0, <1>1, <2>3 DEF TopicInv
<1>2. CASE req # "idle"
  <2>1. base' = base /\ (clean' => clean /\ stories \subseteq stories' /\ items \subseteq items')
    BY <1>2 DEF WriterStep
  <2>2. ASSUME clean', NEW id, IsTopic(id)
        PROVE  IsTopic(id)'
    BY <2>1, <2>2 DEF IsTopic, ItemByID
  <2>3. ASSUME clean', NEW t, IsTopic(t.id), t.count \in Nat, t.count >= Cardinality(Earlier(t))
        PROVE  t.count >= Cardinality(Earlier(t))'
    <3>1. Earlier(t)' \subseteq Earlier(t)
      BY <1>0, <2>1, <2>3, EarlierStays
    <3>2. Earlier(t) \subseteq stories /\ IsFiniteSet(stories)
      BY DEF Earlier, QueryInv, Finite
    <3> DEFINE A == Earlier(t)
               B == Earlier(t)'
    <3> HIDE DEF A, B
    <3>3. IsFiniteSet(A)
      BY <3>2, PartSize DEF A
    <3>4. Cardinality(B) <= Cardinality(A) /\ Cardinality(A) \in Nat /\ Cardinality(B) \in Nat
      BY <3>1, <3>3, PartSize DEF A, B
    <3>5. t.count >= Cardinality(B)
      BY <2>3, <3>4 DEF A
    <3> QED
      BY <3>5 DEF B
  <2> QED
    BY <1>0, <2>1, <2>2, <2>3 DEF TopicInv
<1> QED
  BY <1>1, <1>2

\* ... and so does every request.
LEMMA ReaderTopicInv ==
  ASSUME IInv, IndexInv, QueryInv, TopicInv, ReaderStep
  PROVE  TopicInv'
<1>0. UNCHANGED <<items, stories, topics>>
  BY DEF ReaderStep, BeginTopics, EndTopics, BeginWalk, WalkPage, Finish, vars, store, tables
<1>1. \A id : IsTopic(id)' <=> IsTopic(id)
  BY <1>0 DEF IsTopic, ItemByID
<1>2. \A t : Earlier(t)' = Earlier(t)
  BY <1>0 DEF Earlier, ItemOf
<1>3. CASE BeginTopics \/ BeginWalk \/ Finish
  <2>1. base' = Snapshot /\ req' \in {"topics", "walk", "idle"}
    BY <1>3 DEF BeginTopics, BeginWalk, Finish
  <2> QED
    BY <1>1, <2>1, TopicSnapshot DEF TopicInv
<1>4. CASE EndTopics
  <2>1. /\ req = "topics" /\ req' = "listed" /\ base' = base /\ clean' = clean
        /\ answer' \in TopicList(base.rows, StoryCounts)
    BY <1>4 DEF EndTopics, TopicsAnswer
  <2>2. base.rows \subseteq TopicRow /\ IsFiniteSet(base.rows)
        /\ (clean => \A t \in base.rows : IsTopic(t.id))
    BY <2>1 DEF TopicInv
  <2>3. ToSet(answer') = {TopicEntry(t, StoryCounts) : t \in base.rows}
    BY <2>1, <2>2, TopicListIs
  <2>4. ASSUME clean, NEW e \in ToSet(answer')
        PROVE  IsTopic(e.id) /\ e.count \in Nat /\ e.count >= Cardinality(Earlier(e))
    <3>1. PICK t \in base.rows : e = TopicEntry(t, StoryCounts)
      BY <2>3, <2>4
    <3>2. t \in TopicRow /\ IsTopic(t.id)
      BY <2>2, <2>4
    <3> QED
      BY <3>1, <3>2, CountsAll
  <2> QED
    BY <1>1, <1>2, <2>1, <2>2, <2>4 DEF TopicInv
<1>5. CASE WalkPage
  <2>1. base' = base /\ req' \in {"walk", "walked"}
    BY <1>5 DEF WalkPage
  <2> QED
    BY <2>1 DEF TopicInv
<1> QED
  BY <1>3, <1>4, <1>5 DEF ReaderStep

\* ListTopics, whose two queries see two states of the tables: the count of a listed topic
\* includes all the stories that precede its creation in the chain, unless rows were
\* deleted meanwhile.
THEOREM CountsFollowTopics ==
  ASSUME ShallowReorgs
  PROVE  ReaderSpec => []CountsCoverTopic
<1> DEFINE Inv == IInv /\ IndexInv /\ QueryInv
<1>1. Spec => []Inv
  BY IndexInvariance, QueryInvariance, PTL
<1>2. Inv /\ ReaderInit => TopicInv
  BY TopicSnapshot DEF ReaderInit, TopicInv
<1>3. Inv /\ Inv' /\ TopicInv /\ [WriterStep \/ ReaderStep]_allvars => TopicInv'
  <2>1. ASSUME TopicInv, UNCHANGED allvars
        PROVE  TopicInv'
    <3>1. UNCHANGED <<req, base, answer, clean, items, stories>>
      BY <2>1 DEF allvars, vars, rvars, store, tables
    <3>2. \A id : IsTopic(id)' <=> IsTopic(id)
      BY <3>1 DEF IsTopic, ItemByID
    <3>3. \A t : Earlier(t)' = Earlier(t)
      BY <3>1 DEF Earlier, ItemOf
    <3> QED
      BY <2>1, <3>1, <3>2, <3>3 DEF TopicInv
  <2> QED
    BY <2>1, WriterTopicInv, ReaderTopicInv
<1>4. TopicInv => CountsCoverTopic
  BY DEF TopicInv, CountsCoverTopic, IsTopic, Earlier
<1> HIDE DEF Inv
<1> QED
  BY <1>1, <1>2, <1>3, <1>4, ReadersOnlyRead, PTL DEF ReaderSpec

-----------------------------------------------------------------------------
\* The two surfaces of the API.

\* Max, of a number that is not negative and zero.
LEMMA MaxZero ==
  ASSUME NEW n \in Nat
  PROVE  Max({n, 0}) = n
BY DEF Max

\* The 32-bit conversions leave a number in their range as it is.
LEMMA InRange ==
  ASSUME NEW n \in Int
  PROVE  /\ 0 <= n /\ n < 2 * Half => Uint32(n) = n
         /\ -Half <= n /\ n < Half => Int32(n) = n
<1>1. ASSUME NEW m \in Nat, NEW k \in Nat, m < k
      PROVE  m % k = m
  BY <1>1
<1>2. Half \in Nat
  BY ApiAssumption
<1>3. 2 * Half \in Nat
  BY <1>2
<1>4. 0 <= n /\ n < 2 * Half => Uint32(n) = n
  BY <1>1, <1>3 DEF Uint32
<1>5. ASSUME -Half <= n, n < Half
      PROVE  Int32(n) = n
  <2>1. n + Half \in Nat /\ n + Half < 2 * Half
    BY <1>2, <1>5
  <2>2. (n + Half) % (2 * Half) = n + Half
    BY <1>1, <1>3, <2>1
  <2> QED
    BY <1>2, <2>2 DEF Int32
<1> QED
  BY <1>4, <1>5

\* So does that of a height: it is the height of a block.
LEMMA HeightFits ==
  ASSUME QueryInv
  PROVE  \A r \in items \cup topics : r.height \in Nat /\ Uint32(r.height) = r.height
<1> SUFFICES ASSUME NEW r \in items \cup topics
             PROVE  r.height \in Nat /\ Uint32(r.height) = r.height
  OBVIOUS
<1>1. PICK b \in Blocks : r.height = Height[b]
  BY DEF QueryInv, Mined
<1>2. Height[b] \in Nat /\ Height[b] < 2 * Half
  BY TreeAssumption, SizeAssumption
<1> QED
  BY <1>1, <1>2, InRange

\* So does that of a comment count: a story has no more comments than there are items.
LEMMA CountFits ==
  ASSUME IInv, NEW id
  PROVE  CommentCount(id) \in Nat /\ Int32(CommentCount(id)) = CommentCount(id)
<1>1. Replies(id) \subseteq Items
  BY DEF Replies, IInv, TypeOK, StoreTypeOK
<1>2. CommentCount(id) \in Nat /\ CommentCount(id) <= Cardinality(Items)
  BY <1>1, SizeAssumption, PartSize DEF CommentCount
<1>3. Half \in Nat /\ Cardinality(Items) \in Nat /\ Cardinality(Items) < Half
  BY ApiAssumption, SizeAssumption, FS_CardinalityType
<1>4. -Half <= CommentCount(id) /\ CommentCount(id) < Half
  BY <1>2, <1>3
<1> QED
  BY <1>2, <1>4, InRange

\* So does that of the points: an author has one vote on a story.
LEMMA PointsFit ==
  ASSUME IInv, NEW id
  PROVE  Points(id) \in Int /\ Int32(Points(id)) = Points(id)
<1> DEFINE U == {v \in votes : v.target = id /\ v.up}
           D == {v \in votes : v.target = id /\ ~v.up}
<1>1. ASSUME NEW V, V \subseteq {v \in votes : v.target = id}
      PROVE  Cardinality(V) \in Nat /\ Cardinality(V) < Half
  <2> DEFINE f == [v \in V |-> v.author]
  <2>1. \A v \in V : v.author \in Authors
    BY <1>1 DEF IInv, TypeOK, StoreTypeOK, VoteRow
  <2>2. \A v, w \in V : v.author = w.author => v = w
    BY <1>1 DEF IInv, TypeOK, StoreTypeOK
  <2>3. f \in Injection(V, Authors)
    BY <2>1, <2>2 DEF Injection, IsInjective
  <2> HIDE DEF f
  <2>4. IsFiniteSet(V) /\ Cardinality(V) <= Cardinality(Authors)
    BY <2>3, SizeAssumption, FS_Injection
  <2>5. Cardinality(V) \in Nat /\ Cardinality(Authors) \in Nat /\ Cardinality(Authors) < Half
    BY <2>4, SizeAssumption, FS_CardinalityType
  <2> QED
    BY <2>4, <2>5, ApiAssumption
<1>2. Points(id) = Cardinality(U) - Cardinality(D)
  BY DEF Points
<1>3. U \subseteq {v \in votes : v.target = id} /\ D \subseteq {v \in votes : v.target = id}
  OBVIOUS
<1> HIDE DEF U, D
<1>4. /\ Cardinality(U) \in Nat /\ Cardinality(U) < Half
      /\ Cardinality(D) \in Nat /\ Cardinality(D) < Half
  BY <1>1, <1>3
<1>5. Points(id) \in Int /\ -Half <= Points(id) /\ Points(id) < Half
  BY <1>2, <1>4, ApiAssumption
<1> QED
  BY <1>5, InRange

\* The numbers of a story, or of a comment, survive the conversion.
Fits(f) ==
  Uint32(f.height) = f.height /\ Int32(f.points) = f.points /\ Int32(f.comments) = f.comments
CommentFits(c) == Uint32(c.height) = c.height /\ Int32(c.points) = c.points

\* So it is for every row.
LEMMA RowsFit ==
  ASSUME IInv, QueryInv, NEW r \in items
  PROVE  /\ Fits(FeedItem(r)) /\ CommentFits(ThreadComment(r))
         /\ FeedItem(r).score \in Int
<1>1. r.height \in Nat /\ Uint32(r.height) = r.height
  BY HeightFits
<1>2. Int32(CommentCount(r.id)) = CommentCount(r.id)
  BY CountFits
<1>3. Points(r.id) \in Int /\ Int32(Points(r.id)) = Points(r.id)
  BY PointsFit
<1>4. BlockTime[r.height] \in Nat
  BY TimesAssumption DEF QueryInv, Mined
<1>5. RankScore(Points(r.id), r.height) \in Int
  <2> DEFINE a == IF Now > BlockTime[r.height] THEN Now - BlockTime[r.height] ELSE 0
  <2>1. a \in 0 .. Now
    BY <1>4, QueriesAssumption
  <2>2. Decay[a] \in Nat
    BY <2>1, QueriesAssumption
  <2>3. RankScore(Points(r.id), r.height) = Points(r.id) * Decay[a]
    BY DEF RankScore
  <2> HIDE DEF a
  <2> QED
    BY <1>3, <2>2, <2>3
<1> QED
  BY <1>1, <1>2, <1>3, <1>5 DEF Fits, CommentFits, FeedItem, ThreadComment

\* So it is for every story of a page, whichever way the feed is sorted.
LEMMA PagesFit ==
  ASSUME IInv, QueryInv, NEW ids, ids \subseteq stories, NEW s \in QueryFeed(ids),
         NEW limit \in Nat, limit > 0, NEW offset \in Nat
  PROVE  /\ \A i \in DOMAIN Page(SortByScore(s), limit, offset) :
              Fits(Page(SortByScore(s), limit, offset)[i])
         /\ \A i \in DOMAIN Page(SortByNewest(s), limit, offset) :
              Fits(Page(SortByNewest(s), limit, offset)[i])
<1> DEFINE S == FeedSet(ids)
<1>1. \A x \in S : Fits(x) /\ x.score \in Int
  BY StoryRow, RowsFit DEF FeedSet, FeedOf
<1>2. IsFiniteSet(S) /\ Placed(S) /\ s \in Lists(S)
  BY FeedRows
<1> HIDE DEF S
<1>3. SortByScore(s) \in Lists(S) /\ SortByNewest(s) \in Lists(S)
  BY <1>1, <1>2, BestFirst, NewestFirst DEF Placed
<1>4. ASSUME NEW t \in Lists(S)
      PROVE  \A i \in DOMAIN Page(t, limit, offset) : Fits(Page(t, limit, offset)[i])
  <2>1. t \in [1 .. Cardinality(S) -> S] /\ Cardinality(S) \in Nat
    BY <1>2, FS_CardinalityType DEF Lists
  <2>2. t \in Seq(S)
    BY <2>1
  <2>3. Page(t, limit, offset) \in Seq(S)
    BY <2>2, PageIs
  <2> QED
    BY <1>1, <2>3
<1> QED
  BY <1>3, <1>4

\* The feeds that a request may ask for.
LEMMA FeedsFit ==
  ASSUME IInv, QueryInv, NEW limit \in Nat, limit > 0, NEW offset \in Nat
  PROVE  /\ \A topic, subtype, nsfw :
              LET q == FeedQuery(topic, subtype, nsfw, limit, offset)
              IN  \A s \in FrontPage(q) \cup NewFeed(q) : \A i \in DOMAIN s : Fits(s[i])
         /\ \A x : \A s \in ItemsByAuthor(x, limit, offset) : \A i \in DOMAIN s : Fits(s[i])
<1>1. ASSUME NEW topic, NEW subtype, NEW nsfw
      PROVE  LET q == FeedQuery(topic, subtype, nsfw, limit, offset)
             IN  \A s \in FrontPage(q) \cup NewFeed(q) : \A i \in DOMAIN s : Fits(s[i])
  <2> DEFINE q == FeedQuery(topic, subtype, nsfw, limit, offset)
  <2>1. Filter(q) \subseteq stories
    BY DEF Filter
  <2>2. q.limit = limit /\ q.offset = offset
    BY DEF FeedQuery
  <2> HIDE DEF q
  <2>3. /\ FrontPage(q) = {Page(SortByScore(s), limit, offset) : s \in QueryFeed(Filter(q))}
        /\ NewFeed(q) = {Page(SortByNewest(s), limit, offset) : s \in QueryFeed(Filter(q))}
    BY <2>2 DEF FrontPage, NewFeed
  <2>4. \A s \in FrontPage(q) \cup NewFeed(q) : \A i \in DOMAIN s : Fits(s[i])
    BY <2>1, <2>3, PagesFit
  <2> QED
    BY <2>4 DEF q
<1>2. ASSUME NEW x
      PROVE  \A s \in ItemsByAuthor(x, limit, offset) : \A i \in DOMAIN s : Fits(s[i])
  <2> DEFINE ids == {id \in stories : FirstCommentAuthor(id) = x}
  <2>1. ids \subseteq stories
    OBVIOUS
  <2>2. ItemsByAuthor(x, limit, offset) = {Page(SortByNewest(s), limit, offset) : s \in QueryFeed(ids)}
    BY DEF ItemsByAuthor
  <2> HIDE DEF ids
  <2> QED
    BY <2>1, <2>2, PagesFit
<1> QED
  BY <1>1, <1>2

\* The responses with their lists converted by K.
Converted(K, responses) == {[a EXCEPT !.list = K[a.list]] : a \in responses}

\* A conversion that leaves the empty list as it is converts the results that are served,
\* and no error.
LEMMA ConvertServed ==
  ASSUME NEW K, NEW lists, K[<<>>] = <<>>
  PROVE  /\ Converted(K, Served(lists)) = Served({K[s] : s \in lists})
         /\ \A n : Converted(K, {WriteErr(n)}) = {WriteErr(n)}
<1> DEFINE R(s) == [status |-> 200, list |-> s]
           C(a) == [a EXCEPT !.list = K[a.list]]
<1>1. \A s : C(R(s)) = R(K[s])
  OBVIOUS
<1>2. \A n : C(WriteErr(n)) = WriteErr(n)
  BY DEF WriteErr
<1> HIDE DEF R, C
<1>3. {C(a) : a \in {R(s) : s \in lists} \cup {WriteErr(500)}}
        = {R(s) : s \in {K[x] : x \in lists}} \cup {WriteErr(500)}
  BY <1>1, <1>2
<1> QED
  BY <1>2, <1>3 DEF Converted, Served, R, C

\* An answer of the store is the same list of stories on both surfaces, and an error has
\* the same status.
LEMMA SameFeed ==
  ASSUME NEW feeds, \A s \in feeds : \A i \in DOMAIN s : Fits(s[i])
  PROVE  Same(FeedResponse(feeds), ConnectItems(feeds), AsConnectItem)
<1> DEFINE A == {Each(ToItem, s) : s \in feeds}
           B == {Each(ToConnectItem, s) : s \in feeds}
           C(l) == Each(AsConnectItem, l)
           K == [l \in A \cup {<<>>} |-> C(l)]
<1>1. \A s \in feeds : C(Each(ToItem, s)) = Each(ToConnectItem, s)
  <2>1. \A f : Fits(f) => AsConnectItem(ToItem(f)) = ToConnectItem(f)
    BY DEF Fits, AsConnectItem, ToItem, ToConnectItem
  <2> QED
    BY <2>1 DEF Each
<1>2. C(<<>>) = <<>>
  BY DEF Each
<1>3. {C(l) : l \in A} = B
  <2> HIDE DEF C
  <2> QED
    BY <1>1
<1>4. Same(Served(A), Served(B), AsConnectItem) <=>
        {[a EXCEPT !.list = C(a.list)] : a \in Served(A)} = Served(B)
  BY DEF Same
<1>5. FeedResponse(feeds) = Served(A) /\ ConnectItems(feeds) = Served(B)
  BY DEF FeedResponse, ConnectItems
<1> HIDE DEF A, B, C
<1>6. \A a \in Served(A) : a.list \in A \cup {<<>>}
  BY DEF Served, WriteErr
<1>7. {[a EXCEPT !.list = C(a.list)] : a \in Served(A)} = Converted(K, Served(A))
  BY <1>6 DEF Converted
<1>8. {K[l] : l \in A} = B /\ K[<<>>] = <<>>
  BY <1>2, <1>3
<1> HIDE DEF K
<1>9. Converted(K, Served(A)) = Served(B)
  BY <1>8, ConvertServed
<1> QED
  BY <1>4, <1>5, <1>7, <1>9

\* So is a single story, or the answer that there is none.
LEMMA SameItem ==
  ASSUME NEW rows, \A f \in rows : Fits(f)
  PROVE  Same(Found(rows, ToItem), Found(rows, ToConnectItem), AsConnectItem)
<1> DEFINE A == {<<ToItem(f)>> : f \in rows}
           B == {<<ToConnectItem(f)>> : f \in rows}
           C(l) == Each(AsConnectItem, l)
           K == [l \in A \cup {<<>>} |-> C(l)]
           F(X) == {WriteErr(500)} \cup IF rows = {} THEN {WriteErr(404)} ELSE Served(X)
<1>1. \A f \in rows : C(<<ToItem(f)>>) = <<ToConnectItem(f)>>
  <2>1. \A f : Fits(f) => AsConnectItem(ToItem(f)) = ToConnectItem(f)
    BY DEF Fits, AsConnectItem, ToItem, ToConnectItem
  <2> QED
    BY <2>1 DEF Each
<1>2. C(<<>>) = <<>>
  BY DEF Each
<1>3. {C(l) : l \in A} = B
  <2> HIDE DEF C
  <2> QED
    BY <1>1
<1>4. Same(F(A), F(B), AsConnectItem) <=>
        {[a EXCEPT !.list = C(a.list)] : a \in F(A)} = F(B)
  BY DEF Same
<1>5. Found(rows, ToItem) = F(A) /\ Found(rows, ToConnectItem) = F(B)
  BY DEF Found
<1> HIDE DEF A, B, C
<1>6. \A a \in F(A) : a.list \in A \cup {<<>>}
  BY DEF Served, WriteErr
<1>7. {[a EXCEPT !.list = C(a.list)] : a \in F(A)} = Converted(K, F(A))
  <2> HIDE DEF F
  <2> QED
    BY <1>6 DEF Converted
<1>8. {K[l] : l \in A} = B /\ K[<<>>] = <<>>
  BY <1>2, <1>3
<1> HIDE DEF K
<1>9. /\ Converted(K, Served(A)) = Served({K[l] : l \in A})
      /\ \A n : Converted(K, {WriteErr(n)}) = {WriteErr(n)}
  BY <1>8, ConvertServed
<1>10. ASSUME NEW X, NEW Y
       PROVE  Converted(K, X \cup Y) = Converted(K, X) \cup Converted(K, Y)
  BY DEF Converted
<1>11. Converted(K, F(A)) = F(B)
  <2>1. Converted(K, Served(A)) = Served(B)
    BY <1>8, <1>9
  <2>2. CASE rows = {}
    <3>1. F(A) = {WriteErr(500)} \cup {WriteErr(404)} /\ F(B) = F(A)
      BY <2>2
    <3>2. Converted(K, {WriteErr(500)} \cup {WriteErr(404)}) = {WriteErr(500)} \cup {WriteErr(404)}
      <4>1. Converted(K, {WriteErr(500)} \cup {WriteErr(404)})
              = Converted(K, {WriteErr(500)}) \cup Converted(K, {WriteErr(404)})
        BY <1>10
      <4>2. Converted(K, {WriteErr(500)}) = {WriteErr(500)} /\ Converted(K, {WriteErr(404)}) = {WriteErr(404)}
        BY <1>9
      <4> QED
        BY <4>1, <4>2
    <3> QED
      BY <3>1, <3>2
  <2>3. CASE rows # {}
    <3>1. F(A) = {WriteErr(500)} \cup Served(A) /\ F(B) = {WriteErr(500)} \cup Served(B)
      BY <2>3
    <3>2. Converted(K, {WriteErr(500)} \cup Served(A)) = {WriteErr(500)} \cup Served(B)
      <4>1. Converted(K, {WriteErr(500)} \cup Served(A))
              = Converted(K, {WriteErr(500)}) \cup Converted(K, Served(A))
        BY <1>10
      <4>2. Converted(K, {WriteErr(500)}) = {WriteErr(500)}
        BY <1>9
      <4> QED
        BY <2>1, <4>1, <4>2
    <3> QED
      BY <3>1, <3>2
  <2> QED
    BY <2>2, <2>3
<1> QED
  BY <1>4, <1>5, <1>7, <1>11, SMTT(60)

\* So is a thread, whose comments both surfaces show alike.
LEMMA SameThread ==
  ASSUME NEW s, \A i \in DOMAIN s : CommentFits(s[i])
  PROVE  Same(Served({Each(ToComment, s)}), Served({Each(ToConnectComment, s)}), LAMBDA c : c)
<1> DEFINE t == Each(ToComment, s)
<1>1. Each(ToConnectComment, s) = t
  <2>1. \A c : CommentFits(c) => ToConnectComment(c) = ToComment(c)
    BY DEF CommentFits, ToComment, ToConnectComment
  <2> QED
    BY <2>1 DEF Each
<1>2. Each(LAMBDA c : c, t) = t /\ Each(LAMBDA c : c, <<>>) = <<>>
  BY DEF Each
<1> HIDE DEF t
<1>3. \A a \in Served({t}) : [a EXCEPT !.list = Each(LAMBDA c : c, a.list)] = a
  BY <1>2 DEF Served, WriteErr
<1>4. {[a EXCEPT !.list = Each(LAMBDA c : c, a.list)] : a \in Served({t})} = Served({t})
  BY <1>3
<1> QED
  BY <1>1, <1>4 DEF Same, t

\* So is the list of the topics.
LEMMA SameTopics ==
  ASSUME IInv, QueryInv
  PROVE  Same(HandleTopics, ConnectListTopics, AsConnectTopic)
<1> DEFINE lists == TopicList(TopicRows, StoryCounts)
           A == {Each(ToTopic, s) : s \in lists}
           B == {Each(ToConnectTopic, s) : s \in lists}
           C(l) == Each(AsConnectTopic, l)
           K == [l \in A \cup {<<>>} |-> C(l)]
<1> HIDE DEF lists
<1>1. \A s \in lists : C(Each(ToTopic, s)) = Each(ToConnectTopic, s)
  <2>1. TopicRows \subseteq topics /\ TopicRows \subseteq TopicRow /\ IsFiniteSet(TopicRows)
    BY PartSize DEF TopicRows, QueryInv, Finite, IInv, TypeOK, StoreTypeOK
  <2>2. ASSUME NEW s \in lists, NEW i \in DOMAIN s
        PROVE  Uint32(s[i].height) = s[i].height
    <3>1. s[i] \in {TopicEntry(t, StoryCounts) : t \in TopicRows}
      BY <2>1, TopicListIs DEF lists, ToSet
    <3>2. PICK t \in topics : s[i].height = t.height
      BY <2>1, <3>1 DEF TopicEntry
    <3> QED
      BY <3>2, HeightFits
  <2>3. \A t : Uint32(t.height) = t.height => AsConnectTopic(ToTopic(t)) = ToConnectTopic(t)
    BY DEF AsConnectTopic, ToTopic, ToConnectTopic
  <2> QED
    BY <2>2, <2>3 DEF Each
<1>2. C(<<>>) = <<>>
  BY DEF Each
<1>3. {C(l) : l \in A} = B
  <2> HIDE DEF C
  <2> QED
    BY <1>1
<1>4. Same(Served(A), Served(B), AsConnectTopic) <=>
        {[a EXCEPT !.list = C(a.list)] : a \in Served(A)} = Served(B)
  BY DEF Same
<1>5. HandleTopics = Served(A) /\ ConnectListTopics = Served(B)
  BY DEF HandleTopics, ConnectListTopics, lists
<1> HIDE DEF A, B, C
<1>6. \A a \in Served(A) : a.list \in A \cup {<<>>}
  BY DEF Served, WriteErr
<1>7. {[a EXCEPT !.list = C(a.list)] : a \in Served(A)} = Converted(K, Served(A))
  BY <1>6 DEF Converted
<1>8. {K[l] : l \in A} = B /\ K[<<>>] = <<>>
  BY <1>2, <1>3
<1> HIDE DEF K
<1>9. Converted(K, Served(A)) = Served(B)
  BY <1>8, ConvertServed
<1> QED
  BY <1>4, <1>5, <1>7, <1>9

\* A subtype that has a name is found by it.
LEMMA SubtypeNamed ==
  ASSUME NEW n \in 0 .. Len(SubtypeNames) - 1
  PROVE  SubtypeFromName(SubtypeName(n)) = n /\ n \in 0 .. 255
<1>1. Len(SubtypeNames) = 6 /\ n \in 0 .. 5
  BY DEF SubtypeNames
<1>2. SubtypeName(n) = SubtypeNames[n + 1]
  BY <1>1 DEF SubtypeName
<1>3. \A i, j \in 1 .. 6 : SubtypeNames[i] = SubtypeNames[j] => i = j
  BY DEF SubtypeNames
<1>4. DOMAIN SubtypeNames = 1 .. 6
  BY DEF SubtypeNames
<1> DEFINE I == {i \in 1 .. 6 : SubtypeNames[i] = SubtypeNames[n + 1]}
<1>5. I = {n + 1}
  BY <1>1, <1>3
<1>6. Min({n + 1}) = n + 1
  BY <1>1 DEF Min
<1>7. SubtypeNames[n + 1] \in ToSet(SubtypeNames)
  BY <1>1, <1>4 DEF ToSet
<1>8. SubtypeFromName(SubtypeNames[n + 1]) = (IF I # {} THEN Min(I) ELSE 0) - 1
  BY <1>1, <1>7 DEF SubtypeFromName, SelectInSeq
<1> QED
  BY <1>1, <1>2, <1>5, <1>6, <1>8

\* The filters of a request.
TopicTexts == {Text(t) : t \in Topics} \cup {NoText}
SubtypeTexts == {NoText} \cup {Text(n) : n \in 0 .. Len(SubtypeNames) - 1}

\* A request names the same query on both surfaces, whatever its filters.
LEMMA SameQuery ==
  ASSUME NEW limit \in PageNumbers \ {0}, NEW offset \in PageNumbers,
         NEW topic \in TopicTexts, NEW subtype \in SubtypeTexts, NEW xpk,
         NEW r, r = Rest(limit, offset, topic, subtype, xpk),
         NEW c, c = Connect(limit, offset, topic, subtype, xpk)
  PROVE  /\ RestQuery(r) = {ToQuery(c)} /\ DecodeConnect(c) = {c}
         /\ PageParams(r).limit = LimitOrDefault(c.limit) /\ PageParams(r).offset = c.offset
         /\ c.topic = topic /\ c.xpk = xpk /\ r.topic = topic /\ r.xpk = xpk
<1>0. limit \in Nat /\ offset \in Nat /\ limit # 0
  BY PageAssumption
<1>1. PageParams(r).limit = limit /\ PageParams(r).offset = offset
  BY <1>0, MaxZero DEF PageParams, AtoiDefault, Rest, Text
<1>2. DecodeConnect(c) = {c} /\ c.topic = topic /\ c.xpk = xpk /\ r.topic = topic /\ r.xpk = xpk
      /\ r.subtype = subtype /\ r.nsfw = "1"
  BY DEF DecodeConnect, Connect, Rest
<1>3. LimitOrDefault(c.limit) = limit /\ c.offset = offset
  BY <1>0 DEF LimitOrDefault, Connect
<1>4. topic.form = "empty" \/ ParseHex(topic) # {}
  BY DEF ParseHex, TopicTexts, Text, NoText
<1>5. CASE subtype = NoText
  <2>1. ParseSubtype(subtype) = {} /\ subtype.form = "empty"
    BY <1>5 DEF ParseSubtype, NoText
  <2>2. {UnmarshalSubtype(p) : p \in c.subtype} = {}
    BY <1>5 DEF Connect, NoText
  <2>3. RestQuery(r) = {FeedQuery(ParseHex(topic), {}, TRUE, limit, offset)}
    BY <1>1, <1>2, <1>4, <2>1 DEF RestQuery, BoolParam
  <2>4. ToQuery(c) = FeedQuery(ParseHex(topic), {}, TRUE, limit, offset)
    BY <1>2, <1>3, <2>2 DEF ToQuery
  <2> QED
    BY <1>1, <1>2, <1>3, <2>3, <2>4
<1>6. ASSUME NEW n \in 0 .. Len(SubtypeNames) - 1, subtype = Text(n)
      PROVE  RestQuery(r) = {ToQuery(c)}
  <2>1. SubtypeFromName(SubtypeName(n)) = n /\ n \in 0 .. 255
    BY SubtypeNamed
  <2>2. ParseSubtype(subtype) = {n} /\ subtype.form = "ok"
    BY <1>6, <2>1 DEF ParseSubtype, Text
  <2>3. c.subtype = {[form |-> "name", val |-> SubtypeName(n)]}
    BY <1>6 DEF Connect, Text
  <2>4. UnmarshalSubtype([form |-> "name", val |-> SubtypeName(n)]) = n
    BY <2>1 DEF UnmarshalSubtype
  <2>5. {UnmarshalSubtype(p) : p \in c.subtype} = {n}
    <3> DEFINE y == [form |-> "name", val |-> SubtypeName(n)]
    <3> HIDE DEF y
    <3>1. c.subtype = {y} /\ UnmarshalSubtype(y) = n
      BY <2>3, <2>4 DEF y
    <3> QED
      BY <3>1
  <2>6. RestQuery(r) = {FeedQuery(ParseHex(topic), {n}, TRUE, limit, offset)}
    BY <1>1, <1>2, <1>4, <2>2 DEF RestQuery, BoolParam
  <2>7. ToQuery(c) = FeedQuery(ParseHex(topic), {n}, TRUE, limit, offset)
    BY <1>2, <1>3, <2>5 DEF ToQuery
  <2> QED
    BY <2>6, <2>7
<1> QED
  BY <1>1, <1>2, <1>3, <1>5, <1>6 DEF SubtypeTexts

\* So the handlers of both surfaces give the same lists.
LEMMA AgreeOnAll ==
  ASSUME IInv, QueryInv, NEW limit \in PageNumbers \ {0}, NEW offset \in PageNumbers
  PROVE  AgreeOnLists(limit, offset)
<1>0. limit \in Nat /\ limit > 0 /\ offset \in Nat
  BY PageAssumption
<1>1. ASSUME NEW topic \in TopicTexts, NEW subtype \in SubtypeTexts
      PROVE  LET r == Rest(limit, offset, topic, subtype, NoText)
                 c == Connect(limit, offset, topic, subtype, NoText)
             IN  /\ Same(HandleFrontPage(r), ConnectFrontPage(c), AsConnectItem)
                 /\ Same(HandleNewFeed(r), ConnectNewFeed(c), AsConnectItem)
  <2> DEFINE r == Rest(limit, offset, topic, subtype, NoText)
             c == Connect(limit, offset, topic, subtype, NoText)
  <2>1. RestQuery(r) = {ToQuery(c)} /\ DecodeConnect(c) = {c}
    <3>1. r = Rest(limit, offset, topic, subtype, NoText) /\ c = Connect(limit, offset, topic, subtype, NoText)
      OBVIOUS
    <3> HIDE DEF r, c
    <3> QED
      BY <1>1, <3>1, SameQuery
  <2> HIDE DEF r, c
  <2>2. /\ HandleFrontPage(r) = FeedResponse(FrontPage(ToQuery(c)))
        /\ HandleNewFeed(r) = FeedResponse(NewFeed(ToQuery(c)))
    BY <2>1 DEF HandleFrontPage, HandleNewFeed, Checked
  <2>3. /\ ConnectFrontPage(c) = ConnectItems(FrontPage(ToQuery(c)))
        /\ ConnectNewFeed(c) = ConnectItems(NewFeed(ToQuery(c)))
    BY <2>1 DEF ConnectFrontPage, ConnectNewFeed, Checked
  <2>4. \A s \in FrontPage(ToQuery(c)) \cup NewFeed(ToQuery(c)) : \A i \in DOMAIN s : Fits(s[i])
    <3>1. LimitOrDefault(c.limit) = limit /\ c.offset = offset
      BY <1>0 DEF LimitOrDefault, Connect, c
    <3> QED
      BY <1>0, <3>1, FeedsFit DEF ToQuery
  <2> QED
    BY <2>2, <2>3, <2>4, SameFeed DEF r, c
<1>2. ASSUME NEW t \in Topics
      PROVE  Same(HandleByTopic(Rest(limit, offset, Text(t), NoText, NoText)),
                  ConnectByTopic(Connect(limit, offset, Text(t), NoText, NoText)), AsConnectItem)
  <2> DEFINE r == Rest(limit, offset, Text(t), NoText, NoText)
             c == Connect(limit, offset, Text(t), NoText, NoText)
             feeds == ByTopic(t, LimitOrDefault(c.limit), c.offset)
  <2>1. /\ DecodeConnect(c) = {c}
        /\ PageParams(r).limit = LimitOrDefault(c.limit) /\ PageParams(r).offset = c.offset
        /\ c.topic = Text(t) /\ r.topic = Text(t)
    <3>1. Text(t) \in TopicTexts /\ NoText \in SubtypeTexts
      BY DEF TopicTexts, SubtypeTexts
    <3> HIDE DEF r, c
    <3> QED
      BY <3>1, SameQuery DEF r, c
  <2>2. ParseHex(Text(t)) = {t}
    BY DEF ParseHex, Text
  <2> HIDE DEF r, c
  <2>3. HandleByTopic(r) = FeedResponse(ByTopic(t, PageParams(r).limit, PageParams(r).offset))
    BY <2>1, <2>2, ZenonT(60) DEF HandleByTopic, Checked
  <2>4. ConnectByTopic(c) = ConnectItems(feeds)
    BY <2>1, <2>2 DEF ConnectByTopic, Checked
  <2>5. \A s \in feeds : \A i \in DOMAIN s : Fits(s[i])
    <3>1. LimitOrDefault(c.limit) = limit /\ c.offset = offset
      BY <1>0 DEF LimitOrDefault, Connect, c
    <3> QED
      BY <1>0, <3>1, FeedsFit DEF ByTopic
  <2> QED
    BY <2>1, <2>3, <2>4, <2>5, SameFeed DEF r, c
<1>3. ASSUME NEW x \in Authors
      PROVE  Same(HandleAuthorItems(Rest(limit, offset, NoText, NoText, Text(x))),
                  ConnectByAuthor(Connect(limit, offset, NoText, NoText, Text(x))), AsConnectItem)
  <2> DEFINE r == Rest(limit, offset, NoText, NoText, Text(x))
             c == Connect(limit, offset, NoText, NoText, Text(x))
             feeds == ItemsByAuthor(x, LimitOrDefault(c.limit), c.offset)
  <2>1. /\ DecodeConnect(c) = {c}
        /\ PageParams(r).limit = LimitOrDefault(c.limit) /\ PageParams(r).offset = c.offset
        /\ c.xpk = Text(x) /\ r.xpk = Text(x)
    <3>1. NoText \in TopicTexts /\ NoText \in SubtypeTexts
      BY DEF TopicTexts, SubtypeTexts
    <3> HIDE DEF r, c
    <3> QED
      BY <3>1, SameQuery DEF r, c
  <2>2. ParseHex(Text(x)) = {x}
    BY DEF ParseHex, Text
  <2> HIDE DEF r, c
  <2>3. HandleAuthorItems(r) = FeedResponse(ItemsByAuthor(x, PageParams(r).limit, PageParams(r).offset))
    BY <2>1, <2>2 DEF HandleAuthorItems, Checked
  <2>4. ConnectByAuthor(c) = ConnectItems(feeds)
    BY <2>1, <2>2 DEF ConnectByAuthor, Checked
  <2>5. \A s \in feeds : \A i \in DOMAIN s : Fits(s[i])
    <3>1. LimitOrDefault(c.limit) = limit /\ c.offset = offset
      BY <1>0 DEF LimitOrDefault, Connect, c
    <3> QED
      BY <1>0, <3>1, FeedsFit
  <2> QED
    BY <2>1, <2>3, <2>4, <2>5, SameFeed DEF r, c
<1> QED
  BY <1>1, <1>2, <1>3 DEF AgreeOnLists, TopicTexts, SubtypeTexts

\* README: "Two equivalent surfaces are served from the same store".  A well-formed request
\* that names a positive limit has the same answers on both, for every number of items and
\* every limit and offset.
THEOREM SurfacesAreEquivalent == ReaderSpec => []SurfacesAgree
<1>1. ASSUME IInv, QueryInv
      PROVE  AgreeOnItems
  <2> SUFFICES ASSUME NEW id \in Items
               PROVE  LET r == [json |-> TRUE, id |-> Text(id)]
                      IN  /\ Same(HandleGetItem(r), ConnectGetItem(r), AsConnectItem)
                          /\ Same(HandleThread(r), ConnectThread(r), LAMBDA c : c)
    BY DEF AgreeOnItems
  <2> DEFINE r == [json |-> TRUE, id |-> Text(id)]
  <2>1. DecodeConnect(r) = {r} /\ ParseHex(r.id) = {id}
    BY DEF DecodeConnect, ParseHex, Text
  <2> HIDE DEF r
  <2>2. /\ HandleGetItem(r) = Found(GetItem(id), ToItem)
        /\ ConnectGetItem(r) = Found(GetItem(id), ToConnectItem)
    BY <2>1 DEF HandleGetItem, ConnectGetItem, Checked
  <2>3. /\ HandleThread(r) = Served({Each(ToComment, Thread(id))})
        /\ ConnectThread(r) = Served({Each(ToConnectComment, Thread(id))})
    <3>1. HandleThread(r) = Served({Each(ToComment, Thread(id))})
      BY <2>1 DEF HandleThread, Checked
    <3>2. ConnectThread(r) = Served({Each(ToConnectComment, Thread(id))})
      <4> DEFINE Z(i) == Served({Each(ToConnectComment, Thread(i))})
      <4>1. ConnectThread(r) = Checked(DecodeConnect(r), LAMBDA b : Checked(ParseHex(b.id), Z))
        BY DEF ConnectThread, Checked
      <4> HIDE DEF Z
      <4>2. Checked(DecodeConnect(r), LAMBDA b : Checked(ParseHex(b.id), Z)) = Z(id)
        BY <2>1 DEF Checked
      <4> QED
        BY <4>1, <4>2 DEF Z
    <3> QED
      BY <3>1, <3>2
  <2>4. Same(HandleGetItem(r), ConnectGetItem(r), AsConnectItem)
    <3>1. \A f \in GetItem(id) : Fits(f)
      BY <1>1, RowsFit DEF GetItem, Joined
    <3> QED
      BY <2>2, <3>1, SameItem
  <2>5. Same(HandleThread(r), ConnectThread(r), LAMBDA c : c)
    <3>1. Thread(id) \in Lists(ThreadSet(ThreadIds(id))) /\ ThreadIds(id) \subseteq comments
      BY <1>1, ThreadLists, ThreadClosed
    <3>2. \A x \in ThreadSet(ThreadIds(id)) : CommentFits(x)
      BY <1>1, <3>1, StoryRow, RowsFit DEF ThreadSet, CommentOf
    <3>3. \A i \in DOMAIN Thread(id) : CommentFits(Thread(id)[i])
      BY <3>1, <3>2, InLists
    <3> QED
      BY <2>3, <3>3, SameThread
  <2> QED
    BY <2>4, <2>5 DEF r
<1>2. IInv /\ QueryInv => SurfacesAgree
  BY <1>1, AgreeOnAll, SameTopics DEF SurfacesAgree
<1> QED
  BY <1>2, QueryInvariance, ReadersOnlyRead, PTL

-----------------------------------------------------------------------------
\* The pages of a list.

\* Two parts of a list that meet.
LEMMA JoinParts ==
  ASSUME NEW S, NEW u \in Seq(S), NEW a \in 0 .. Len(u), NEW b \in a .. Len(u)
  PROVE  SubSeq(u, 1, a) \o SubSeq(u, a + 1, b) = SubSeq(u, 1, b)
<1> DEFINE p == SubSeq(u, 1, a)
           q == SubSeq(u, a + 1, b)
           r == SubSeq(u, 1, b)
<1>0. a \in Nat /\ b \in Nat /\ a <= b
  OBVIOUS
<1>1. p \in Seq(S) /\ Len(p) = a /\ \A i \in 1 .. a : p[i] = u[i]
  OBVIOUS
<1>2. q \in Seq(S) /\ Len(q) = b - a /\ \A i \in 1 .. b - a : q[i] = u[a + i]
  OBVIOUS
<1>3. r \in Seq(S) /\ Len(r) = b /\ \A i \in 1 .. b : r[i] = u[i]
  OBVIOUS
<1> HIDE DEF p, q, r
<1>4. p \o q \in Seq(S) /\ Len(p \o q) = b
  BY <1>0, <1>1, <1>2
<1>5. ASSUME NEW i \in 1 .. b
      PROVE  (p \o q)[i] = r[i]
  <2>1. CASE i <= a
    BY <1>1, <1>2, <1>3, <2>1
  <2>2. CASE i > a
    <3>1. i - a \in 1 .. b - a /\ a + (i - a) = i
      BY <2>2
    <3>2. (p \o q)[i] = q[i - a]
      BY <1>1, <1>2, <2>2
    <3> QED
      BY <1>2, <1>3, <3>1, <3>2
  <2>3. i <= a \/ i > a
    BY <1>0
  <2> QED
    BY <2>1, <2>2, <2>3, Zenon
<1>6. p \o q = r
  BY <1>3, <1>4, <1>5
<1> QED
  BY <1>6 DEF p, q, r

\* The k-th page of a list.
Piece(u, limit, k) == SubSeq(u, (k - 1) * limit + 1, PageEnd(Len(u), limit, (k - 1) * limit))

\* The function inside FlattenSeq.
IsFlat(g, seqs) ==
  g = [i \in 1 .. Len(seqs) |-> IF i = 1 THEN seqs[i] ELSE g[i - 1] \o seqs[i]]

\* The pages of a list, one after the other, make up the list.
LEMMA PiecesTile ==
  ASSUME NEW S, NEW u \in Seq(S), NEW limit \in Nat, limit > 0, NEW P,
         P = [k \in 1 .. Len(u) + 1 |-> Piece(u, limit, k)]
  PROVE  FlattenSeq(P) = u
<1> DEFINE n == Len(u)
           Upto(i) == IF i * limit <= n THEN i * limit ELSE n
           g0 == [i \in 1 .. n + 1 |-> SubSeq(u, 1, Upto(i))]
<1>0. u = SubSeq(u, 1, n)
  OBVIOUS
<1>1. n \in Nat
  OBVIOUS
<1>2. Len(P) = n + 1 /\ DOMAIN P = 1 .. n + 1
  <2>1. P \in Seq({Piece(u, limit, k) : k \in 1 .. n + 1})
    BY <1>1
  <2> QED
    BY <1>1, <2>1
<1>3. ASSUME NEW i \in Nat, i > 0
      PROVE  /\ (i - 1) * limit \in Nat /\ i * limit \in Nat /\ (i - 1) * limit + limit = i * limit
             /\ i <= i * limit
  <2>1. /\ (i - 1) * limit \in Nat /\ i * limit \in Nat /\ (i - 1) * limit + limit = i * limit
        /\ i * (limit - 1) \in Nat /\ i * limit = i + i * (limit - 1)
    BY <1>3, SMT
  <2> QED
    BY <2>1
<1>4. ASSUME NEW i \in 1 .. n + 1
      PROVE  P[i] = SubSeq(u, (i - 1) * limit + 1, Upto(i))
  <2>1. P[i] = Piece(u, limit, i)
    BY <1>4
  <2>2. (i - 1) * limit + limit = i * limit
    BY <1>1, <1>3
  <2> QED
    BY <2>1, <2>2 DEF Piece, PageEnd
<1>5. P[1] = SubSeq(u, 1, Upto(1))
  <2>1. (1 - 1) * limit + 1 = 1 /\ 1 \in 1 .. n + 1
    BY <1>1
  <2> HIDE DEF n, Upto
  <2>2. P[1] = SubSeq(u, (1 - 1) * limit + 1, Upto(1))
    BY <1>4, <2>1
  <2> QED
    BY <2>1, <2>2
<1>6. ASSUME NEW i \in 2 .. n + 1
      PROVE  SubSeq(u, 1, Upto(i - 1)) \o P[i] = SubSeq(u, 1, Upto(i))
  <2> DEFINE a == (i - 1) * limit
             b == i * limit
  <2>1. a \in Nat /\ b \in Nat /\ a + limit = b
    BY <1>3
  <2>2. P[i] = SubSeq(u, a + 1, Upto(i))
    <3>1. i \in 1 .. n + 1
      BY <1>1
    <3> HIDE DEF Upto, n
    <3> QED
      BY <1>4, <3>1
  <2>3. Upto(i - 1) = (IF a <= n THEN a ELSE n) /\ Upto(i) = (IF b <= n THEN b ELSE n)
    OBVIOUS
  <2> HIDE DEF a, b, Upto, n
  <2>4. CASE a <= n
    <3>1. Upto(i - 1) = a /\ a \in 0 .. n /\ Upto(i) \in a .. n
      BY <1>1, <2>1, <2>3, <2>4
    <3>2. a \in 0 .. Len(u) /\ Upto(i) \in a .. Len(u)
      BY <3>1 DEF n
    <3>3. SubSeq(u, 1, a) \o SubSeq(u, a + 1, Upto(i)) = SubSeq(u, 1, Upto(i))
      BY <3>2, JoinParts
    <3> QED
      BY <2>2, <3>1, <3>3
  <2>5. CASE a > n
    <3>1. Upto(i - 1) = n /\ Upto(i) = n
      BY <1>1, <2>1, <2>3, <2>5
    <3>2. P[i] = <<>>
      BY <1>1, <2>1, <2>2, <2>5, <3>1
    <3>3. SubSeq(u, 1, n) \o <<>> = SubSeq(u, 1, n)
      BY <1>0
    <3> QED
      BY <3>1, <3>2, <3>3
  <2>6. a <= n \/ a > n
    BY <1>1, <2>1
  <2> QED
    BY <2>4, <2>5, <2>6, Zenon
<1> HIDE DEF n, Upto
<1>7. IsFlat(g0, P)
  <2>1. ASSUME NEW i \in 1 .. n + 1
        PROVE  g0[i] = IF i = 1 THEN P[i] ELSE g0[i - 1] \o P[i]
    <3>1. CASE i = 1
      BY <1>5, <3>1
    <3>2. CASE i # 1
      <4>1. i \in 2 .. n + 1 /\ i - 1 \in 1 .. n + 1
        BY <1>1, <3>2
      <4> QED
        BY <1>6, <3>2, <4>1
    <3> QED
      BY <3>1, <3>2
  <2>2. g0 = [i \in 1 .. n + 1 |-> g0[i]]
    OBVIOUS
  <2> HIDE DEF g0
  <2> QED
    BY <1>2, <2>1, <2>2, ZenonT(60) DEF IsFlat
<1> DEFINE w == CHOOSE g : IsFlat(g, P)
<1>8. IsFlat(w, P)
  BY <1>7
<1>9. FlattenSeq(P) = w[n + 1]
  <2>1. Len(P) # 0
    BY <1>1, <1>2
  <2>2. FlattenSeq(P) = w[Len(P)]
    BY <2>1 DEF FlattenSeq, IsFlat
  <2> QED
    BY <1>2, <2>2
<1> HIDE DEF w, g0
<1>10. \A i \in 1 .. n + 1 : w[i] = IF i = 1 THEN P[i] ELSE w[i - 1] \o P[i]
  BY <1>2, <1>8 DEF IsFlat
<1>11. \A i \in Nat : i + 1 <= n + 1 => w[i + 1] = SubSeq(u, 1, Upto(i + 1))
  <2> DEFINE T == {i \in Nat : i + 1 <= n + 1 => w[i + 1] = SubSeq(u, 1, Upto(i + 1))}
  <2>1. 0 \in T
    <3>0. 1 \in 1 .. n + 1
      BY <1>1
    <3>1. w[1] = SubSeq(u, 1, Upto(1))
      BY <1>5, <1>10, <3>0, Zenon
    <3> QED
      BY <3>1
  <2>2. ASSUME NEW i \in Nat, i \in T
        PROVE  i + 1 \in T
    <3> SUFFICES ASSUME i + 2 <= n + 1
                 PROVE  w[i + 2] = SubSeq(u, 1, Upto(i + 2))
      OBVIOUS
    <3>0. PICK j : j = i + 2
      OBVIOUS
    <3>1. j \in 2 .. n + 1 /\ j # 1 /\ j - 1 = i + 1 /\ i + 1 <= n + 1 /\ j \in 1 .. n + 1
      BY <1>1, <3>0
    <3>2. w[j] = w[j - 1] \o P[j]
      BY <1>10, <3>1, Zenon
    <3>3. w[j - 1] = SubSeq(u, 1, Upto(j - 1))
      BY <2>2, <3>1
    <3>4. SubSeq(u, 1, Upto(j - 1)) \o P[j] = SubSeq(u, 1, Upto(j))
      BY <1>6, <3>1, Zenon
    <3>5. w[j] = SubSeq(u, 1, Upto(j))
      BY <3>2, <3>3, <3>4, Zenon
    <3> QED
      BY <3>0, <3>5, Zenon
  <2>3. \A i \in Nat : i \in T
    <3> HIDE DEF T
    <3> QED
      BY <2>1, <2>2, SetInduction
  <2> QED
    BY <2>3
<1>12. Upto(n + 1) = n
  BY <1>1, <1>3 DEF Upto
<1>13. w[n + 1] = SubSeq(u, 1, n)
  BY <1>1, <1>11, <1>12
<1> QED
  BY <1>0, <1>9, <1>13

\* What v shows of p is what u shows of t.
Shows(v, p, u, t) ==
  /\ DOMAIN v = DOMAIN p /\ v = [i \in DOMAIN p |-> v[i]]
  /\ \A i \in DOMAIN p, j \in DOMAIN t : p[i] = t[j] => v[i] = u[j]

\* An answer that shows every element of a list, in its order, shows the same page of it
\* that page cuts from the list.
LEMMA PageShown ==
  ASSUME NEW S, NEW t \in Seq(S), NEW R, NEW u \in Seq(R), Len(u) = Len(t),
         NEW limit \in Nat, limit > 0, NEW offset \in Nat, NEW v, NEW p,
         p = Page(t, limit, offset), Shows(v, p, u, t)
  PROVE  v = SubSeq(u, offset + 1, PageEnd(Len(u), limit, offset))
<1> DEFINE q == Page(u, limit, offset)
           n == Len(t)
           m == IF offset <= n THEN PageEnd(n, limit, offset) - offset ELSE 0
<1>1. p \in Seq(S) /\ Len(p) = m /\ \A i \in 1 .. m : p[i] = t[offset + i]
  <2>1. /\ Page(t, limit, offset) \in Seq(S) /\ Len(Page(t, limit, offset)) = m
        /\ \A i \in 1 .. m : Page(t, limit, offset)[i] = t[offset + i]
    BY PageIs
  <2> QED
    BY <2>1, Zenon
<1>2. /\ q = SubSeq(u, offset + 1, PageEnd(Len(u), limit, offset))
      /\ q \in Seq(R) /\ Len(q) = m /\ \A i \in 1 .. m : q[i] = u[offset + i]
  BY PageIs
<1>3. n \in Nat /\ m \in Nat /\ \A i \in 1 .. m : offset + i \in 1 .. n
  BY DEF PageEnd
<1>4. /\ DOMAIN v = DOMAIN p /\ v = [i \in DOMAIN p |-> v[i]]
      /\ \A i \in DOMAIN p, j \in DOMAIN t : p[i] = t[j] => v[i] = u[j]
  BY DEF Shows
<1>5. DOMAIN t = 1 .. n
  OBVIOUS
<1> HIDE DEF q, n, m
<1>6. DOMAIN p = 1 .. m /\ DOMAIN q = 1 .. m
  BY <1>1, <1>2
<1>7. \A i \in 1 .. m : v[i] = q[i]
  BY <1>1, <1>2, <1>3, <1>4, <1>5, <1>6, SMTT(60)
<1>8. v = q
  <2>1. q = [i \in 1 .. m |-> q[i]]
    BY <1>2, <1>6, SMTT(60)
  <2>2. v = [i \in 1 .. m |-> v[i]]
    BY <1>4, <1>6
  <2> QED
    BY <1>7, <2>1, <2>2
<1> QED
  BY <1>2, <1>8

\* The answer that shows stories, page by page, and the one that shows comments.
LEMMA ShownPages ==
  ASSUME NEW S, NEW t \in Seq(S), NEW limit \in Nat, limit > 0, NEW offset \in Nat
  PROVE  LET u == Each(ToItem, t)
             w == Each(ToComment, t)
         IN  /\ u \in Seq({ToItem(x) : x \in S}) /\ Len(u) = Len(t)
             /\ w \in Seq({ToComment(x) : x \in S}) /\ Len(w) = Len(t)
             /\ Each(ToItem, Page(t, limit, offset))
                  = SubSeq(u, offset + 1, PageEnd(Len(u), limit, offset))
             /\ Each(ToComment, Page(t, limit, offset))
                  = SubSeq(w, offset + 1, PageEnd(Len(w), limit, offset))
<1> DEFINE u == Each(ToItem, t)
           w == Each(ToComment, t)
           p == Page(t, limit, offset)
           A == {ToItem(x) : x \in S}
           B == {ToComment(x) : x \in S}
<1>1. DOMAIN t = 1 .. Len(t) /\ Len(t) \in Nat /\ \A i \in DOMAIN t : t[i] \in S
  OBVIOUS
<1>2. u = [i \in DOMAIN t |-> ToItem(t[i])] /\ w = [i \in DOMAIN t |-> ToComment(t[i])]
  BY DEF Each
<1>3. u \in [1 .. Len(t) -> A] /\ w \in [1 .. Len(t) -> B]
  BY <1>1, <1>2
<1> HIDE DEF A, B
<1>4. u \in Seq(A) /\ Len(u) = Len(t) /\ w \in Seq(B) /\ Len(w) = Len(t)
  BY <1>1, <1>3
<1>5. /\ Each(ToItem, p) = [i \in DOMAIN p |-> ToItem(p[i])]
      /\ Each(ToComment, p) = [i \in DOMAIN p |-> ToComment(p[i])]
  BY DEF Each
<1> HIDE DEF u, w, p
<1>6. Each(ToItem, p) = SubSeq(u, offset + 1, PageEnd(Len(u), limit, offset))
  <2> DEFINE v == Each(ToItem, p)
  <2>1. Shows(v, p, u, t)
    BY <1>2, <1>5 DEF Shows
  <2> HIDE DEF v
  <2>2. v = SubSeq(u, offset + 1, PageEnd(Len(u), limit, offset))
    <3>1. p = Page(t, limit, offset)
      BY DEF p
    <3> QED
      BY <1>4, <2>1, <3>1, PageShown
  <2> QED
    BY <2>2 DEF v
<1>7. Each(ToComment, p) = SubSeq(w, offset + 1, PageEnd(Len(w), limit, offset))
  <2> DEFINE v == Each(ToComment, p)
  <2>1. Shows(v, p, w, t)
    BY <1>2, <1>5 DEF Shows
  <2> HIDE DEF v
  <2>2. v = SubSeq(w, offset + 1, PageEnd(Len(w), limit, offset))
    <3>1. p = Page(t, limit, offset)
      BY DEF p
    <3> QED
      BY <1>4, <2>1, <3>1, PageShown
  <2> QED
    BY <2>2 DEF v
<1> QED
  BY <1>4, <1>6, <1>7 DEF u, w, p, A, B

\* The list of a response, when the store has one result.
LEMMA ListServed ==
  ASSUME NEW l
  PROVE  List(Served({l})) = l
<1> DEFINE a == [status |-> 200, list |-> l]
<1>1. Served({l}) = {a, WriteErr(500)}
  BY DEF Served
<1>2. a.status = 200 /\ WriteErr(500).status # 200 /\ a.list = l
  BY DEF WriteErr
<1> HIDE DEF a
<1>3. (CHOOSE x \in {a, WriteErr(500)} : x.status = 200) = a
  BY <1>2
<1> QED
  BY <1>1, <1>2, <1>3 DEF List

\* However the database orders the rows, a feed that is sorted by newest is the same list.
LEMMA OneFeed ==
  ASSUME IInv, IndexInv, QueryInv, ShallowReorgs \/ OneChain, NEW ids, ids \subseteq stories
  PROVE  \E t \in Lists(FeedSet(ids)) :
           /\ IsFiniteSet(FeedSet(ids))
           /\ \A limit, offset :
                {Page(SortByNewest(s), limit, offset) : s \in QueryFeed(ids)} = {Page(t, limit, offset)}
<1> DEFINE S == FeedSet(ids)
<1>1. IsFiniteSet(S) /\ Placed(S) /\ QueryFeed(ids) = Lists(S)
  BY FeedRows
<1> DEFINE Sorted(t) == t \in Lists(S) /\ \A j, k \in DOMAIN t : j < k => ~LaterThan(t[k], t[j])
<1>2. ASSUME NEW s \in Lists(S)
      PROVE  Sorted(SortByNewest(s))
  <2> HIDE DEF S
  <2>1. SortByNewest(s) \in Lists(S) /\ \A j, k \in 1 .. Cardinality(S) : j < k =>
              ~LaterThan(SortByNewest(s)[k], SortByNewest(s)[j])
    BY <1>1, NewestFirst
  <2>2. DOMAIN SortByNewest(s) = 1 .. Cardinality(S)
    BY <2>1, InLists
  <2> QED
    BY <2>1, <2>2
<1>3. ASSUME NEW t, NEW u, Sorted(t), Sorted(u)
      PROVE  t = u
  <2>1. /\ \A i \in DOMAIN t : /\ t[i].id \in ids /\ t[i] = FeedOf(t[i].id)
                               /\ Cardinality(Newer(ids, t[i].id)) = i - 1
        /\ \A id \in ids : \E i \in DOMAIN t : t[i].id = id
    BY <1>3, FeedPosition
  <2>2. \A i \in DOMAIN u : /\ u[i].id \in ids /\ u[i] = FeedOf(u[i].id)
                            /\ Cardinality(Newer(ids, u[i].id)) = i - 1
    BY <1>3, FeedPosition
  <2>3. /\ DOMAIN t = 1 .. Cardinality(S) /\ DOMAIN u = 1 .. Cardinality(S)
        /\ t = [i \in 1 .. Cardinality(S) |-> t[i]] /\ u = [i \in 1 .. Cardinality(S) |-> u[i]]
    BY <1>3 DEF Lists
  <2> HIDE DEF S, Sorted
  <2>4. ASSUME NEW i \in 1 .. Cardinality(S)
        PROVE  t[i] = u[i]
    <3>1. PICK j \in DOMAIN t : t[j].id = u[i].id
      BY <2>1, <2>2, <2>3
    <3>2. j - 1 = i - 1
      BY <2>1, <2>2, <2>3, <3>1
    <3>3. j = i
      BY <2>3, <3>2
    <3>4. t[i].id = u[i].id
      BY <3>1, <3>3
    <3>5. t[i] = FeedOf(t[i].id) /\ u[i] = FeedOf(u[i].id)
      BY <2>1, <2>2, <2>3
    <3> QED
      BY <3>4, <3>5, Zenon
  <2> QED
    BY <2>3, <2>4
<1>4. PICK s0 : s0 \in Lists(S)
  BY <1>1, ListsOf
<1> DEFINE t == SortByNewest(s0)
<1>5. Sorted(t)
  BY <1>2, <1>4
<1>6. \A s \in Lists(S) : SortByNewest(s) = t
  <2> HIDE DEF Sorted, S, t
  <2> QED
    BY <1>2, <1>3, <1>5
<1>7. t \in Lists(S)
  BY <1>5
<1> HIDE DEF S, Sorted, t
<1>8. \A limit, offset :
        {Page(SortByNewest(s), limit, offset) : s \in Lists(S)} = {Page(t, limit, offset)}
  BY <1>4, <1>6
<1> QED
  BY <1>1, <1>7, <1>8 DEF S

\* The list that REST shows of a feed that is sorted by newest, and of an author's comments.
FeedList(ids, limit, offset) ==
  List(FeedResponse({Page(SortByNewest(s), limit, offset) : s \in QueryFeed(ids)}))

CommentList(x, limit, offset) == List(Served({Each(ToComment, ByAuthor(x, limit, offset))}))

\* The pages g[k] of a list are its pieces.
LEMMA TileOf ==
  ASSUME NEW S, NEW u \in Seq(S), NEW limit \in Nat, limit > 0, NEW g,
         g = [k \in 1 .. Len(u) + 1 |-> g[k]],
         \A k \in 1 .. Len(u) + 1 :
           g[k] = SubSeq(u, (k - 1) * limit + 1, PageEnd(Len(u), limit, (k - 1) * limit))
  PROVE  u = FlattenSeq(g)
<1>1. \A k \in 1 .. Len(u) + 1 : g[k] = Piece(u, limit, k)
  BY DEF Piece
<1>2. g = [k \in 1 .. Len(u) + 1 |-> Piece(u, limit, k)]
  BY <1>1
<1> QED
  BY <1>2, PiecesTile

\* The offset of a page.
LEMMA PageOffset ==
  ASSUME NEW limit \in Nat, NEW n \in Nat, NEW k \in 1 .. n + 1
  PROVE  (k - 1) * limit \in Nat
BY SMT

\* The pages of a feed make up the feed.
LEMMA FeedTiles ==
  ASSUME IInv, IndexInv, QueryInv, ShallowReorgs \/ OneChain, NEW ids, ids \subseteq stories,
         NEW limit \in Nat, limit > 0
  PROVE  LET all == FeedList(ids, 0, 0)
         IN  /\ Len(all) \in Nat
             /\ all = FlattenSeq([k \in 1 .. Len(all) + 1 |-> FeedList(ids, limit, (k - 1) * limit)])
<1>1. PICK t \in Lists(FeedSet(ids)) :
        /\ IsFiniteSet(FeedSet(ids))
        /\ \A l, o : {Page(SortByNewest(s), l, o) : s \in QueryFeed(ids)} = {Page(t, l, o)}
  BY OneFeed
<1> DEFINE S == FeedSet(ids)
           u == Each(ToItem, t)
<1>2. Page(t, 0, 0) = t /\ t \in Seq(S)
  <2> HIDE DEF S
  <2>1. Page(t, 0, 0) = t /\ Len(t) = Cardinality(S)
    BY <1>1, WholePage DEF S
  <2>2. t \in [1 .. Cardinality(S) -> S] /\ Cardinality(S) \in Nat
    BY <1>1, FS_CardinalityType DEF Lists, S
  <2> QED
    BY <2>1, <2>2
<1>3. ASSUME NEW l, NEW o
      PROVE  FeedList(ids, l, o) = Each(ToItem, Page(t, l, o))
  <2>1. FeedResponse({Page(t, l, o)}) = Served({Each(ToItem, Page(t, l, o))})
    BY DEF FeedResponse
  <2>2. FeedList(ids, l, o) = List(FeedResponse({Page(t, l, o)}))
    BY <1>1 DEF FeedList
  <2> QED
    BY <2>1, <2>2, ListServed
<1> HIDE DEF S
<1>4. FeedList(ids, 0, 0) = u
  BY <1>2, <1>3
<1>5. u \in Seq({ToItem(x) : x \in S}) /\ Len(u) \in Nat
  <2>1. 0 \in Nat
    OBVIOUS
  <2>2. u \in Seq({ToItem(x) : x \in S})
    BY <1>2, <2>1, ShownPages
  <2> QED
    BY <2>2
<1>6. ASSUME NEW k \in 1 .. Len(u) + 1
      PROVE  FeedList(ids, limit, (k - 1) * limit)
               = SubSeq(u, (k - 1) * limit + 1, PageEnd(Len(u), limit, (k - 1) * limit))
  <2>1. PICK o \in Nat : o = (k - 1) * limit
    BY <1>5, PageOffset
  <2>2. FeedList(ids, limit, o) = Each(ToItem, Page(t, limit, o))
    BY <1>3
  <2>3. Each(ToItem, Page(t, limit, o)) = SubSeq(u, o + 1, PageEnd(Len(u), limit, o))
    BY <1>2, ShownPages, ZenonT(60)
  <2> QED
    BY <2>1, <2>2, <2>3
<1> DEFINE A == {ToItem(x) : x \in S}
           g == [k \in 1 .. Len(u) + 1 |-> FeedList(ids, limit, (k - 1) * limit)]
<1>7. /\ g = [k \in 1 .. Len(u) + 1 |-> g[k]]
      /\ \A k \in 1 .. Len(u) + 1 :
           g[k] = SubSeq(u, (k - 1) * limit + 1, PageEnd(Len(u), limit, (k - 1) * limit))
  BY <1>6
<1> HIDE DEF u, A, g
<1>8. u = FlattenSeq(g)
  BY <1>5, <1>7, TileOf DEF A
<1> QED
  BY <1>4, <1>5, <1>8 DEF g

\* The pages of an author's comments make them up.
LEMMA CommentTiles ==
  ASSUME IInv, QueryInv, NEW x, NEW limit \in Nat, limit > 0
  PROVE  LET all == CommentList(x, 0, 0)
         IN  /\ Len(all) \in Nat
             /\ all = FlattenSeq([k \in 1 .. Len(all) + 1 |-> CommentList(x, limit, (k - 1) * limit)])
<1> DEFINE ids == {d \in comments : Msg[d].author = x}
           S == ThreadSet(ids)
           t == SortByNewest(SetToSeq(S))
           u == Each(ToComment, t)
<1>1. IsFiniteSet(S) /\ Placed(S) /\ {ThreadComment(r) : r \in Joined(ids)} = S
  <2> HIDE DEF ids
  <2>1. ids \subseteq comments
    BY DEF ids
  <2> QED
    BY <2>1, ThreadRows
<1>2. \A l, o : ByAuthor(x, l, o) = IF l > 0 THEN Page(t, l, o) ELSE t
  BY <1>1 DEF ByAuthor, SortByNewest
<1> HIDE DEF ids, S
<1>3. t \in Lists(S)
  BY <1>1, ListsOf, NewestFirst
<1>4. t \in Seq(S)
  <2> HIDE DEF t
  <2>1. t \in [1 .. Cardinality(S) -> S] /\ Cardinality(S) \in Nat
    BY <1>1, <1>3, FS_CardinalityType DEF Lists
  <2> QED
    BY <2>1
<1> HIDE DEF t
<1>5. CommentList(x, 0, 0) = u
  BY <1>2, ListServed DEF CommentList
<1>6. u \in Seq({ToComment(c) : c \in S}) /\ Len(u) \in Nat
  <2>1. 0 \in Nat
    OBVIOUS
  <2>2. u \in Seq({ToComment(c) : c \in S})
    BY <1>4, <2>1, ShownPages
  <2> QED
    BY <2>2
<1>7. ASSUME NEW k \in 1 .. Len(u) + 1
      PROVE  CommentList(x, limit, (k - 1) * limit)
               = SubSeq(u, (k - 1) * limit + 1, PageEnd(Len(u), limit, (k - 1) * limit))
  <2>1. PICK o \in Nat : o = (k - 1) * limit
    BY <1>6, PageOffset
  <2>2. CommentList(x, limit, o) = Each(ToComment, Page(t, limit, o))
    BY <1>2, ListServed DEF CommentList
  <2>3. Each(ToComment, Page(t, limit, o)) = SubSeq(u, o + 1, PageEnd(Len(u), limit, o))
    BY <1>4, ShownPages, ZenonT(60)
  <2> QED
    BY <2>1, <2>2, <2>3
<1> DEFINE A == {ToComment(c) : c \in S}
           g == [k \in 1 .. Len(u) + 1 |-> CommentList(x, limit, (k - 1) * limit)]
<1>8. /\ g = [k \in 1 .. Len(u) + 1 |-> g[k]]
      /\ \A k \in 1 .. Len(u) + 1 :
           g[k] = SubSeq(u, (k - 1) * limit + 1, PageEnd(Len(u), limit, (k - 1) * limit))
  BY <1>7
<1> HIDE DEF u, A, g
<1>9. u = FlattenSeq(g)
  BY <1>6, <1>8, TileOf DEF A
<1> QED
  BY <1>5, <1>6, <1>9 DEF g

\* What the handlers read from a request for a page.
AsksFor(r, limit, offset, topic, xpk) ==
  /\ PageParams(r).limit = limit /\ PageParams(r).offset = offset
  /\ r.topic = topic /\ r.xpk = xpk
  /\ topic = NoText => RestQuery(r) = {FeedQuery({}, {}, TRUE, limit, offset)}

\* They read what the request says.
LEMMA RestPages ==
  ASSUME NEW limit \in Nat, NEW offset \in Nat, NEW topic, NEW xpk,
         NEW r, r = Rest(limit, offset, topic, NoText, xpk)
  PROVE  AsksFor(r, limit, offset, topic, xpk)
<1>1. PageParams(r).limit = limit /\ PageParams(r).offset = offset
  BY MaxZero DEF PageParams, AtoiDefault, Rest, Text
<1>2. r.topic = topic /\ r.xpk = xpk /\ r.subtype = NoText /\ r.nsfw = "1"
  BY DEF Rest
<1>3. ParseSubtype(NoText) = {} /\ ParseHex(NoText) = {} /\ NoText.form = "empty"
  BY DEF ParseSubtype, ParseHex, NoText
<1>4. topic = NoText => RestQuery(r) = {FeedQuery({}, {}, TRUE, limit, offset)}
  BY <1>1, <1>2, <1>3 DEF RestQuery, BoolParam
<1> QED
  BY <1>1, <1>2, <1>4 DEF AsksFor

\* The lists of the handlers.
LEMMA HandlerLists ==
  ASSUME IInv, QueryInv, NEW limit \in Nat, NEW offset \in Nat
  PROVE  /\ List(HandleNewFeed(Rest(limit, offset, NoText, NoText, NoText)))
              = FeedList(stories, limit, offset)
         /\ \A t \in Topics :
              List(HandleByTopic(Rest(limit, offset, Text(t), NoText, NoText)))
                = FeedList({id \in stories : Msg[id].topic = t}, limit, offset)
         /\ \A x \in Authors :
              /\ List(HandleAuthorItems(Rest(limit, offset, NoText, NoText, Text(x))))
                   = FeedList({id \in stories : FirstCommentAuthor(id) = x}, limit, offset)
              /\ List(HandleByAuthor(Rest(limit, offset, NoText, NoText, Text(x))))
                   = CommentList(x, limit, offset)
<1>0. \A y : ParseHex(Text(y)) = {y}
  BY DEF ParseHex, Text
<1>1. List(HandleNewFeed(Rest(limit, offset, NoText, NoText, NoText)))
        = FeedList(stories, limit, offset)
  <2> DEFINE r == Rest(limit, offset, NoText, NoText, NoText)
  <2>1. AsksFor(r, limit, offset, NoText, NoText)
    BY RestPages
  <2> DEFINE q == FeedQuery({}, {}, TRUE, limit, offset)
  <2>2. RestQuery(r) = {q}
    BY <2>1 DEF AsksFor
  <2>3. Filter(q) = stories /\ q.limit = limit /\ q.offset = offset
    BY DEF Filter, FeedQuery
  <2> HIDE DEF q, r
  <2>4. HandleNewFeed(r) = FeedResponse(NewFeed(q))
    BY <2>2 DEF HandleNewFeed, Checked
  <2> QED
    BY <2>3, <2>4 DEF NewFeed, FeedList, r
<1>2. ASSUME NEW t \in Topics
      PROVE  List(HandleByTopic(Rest(limit, offset, Text(t), NoText, NoText)))
               = FeedList({id \in stories : Msg[id].topic = t}, limit, offset)
  <2> DEFINE r == Rest(limit, offset, Text(t), NoText, NoText)
  <2>1. AsksFor(r, limit, offset, Text(t), NoText)
    BY RestPages
  <2> DEFINE q == FeedQuery({t}, {}, TRUE, limit, offset)
  <2>2. PageParams(r).limit = limit /\ PageParams(r).offset = offset /\ r.topic = Text(t)
    BY <2>1 DEF AsksFor
  <2>3. Filter(q) = {id \in stories : Msg[id].topic = t} /\ q.limit = limit /\ q.offset = offset
    BY DEF Filter, FeedQuery
  <2>4. ByTopic(t, limit, offset) = NewFeed(q)
    BY DEF ByTopic
  <2> HIDE DEF q, r
  <2>5. HandleByTopic(r) = FeedResponse(ByTopic(t, limit, offset))
    BY <1>0, <2>2 DEF HandleByTopic, Checked
  <2> QED
    BY <2>3, <2>4, <2>5 DEF NewFeed, FeedList, r
<1>3. ASSUME NEW x \in Authors
      PROVE  /\ List(HandleAuthorItems(Rest(limit, offset, NoText, NoText, Text(x))))
                  = FeedList({id \in stories : FirstCommentAuthor(id) = x}, limit, offset)
             /\ List(HandleByAuthor(Rest(limit, offset, NoText, NoText, Text(x))))
                  = CommentList(x, limit, offset)
  <2> DEFINE r == Rest(limit, offset, NoText, NoText, Text(x))
  <2>1. AsksFor(r, limit, offset, NoText, Text(x))
    BY RestPages
  <2>2. PageParams(r).limit = limit /\ PageParams(r).offset = offset /\ r.xpk = Text(x)
    BY <2>1 DEF AsksFor
  <2> HIDE DEF r
  <2>3. HandleAuthorItems(r) = FeedResponse(ItemsByAuthor(x, limit, offset))
    BY <1>0, <2>2 DEF HandleAuthorItems, Checked
  <2>4. HandleByAuthor(r) = Served({Each(ToComment, ByAuthor(x, limit, offset))})
    <3> DEFINE Z(y) == Served({Each(ToComment, ByAuthor(y, PageParams(r).limit, PageParams(r).offset))})
    <3>1. HandleByAuthor(r) = Checked(ParseHex(r.xpk), Z)
      BY DEF HandleByAuthor, Checked
    <3> HIDE DEF Z
    <3>2. Checked(ParseHex(r.xpk), Z) = Z(x)
      BY <1>0, <2>2 DEF Checked
    <3>3. Z(x) = Served({Each(ToComment, ByAuthor(x, limit, offset))})
      BY <2>2 DEF Z
    <3> QED
      BY <3>1, <3>2, <3>3
  <2> QED
    BY <2>3, <2>4 DEF ItemsByAuthor, FeedList, CommentList, r
<1> QED
  BY <1>1, <1>2, <1>3

\* page, buildFilter and the SQL of ByAuthor: the pages that a client asks for one after
\* the other, with any limit, make up the whole list, in its order and without overlap,
\* however long the list is.
THEOREM PagesMakeUpLists ==
  ASSUME ShallowReorgs \/ OneChain
  PROVE  ReaderSpec => []PagesTile
<1> DEFINE Inv == IInv /\ IndexInv /\ QueryInv
<1>1. Spec => []Inv
  BY IndexInvariance, QueryInvariance, PTL
<1>2. ASSUME Inv
      PROVE  PagesTile
  <2>0. PageNumbers \ {0} \subseteq Nat /\ \A l \in PageNumbers \ {0} : l > 0
    BY PageAssumption
  <2>1. ASSUME NEW limit \in PageNumbers \ {0}
        PROVE  LET all == List(HandleNewFeed(Rest(0, 0, NoText, NoText, NoText)))
                   g == [k \in 1 .. Len(all) + 1 |->
                           List(HandleNewFeed(Rest(limit, (k - 1) * limit, NoText, NoText, NoText)))]
               IN  all = FlattenSeq(g)
    <3> DEFINE all == FeedList(stories, 0, 0)
    <3>1. limit \in Nat /\ limit > 0
      BY <2>0
    <3>2. /\ Len(all) \in Nat
          /\ all = FlattenSeq([k \in 1 .. Len(all) + 1 |-> FeedList(stories, limit, (k - 1) * limit)])
      BY <1>2, <3>1, FeedTiles
    <3> HIDE DEF all
    <3>3. \A l, o \in Nat : List(HandleNewFeed(Rest(l, o, NoText, NoText, NoText))) = FeedList(stories, l, o)
      BY <1>2, HandlerLists
    <3>4. \A k \in 1 .. Len(all) + 1 : (k - 1) * limit \in Nat
      BY <3>1, <3>2, PageOffset
    <3>5. [k \in 1 .. Len(all) + 1 |-> List(HandleNewFeed(Rest(limit, (k - 1) * limit, NoText, NoText, NoText)))]
            = [k \in 1 .. Len(all) + 1 |-> FeedList(stories, limit, (k - 1) * limit)]
      BY <3>1, <3>3, <3>4
    <3>6. List(HandleNewFeed(Rest(0, 0, NoText, NoText, NoText))) = all
      BY <3>3 DEF all
    <3> QED
      BY <3>2, <3>5, <3>6
  <2>2. ASSUME NEW limit \in PageNumbers \ {0}, NEW t \in Topics
        PROVE  LET all == List(HandleByTopic(Rest(0, 0, Text(t), NoText, NoText)))
                   g == [k \in 1 .. Len(all) + 1 |->
                           List(HandleByTopic(Rest(limit, (k - 1) * limit, Text(t), NoText, NoText)))]
               IN  all = FlattenSeq(g)
    <3> DEFINE ids == {id \in stories : Msg[id].topic = t}
               all == FeedList(ids, 0, 0)
    <3>0. \A l, o \in Nat : List(HandleByTopic(Rest(l, o, Text(t), NoText, NoText))) = FeedList(ids, l, o)
      BY <1>2, HandlerLists
    <3>1. limit \in Nat /\ limit > 0 /\ ids \subseteq stories
      BY <2>0
    <3> HIDE DEF ids
    <3>2. /\ Len(all) \in Nat
          /\ all = FlattenSeq([k \in 1 .. Len(all) + 1 |-> FeedList(ids, limit, (k - 1) * limit)])
      BY <1>2, <3>1, FeedTiles
    <3> HIDE DEF all
    <3>4. \A k \in 1 .. Len(all) + 1 : (k - 1) * limit \in Nat
      BY <3>1, <3>2, PageOffset
    <3>5. [k \in 1 .. Len(all) + 1 |-> List(HandleByTopic(Rest(limit, (k - 1) * limit, Text(t), NoText, NoText)))]
            = [k \in 1 .. Len(all) + 1 |-> FeedList(ids, limit, (k - 1) * limit)]
      BY <3>0, <3>1, <3>4
    <3>6. List(HandleByTopic(Rest(0, 0, Text(t), NoText, NoText))) = all
      BY <3>0 DEF all
    <3> QED
      BY <3>2, <3>5, <3>6
  <2>3. ASSUME NEW limit \in PageNumbers \ {0}, NEW x \in Authors
        PROVE  LET all == List(HandleAuthorItems(Rest(0, 0, NoText, NoText, Text(x))))
                   g == [k \in 1 .. Len(all) + 1 |->
                           List(HandleAuthorItems(Rest(limit, (k - 1) * limit, NoText, NoText, Text(x))))]
               IN  all = FlattenSeq(g)
    <3> DEFINE ids == {id \in stories : FirstCommentAuthor(id) = x}
               all == FeedList(ids, 0, 0)
    <3>0. \A l, o \in Nat : List(HandleAuthorItems(Rest(l, o, NoText, NoText, Text(x)))) = FeedList(ids, l, o)
      BY <1>2, HandlerLists
    <3>1. limit \in Nat /\ limit > 0 /\ ids \subseteq stories
      BY <2>0
    <3> HIDE DEF ids
    <3>2. /\ Len(all) \in Nat
          /\ all = FlattenSeq([k \in 1 .. Len(all) + 1 |-> FeedList(ids, limit, (k - 1) * limit)])
      BY <1>2, <3>1, FeedTiles
    <3> HIDE DEF all
    <3>4. \A k \in 1 .. Len(all) + 1 : (k - 1) * limit \in Nat
      BY <3>1, <3>2, PageOffset
    <3>5. [k \in 1 .. Len(all) + 1 |-> List(HandleAuthorItems(Rest(limit, (k - 1) * limit, NoText, NoText, Text(x))))]
            = [k \in 1 .. Len(all) + 1 |-> FeedList(ids, limit, (k - 1) * limit)]
      BY <3>0, <3>1, <3>4
    <3>6. List(HandleAuthorItems(Rest(0, 0, NoText, NoText, Text(x)))) = all
      BY <3>0 DEF all
    <3> QED
      BY <3>2, <3>5, <3>6
  <2>4. ASSUME NEW limit \in PageNumbers \ {0}, NEW x \in Authors
        PROVE  LET all == List(HandleByAuthor(Rest(0, 0, NoText, NoText, Text(x))))
                   g == [k \in 1 .. Len(all) + 1 |->
                           List(HandleByAuthor(Rest(limit, (k - 1) * limit, NoText, NoText, Text(x))))]
               IN  all = FlattenSeq(g)
    <3> DEFINE all == CommentList(x, 0, 0)
    <3>0. \A l, o \in Nat : List(HandleByAuthor(Rest(l, o, NoText, NoText, Text(x)))) = CommentList(x, l, o)
      BY <1>2, HandlerLists
    <3>1. limit \in Nat /\ limit > 0
      BY <2>0
    <3>2. /\ Len(all) \in Nat
          /\ all = FlattenSeq([k \in 1 .. Len(all) + 1 |-> CommentList(x, limit, (k - 1) * limit)])
      BY <1>2, <3>1, CommentTiles
    <3> HIDE DEF all
    <3>4. \A k \in 1 .. Len(all) + 1 : (k - 1) * limit \in Nat
      BY <3>1, <3>2, PageOffset
    <3>5. [k \in 1 .. Len(all) + 1 |-> List(HandleByAuthor(Rest(limit, (k - 1) * limit, NoText, NoText, Text(x))))]
            = [k \in 1 .. Len(all) + 1 |-> CommentList(x, limit, (k - 1) * limit)]
      BY <3>0, <3>1, <3>4
    <3>6. List(HandleByAuthor(Rest(0, 0, NoText, NoText, Text(x)))) = all
      BY <3>0 DEF all
    <3> QED
      BY <3>2, <3>5, <3>6
  <2> QED
    BY <2>1, <2>2, <2>3, <2>4 DEF PagesTile
<1> HIDE DEF Inv
<1> QED
  BY <1>1, <1>2, ReadersOnlyRead, PTL
=============================================================================
