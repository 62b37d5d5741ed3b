--------------------------- MODULE PositionsProofs ----------------------------
(***************************************************************************)
(* What Positions and Selected return, for every list.  That there is a    *)
(* k-th position is induction over the list, by the least number up to     *)
(* which there are k.  At the end are facts about lists in general, for    *)
(* the modules that are proved with this one.                              *)
(***************************************************************************)
EXTENDS Positions, SequencesExt, FiniteSetTheorems, SequenceTheorems, TLAPS

\* How many positions there are up to i.
Rank(S, i) == Cardinality({j \in S : j <= i})

-------------------------------------------------------------------------------
\* Induction over numbers, for a set of them in place of a predicate.

\* Every set of natural numbers that is not empty has a least member.
LEMMA LeastNatural ==
    ASSUME NEW T, T \subseteq Nat, T # {}
    PROVE  \E m \in T : \A k \in T : m <= k
<1> DEFINE R == OpToRel(<, Nat)
<1>1. IsWellFoundedOn(R, Nat)
  BY NatLessThanWellFounded
<1>2. \A x, y \in Nat : x < y => <<x, y>> \in R
  BY DEF OpToRel
<1> HIDE DEF R
<1>3. PICK m \in T : \A k \in T : <<k, m>> \notin R
  BY <1>1, WFMin
<1>4. \A k \in T : k \in Nat
  OBVIOUS
<1>5. \A k \in T : ~(k < m)
  BY <1>2, <1>3, <1>4
<1>6. \A k \in T : m <= k
  BY <1>4, <1>5
<1> QED
  BY <1>6

\* A set that has 0, and with a number the next one, has all of them.
LEMMA Induction ==
    ASSUME NEW S, 0 \in S, \A n \in Nat : n \in S => n + 1 \in S
    PROVE  \A n \in Nat : n \in S
<1> SUFFICES ASSUME NEW n \in Nat, n \notin S
             PROVE  FALSE
  OBVIOUS
<1> DEFINE T == {k \in Nat : k \notin S}
<1>1. PICK m \in T : \A k \in T : m <= k
  <2>1. T # {} /\ T \subseteq Nat
    OBVIOUS
  <2> HIDE DEF T
  <2> QED
    BY <2>1, LeastNatural
<1>2. m - 1 \in Nat /\ m - 1 \notin T
  BY <1>1
<1> QED
  BY <1>1, <1>2

-------------------------------------------------------------------------------
\* Ranks.

\* All these sets are finite.
LEMMA RankType ==
    ASSUME NEW n \in Nat, NEW S, S \subseteq 1..n
    PROVE  /\ IsFiniteSet(S) /\ Cardinality(S) \in Nat
           /\ \A i \in Nat : /\ IsFiniteSet({j \in S : j <= i})
                             /\ Rank(S, i) \in 0..Cardinality(S)
<1>1. IsFiniteSet(1..n)
  BY FS_Interval
<1>2. IsFiniteSet(S) /\ Cardinality(S) \in Nat
  BY <1>1, FS_Subset, FS_CardinalityType
<1>3. ASSUME NEW i \in Nat
      PROVE  IsFiniteSet({j \in S : j <= i}) /\ Rank(S, i) \in 0..Cardinality(S)
  <2> DEFINE T == {j \in S : j <= i}
  <2>1. T \in SUBSET S
    OBVIOUS
  <2> HIDE DEF T
  <2>2. IsFiniteSet(T) /\ Cardinality(T) <= Cardinality(S)
    BY <1>2, <2>1, FS_Subset
  <2>3. Cardinality(T) \in Nat
    BY <2>2, FS_CardinalityType
  <2>4. Cardinality(T) \in 0..Cardinality(S)
    BY <1>2, <2>2, <2>3
  <2> QED
    BY <2>2, <2>4 DEF Rank, T
<1> QED
  BY <1>2, <1>3

\* The rank grows by one at each position, and nowhere else.
LEMMA RankStep ==
    ASSUME NEW n \in Nat, NEW S, S \subseteq 1..n, NEW i \in Nat
    PROVE  Rank(S, i + 1) = IF i + 1 \in S THEN Rank(S, i) + 1 ELSE Rank(S, i)
<1>0. \A x \in S : x \in Nat /\ 1 <= x /\ x <= n
  OBVIOUS
<1> DEFINE T == {j \in S : j <= i}
           U == {j \in S : j <= i + 1}
<1>1. IsFiniteSet(T)
  BY RankType
<1>2. CASE i + 1 \in S
  <2>1. U = T \cup {i + 1} /\ i + 1 \notin T
    <3>1. \A j \in S : j <= i + 1 <=> j <= i \/ j = i + 1
      BY <1>0
    <3>2. ~(i + 1 <= i) /\ i + 1 <= i + 1
      OBVIOUS
    <3> QED
      BY <1>2, <3>1, <3>2
  <2> HIDE DEF T, U
  <2>2. Cardinality(U) = Cardinality(T) + 1
    BY <1>1, <2>1, FS_AddElement
  <2> QED
    BY <1>2, <2>2 DEF Rank, T, U
<1>3. CASE i + 1 \notin S
  <2>1. U = T
    <3>1. \A j \in S : j <= i + 1 <=> j <= i \/ j = i + 1
      BY <1>0
    <3> QED
      BY <1>3, <3>1
  <2> QED
    BY <1>3, <2>1 DEF Rank
<1> QED
  BY <1>2, <1>3

\* No two positions have the same rank, and a later one has a higher.
LEMMA RankAscends ==
    ASSUME NEW n \in Nat, NEW S, S \subseteq 1..n, NEW i \in S, NEW j \in S, i < j
    PROVE  Rank(S, i) < Rank(S, j)
<1>0. \A x \in S : x \in Nat /\ 1 <= x /\ x <= n
  OBVIOUS
<1> DEFINE T == {k \in S : k <= i}
           U == {k \in S : k <= j}
<1>1. i \in Nat /\ j \in Nat
  BY <1>0
<1>2. IsFiniteSet(T) /\ IsFiniteSet(U)
  BY <1>1, RankType
<1>3. T \in SUBSET U /\ T # U
  <2>1. j \in U /\ j \notin T
    BY <1>1
  <2>2. \A k \in S : k <= i => k <= j
    BY <1>0, <1>1
  <2> QED
    BY <2>1, <2>2
<1> HIDE DEF T, U
<1>4. Cardinality(T) <= Cardinality(U) /\ Cardinality(T) # Cardinality(U)
  BY <1>2, <1>3, FS_Subset
<1>5. Cardinality(T) \in Nat /\ Cardinality(U) \in Nat
  BY <1>2, FS_CardinalityType
<1>6. Cardinality(T) < Cardinality(U)
  BY <1>4, <1>5
<1> QED
  BY <1>6 DEF Rank, T, U

\* There is a position of each rank.
LEMMA Ranked ==
    ASSUME NEW n \in Nat, NEW S, S \subseteq 1..n, NEW k \in 1..Cardinality(S)
    PROVE  \E i \in S : Rank(S, i) = k
<1>0. \A x \in S : x \in Nat /\ 1 <= x /\ x <= n
  OBVIOUS
<1> DEFINE T == {i \in Nat : Rank(S, i) >= k}
<1>1. Cardinality(S) \in Nat /\ \A i \in Nat : Rank(S, i) \in Nat
  <2>1. Cardinality(S) \in Nat /\ \A i \in Nat : Rank(S, i) \in 0..Cardinality(S)
    BY RankType
  <2> QED
    BY <2>1
<1>2. n \in T
  <2>1. {j \in S : j <= n} = S
    BY <1>0
  <2>2. Rank(S, n) = Cardinality(S)
    BY <2>1 DEF Rank
  <2> QED
    BY <1>1, <2>2
<1>3. PICK m \in T : \A i \in T : m <= i
  <2>1. T \subseteq Nat /\ T # {}
    BY <1>2
  <2> HIDE DEF T
  <2> QED
    BY <2>1, LeastNatural
<1>4. m # 0
  <2>1. {j \in S : j <= 0} = {}
    <3>1. \A j \in S : ~(j <= 0)
      BY <1>0
    <3> QED
      BY <3>1
  <2>2. Rank(S, 0) = 0
    BY <2>1, FS_EmptySet DEF Rank
  <2> QED
    BY <1>1, <1>3, <2>2
<1>5. m - 1 \in Nat /\ (m - 1) + 1 = m /\ m - 1 \notin T
  BY <1>3, <1>4
<1>6. Rank(S, m) = IF m \in S THEN Rank(S, m - 1) + 1 ELSE Rank(S, m - 1)
  <2> DEFINE i == m - 1
  <2>1. i \in Nat /\ i + 1 = m
    BY <1>5
  <2> HIDE DEF i
  <2>2. Rank(S, i + 1) = IF i + 1 \in S THEN Rank(S, i) + 1 ELSE Rank(S, i)
    BY <2>1, RankStep
  <2> QED
    BY <2>1, <2>2 DEF i
<1>7. Rank(S, m - 1) < k /\ Rank(S, m) >= k
  BY <1>1, <1>3, <1>5
<1> QED
  BY <1>1, <1>3, <1>5, <1>6, <1>7

-------------------------------------------------------------------------------
\* Positions.

\* Positions lists the numbers of S, each once, in increasing order, and the place
\* of each in the list is its rank.
THEOREM PositionsListed ==
    ASSUME NEW n \in Nat, NEW S, S \subseteq 1..n
    PROVE  /\ Cardinality(S) \in Nat
           /\ Positions(S) \in [1..Cardinality(S) -> S]
           /\ \A k \in 1..Cardinality(S) : Rank(S, Positions(S)[k]) = k
           /\ \A i \in S : /\ Rank(S, i) \in 1..Cardinality(S)
                           /\ Positions(S)[Rank(S, i)] = i
           /\ \A j, k \in 1..Cardinality(S) : j < k => Positions(S)[j] < Positions(S)[k]
<1>0. \A x \in S : x \in Nat /\ 1 <= x /\ x <= n
  OBVIOUS
<1>1. Cardinality(S) \in Nat /\ \A i \in S : i \in Nat /\ Rank(S, i) \in 0..Cardinality(S)
  BY <1>0, RankType
<1> DEFINE at == [k \in 1..Cardinality(S) |-> CHOOSE i \in S : Rank(S, i) = k]
<1>2. Positions(S) = at
  BY DEF Positions, Rank
<1>3. \A k \in 1..Cardinality(S) : at[k] \in S /\ Rank(S, at[k]) = k
  BY Ranked
<1>4. ASSUME NEW i \in S
      PROVE  Rank(S, i) \in 1..Cardinality(S) /\ at[Rank(S, i)] = i
  <2> DEFINE T == {j \in S : j <= i}
  <2>1. IsFiniteSet(T) /\ i \in T
    <3>1. i \in Nat /\ i <= i
      BY <1>1
    <3>2. IsFiniteSet(T)
      BY <3>1, RankType
    <3> QED
      BY <3>1, <3>2
  <2>2. Cardinality(T) # 0
    BY <2>1, FS_EmptySet
  <2>3. Rank(S, i) \in 1..Cardinality(S)
    BY <1>1, <2>2 DEF Rank
  <2>4. at[Rank(S, i)] \in S /\ Rank(S, at[Rank(S, i)]) = Rank(S, i)
    BY <1>3, <2>3
  <2> DEFINE j == at[Rank(S, i)]
  <2> HIDE DEF at, T
  <2>5. j \in S /\ Rank(S, j) = Rank(S, i)
    BY <2>4
  <2> HIDE DEF j
  <2>6. j \in Nat /\ i \in Nat /\ Rank(S, i) \in Nat
    BY <1>1, <2>3, <2>5
  <2>7. ~(i < j) /\ ~(j < i)
    <3>1. i < j => Rank(S, i) < Rank(S, j)
      BY <2>5, RankAscends
    <3>2. j < i => Rank(S, j) < Rank(S, i)
      BY <2>5, RankAscends
    <3> QED
      BY <2>5, <2>6, <3>1, <3>2
  <2>8. j = i
    BY <2>6, <2>7
  <2> QED
    BY <2>3, <2>8 DEF j
<1>5. ASSUME NEW j \in 1..Cardinality(S), NEW k \in 1..Cardinality(S), j < k
      PROVE  at[j] < at[k]
  <2> DEFINE x == at[j]
             y == at[k]
  <2>1. /\ x \in S /\ y \in S /\ x \in Nat /\ y \in Nat
        /\ Rank(S, x) = j /\ Rank(S, y) = k
    BY <1>1, <1>3
  <2> HIDE DEF x, y, at
  <2>2. ~(y < x) /\ y # x
    <3>1. y < x => k < j
      <4>1. y < x => Rank(S, y) < Rank(S, x)
        BY <2>1, RankAscends
      <4> QED
        BY <2>1, <4>1
    <3>2. ~(k < j) /\ j # k
      BY <1>1, <1>5
    <3> QED
      BY <2>1, <3>1, <3>2
  <2>3. x < y
    BY <2>1, <2>2
  <2> QED
    BY <2>3 DEF x, y
<1>6. at \in [1..Cardinality(S) -> S]
  BY <1>3
<1> HIDE DEF at
<1> QED
  BY <1>1, <1>2, <1>3, <1>4, <1>5, <1>6

\* Nothing else does: a list of the numbers of S in increasing order is Positions.
THEOREM PositionsUnique ==
    ASSUME NEW n \in Nat, NEW S, S \subseteq 1..n,
           NEW m \in Nat, NEW at \in [1..m -> S],
           \A j, k \in 1..m : j < k => at[j] < at[k],
           \A i \in S : \E k \in 1..m : at[k] = i
    PROVE  at = Positions(S)
<1>0. \A x \in S : x \in Nat /\ 1 <= x /\ x <= n
  OBVIOUS
<1>1. ASSUME NEW k \in 1..m
      PROVE  Rank(S, at[k]) = k
  <2> DEFINE T == {j \in S : j <= at[k]}
             f == [j \in 1..k |-> at[j]]
  <2>1. \A j \in 1..m : at[j] \in S /\ at[j] \in Nat
    BY <1>0
  <2>2. f \in [1..k -> T]
    <3> SUFFICES ASSUME NEW j \in 1..k PROVE at[j] \in T
      OBVIOUS
    <3>1. j = k \/ j < k
      OBVIOUS
    <3> QED
      BY <2>1, <3>1
  <2>3. \A i, j \in 1..k : f[i] = f[j] => i = j
    <3> SUFFICES ASSUME NEW i \in 1..k, NEW j \in 1..k, at[i] = at[j], i # j
                 PROVE  FALSE
      OBVIOUS
    <3>1. i < j \/ j < i
      OBVIOUS
    <3> QED
      BY <2>1, <3>1
  <2>4. \A t \in T : \E j \in 1..k : f[j] = t
    <3> TAKE t \in T
    <3>1. PICK j \in 1..m : at[j] = t
      OBVIOUS
    <3>2. ~(k < j)
      BY <2>1, <3>1
    <3> QED
      BY <3>1, <3>2
  <2>5. ExistsBijection(1..k, T)
    <3>1. f \in Bijection(1..k, T)
      BY <2>2, <2>3, <2>4 DEF Bijection, Injection, Surjection, IsInjective
    <3> QED
      BY <3>1 DEF ExistsBijection
  <2>6. Cardinality(T) = k
    BY <2>5, FS_CountingElements
  <2> QED
    BY <2>6 DEF Rank
<1> DEFINE c == Cardinality(S)
           ps == Positions(S)
<1>2. /\ c \in Nat /\ ps \in [1..c -> S]
      /\ \A i \in S : Rank(S, i) \in 1..c /\ ps[Rank(S, i)] = i
      /\ \A k \in 1..c : Rank(S, ps[k]) = k
  BY PositionsListed
<1> HIDE DEF c, ps
<1>3. \A k \in 1..m : k \in 1..c /\ ps[k] = at[k]
  BY <1>1, <1>2
<1>4. \A k \in 1..c : k \in 1..m
  <2> TAKE k \in 1..c
  <2>1. PICK j \in 1..m : at[j] = ps[k]
    BY <1>2
  <2>2. j = k
    BY <1>1, <1>2, <2>1
  <2> QED
    BY <2>2
<1>5. 1..m = 1..c
  BY <1>3, <1>4
<1>6. at = ps
  BY <1>2, <1>3, <1>5
<1> QED
  BY <1>6 DEF ps

\* Selected returns the elements at these positions, which are as many.
THEOREM SelectedListed ==
    ASSUME NEW A, NEW s \in Seq(A), NEW S, S \subseteq DOMAIN s
    PROVE  /\ Selected(s, S) \in Seq(A)
           /\ Len(Selected(s, S)) = Cardinality(S) /\ Cardinality(S) \in Nat
           /\ DOMAIN Selected(s, S) = 1..Cardinality(S)
           /\ \A k \in 1..Cardinality(S) : /\ Positions(S)[k] \in S
                                           /\ Selected(s, S)[k] = s[Positions(S)[k]]
<1>1. Len(s) \in Nat /\ DOMAIN s = 1..Len(s) /\ \A i \in DOMAIN s : s[i] \in A
  BY LenProperties, ElementOfSeq
<1>2. Cardinality(S) \in Nat /\ Positions(S) \in [1..Cardinality(S) -> S]
  BY <1>1, PositionsListed
<1>3. \A k \in 1..Cardinality(S) : s[Positions(S)[k]] \in A
  BY <1>1, <1>2
<1>4. Selected(s, S) \in Seq(A)
  BY <1>2, <1>3, IsASeq DEF Selected
<1>5. DOMAIN Selected(s, S) = 1..Cardinality(S)
  BY DEF Selected
<1>6. Len(Selected(s, S)) = Cardinality(S)
  BY <1>2, <1>4, <1>5, LenProperties
<1> QED
  BY <1>2, <1>4, <1>5, <1>6 DEF Selected

\* T are the elements of S whose positions among S are in M.
Composed(S, M, T) ==
    /\ Cardinality(T) = Cardinality(M) /\ DOMAIN Positions(T) = 1..Cardinality(M)
    /\ \A k \in 1..Cardinality(M) : Positions(T)[k] = Positions(S)[Positions(M)[k]]
    /\ \A i \in T : Rank(T, i) = Rank(M, Rank(S, i))

\* Selecting twice is selecting once: the cache looks up the valid addresses, and
\* sends the misses among these.
THEOREM PositionsComposed ==
    ASSUME NEW n \in Nat, NEW S, S \subseteq 1..n, NEW M, M \subseteq 1..Cardinality(S),
           NEW T, T = {i \in S : Rank(S, i) \in M}
    PROVE  Composed(S, M, T)
<1> DEFINE v == Cardinality(S)
           m == Cardinality(M)
           at == [k \in 1..m |-> Positions(S)[Positions(M)[k]]]
<1>1. /\ v \in Nat /\ Positions(S) \in [1..v -> S]
      /\ \A k \in 1..v : Rank(S, Positions(S)[k]) = k
      /\ \A i \in S : Rank(S, i) \in 1..v /\ Positions(S)[Rank(S, i)] = i
      /\ \A j, k \in 1..v : j < k => Positions(S)[j] < Positions(S)[k]
  BY PositionsListed
<1>2. /\ m \in Nat /\ Positions(M) \in [1..m -> M]
      /\ \A i \in M : Rank(M, i) \in 1..m /\ Positions(M)[Rank(M, i)] = i
      /\ \A j, k \in 1..m : j < k => Positions(M)[j] < Positions(M)[k]
  <2> HIDE DEF v
  <2>1. v \in Nat /\ M \subseteq 1..v
    BY <1>1 DEF v
  <2> QED
    BY <2>1, PositionsListed
<1>3. M \subseteq 1..v /\ T \subseteq S /\ T \subseteq 1..n
  OBVIOUS
<1> HIDE DEF v, m
<1>4. at \in [1..m -> T]
  <2> SUFFICES ASSUME NEW k \in 1..m
               PROVE  Positions(S)[Positions(M)[k]] \in T
    OBVIOUS
  <2>1. Positions(M)[k] \in M /\ Positions(M)[k] \in 1..v
    BY <1>2, <1>3
  <2>2. Positions(S)[Positions(M)[k]] \in S
        /\ Rank(S, Positions(S)[Positions(M)[k]]) = Positions(M)[k]
    BY <1>1, <2>1
  <2> QED
    BY <2>1, <2>2
<1>5. \A j, k \in 1..m : j < k => at[j] < at[k]
  BY <1>1, <1>2, <1>3
<1>6. \A i \in T : Rank(M, Rank(S, i)) \in 1..m /\ at[Rank(M, Rank(S, i))] = i
  BY <1>1, <1>2
<1>7. at = Positions(T)
  <2>1. \A i \in T : \E k \in 1..m : at[k] = i
    BY <1>6
  <2> HIDE DEF at
  <2> QED
    BY <1>2, <1>3, <1>4, <1>5, <2>1, PositionsUnique
<1>8. /\ Cardinality(T) \in Nat /\ DOMAIN Positions(T) = 1..Cardinality(T)
      /\ \A k \in 1..Cardinality(T) : Rank(T, Positions(T)[k]) = k
  BY <1>3, PositionsListed
<1>9. Cardinality(T) = m
  <2>1. DOMAIN at = 1..m
    OBVIOUS
  <2> HIDE DEF at
  <2>2. 1..m = 1..Cardinality(T)
    BY <1>7, <1>8, <2>1
  <2> QED
    BY <1>2, <1>8, <2>2
<1>10. \A i \in T : Rank(T, i) = Rank(M, Rank(S, i))
  <2> HIDE DEF at
  <2> QED
    BY <1>6, <1>7, <1>8, <1>9
<1>11. \A k \in 1..m : Positions(T)[k] = Positions(S)[Positions(M)[k]]
  BY <1>7
<1> QED
  BY <1>8, <1>9, <1>10, <1>11 DEF m, Composed

-------------------------------------------------------------------------------
\* Lists.

\* A list of n values, as rows and lists of rows are.
IsRow(row, n) == row = [j \in 1..n |-> row[j]]

LEMMA RowLength ==
    ASSUME NEW n \in Nat, NEW row, IsRow(row, n)
    PROVE  /\ DOMAIN row = 1..n /\ Len(row) = n
           /\ row \in Seq({row[j] : j \in 1..n})
<1> DEFINE A == {row[j] : j \in 1..n}
<1>1. \A j \in 1..n : row[j] \in A
  OBVIOUS
<1> HIDE DEF A
<1>2. row \in [1..n -> A]
  BY <1>1 DEF IsRow
<1>3. row \in Seq(A)
  BY <1>2, IsASeq
<1> QED
  BY <1>2, <1>3, LenProperties DEF A

LEMMA ListIsRow ==
    ASSUME NEW A, NEW s \in Seq(A)
    PROVE  Len(s) \in Nat /\ IsRow(s, Len(s)) /\ \A j \in 1..Len(s) : s[j] \in A
<1>1. Len(s) \in Nat /\ s \in [1..Len(s) -> A]
  BY LenProperties
<1> QED
  BY <1>1 DEF IsRow

\* r is s and t, one after the other.
IsJoin(r, s, n, t, m) ==
    /\ IsRow(s, n) /\ IsRow(t, m)
    /\ IsRow(r, n + m) /\ Len(r) = n + m
    /\ \A j \in 1..n : r[j] = s[j]
    /\ \A j \in 1..m : r[n + j] = t[j]

LEMMA Joined ==
    ASSUME NEW n \in Nat, NEW m \in Nat, NEW s, NEW t, IsRow(s, n), IsRow(t, m)
    PROVE  IsJoin(s \o t, s, n, t, m)
<1> DEFINE A == {s[j] : j \in 1..n} \cup {t[j] : j \in 1..m}
<1>1. (\A j \in 1..n : s[j] \in A) /\ (\A j \in 1..m : t[j] \in A)
  OBVIOUS
<1> HIDE DEF A
<1>2. s \in [1..n -> A] /\ t \in [1..m -> A]
  BY <1>1 DEF IsRow
<1>3. s \in Seq(A) /\ t \in Seq(A)
  BY <1>2, IsASeq
<1>4. Len(s) = n /\ Len(t) = m
  BY <1>2, <1>3, LenProperties
<1>5. s \o t \in Seq(A) /\ Len(s \o t) = n + m
  BY <1>3, <1>4, ConcatProperties
<1>6. \A i \in 1..(n + m) : (s \o t)[i] = IF i <= n THEN s[i] ELSE t[i - n]
  BY <1>3, <1>4, ConcatProperties
<1>7. ASSUME NEW j \in 1..n
      PROVE  (s \o t)[j] = s[j]
  <2>1. j \in 1..(n + m) /\ j <= n
    OBVIOUS
  <2> QED
    BY <1>6, <2>1
<1>8. ASSUME NEW j \in 1..m
      PROVE  (s \o t)[n + j] = t[j]
  <2>1. n + j \in 1..(n + m) /\ ~(n + j <= n) /\ (n + j) - n = j
    OBVIOUS
  <2> QED
    BY <1>6, <2>1
<1>9. IsRow(s \o t, n + m)
  BY <1>5, ListIsRow
<1> QED
  BY <1>5, <1>7, <1>8, <1>9 DEF IsJoin

LEMMA RowType ==
    ASSUME NEW n \in Nat, NEW row, IsRow(row, n), NEW A, \A j \in 1..n : row[j] \in A
    PROVE  row \in Seq(A)
<1>1. row \in [1..n -> A]
  BY DEF IsRow
<1> QED
  BY <1>1, IsASeq

\* The list r is the part of s at the positions in S.
IsPart(r, s, S) ==
    /\ Cardinality(S) \in Nat /\ IsRow(r, Cardinality(S)) /\ Len(r) = Cardinality(S)
    /\ \A k \in 1..Cardinality(S) : /\ Positions(S)[k] \in S /\ Rank(S, Positions(S)[k]) = k
                                    /\ r[k] = s[Positions(S)[k]]
    /\ \A i \in S : /\ Rank(S, i) \in 1..Cardinality(S) /\ Positions(S)[Rank(S, i)] = i
                    /\ r[Rank(S, i)] = s[i]

LEMMA SelectedIs ==
    ASSUME NEW n \in Nat, NEW S, S \subseteq 1..n, NEW s
    PROVE  IsPart(Selected(s, S), s, S)
<1>1. /\ Cardinality(S) \in Nat
      /\ \A k \in 1..Cardinality(S) : Positions(S)[k] \in S /\ Rank(S, Positions(S)[k]) = k
      /\ \A i \in S : Rank(S, i) \in 1..Cardinality(S) /\ Positions(S)[Rank(S, i)] = i
  BY PositionsListed
<1>2. Selected(s, S) = [k \in 1..Cardinality(S) |-> s[Positions(S)[k]]]
  BY DEF Selected
<1>3. IsRow(Selected(s, S), Cardinality(S))
  BY <1>2 DEF IsRow
<1>4. Len(Selected(s, S)) = Cardinality(S)
  BY <1>1, <1>3, RowLength
<1> QED
  BY <1>1, <1>2, <1>3, <1>4 DEF IsPart

-------------------------------------------------------------------------------
\* Folding a list from the left goes through sets of its positions, and leaves out
\* the last one each time.

\* A set of positions that is not empty has a last one.
LEMMA LastPosition ==
    ASSUME NEW n \in Nat, NEW S, S \subseteq 1..n, S # {}
    PROVE  \E i \in S : \A k \in S : k <= i
<1> DEFINE m == Cardinality(S)
           at == Positions(S)
<1>1. /\ m \in Nat /\ at \in [1..m -> S]
      /\ \A i \in S : Rank(S, i) \in 1..m /\ at[Rank(S, i)] = i
      /\ \A j, k \in 1..m : j < k => at[j] < at[k]
  BY PositionsListed
<1>2. m \in 1..m
  <2> HIDE DEF m
  <2>1. PICK i \in S : TRUE
    OBVIOUS
  <2> QED
    BY <1>1, <2>1
<1> HIDE DEF m, at
<1>3. at[m] \in S
  BY <1>1, <1>2
<1>4. ASSUME NEW k \in S
      PROVE  k <= at[m]
  <2>1. Rank(S, k) \in 1..m /\ at[Rank(S, k)] = k
    BY <1>1
  <2>2. CASE Rank(S, k) < m
    <3>1. k < at[m]
      BY <1>1, <1>2, <2>1, <2>2
    <3>2. k \in 1..n /\ at[m] \in 1..n
      BY <1>3
    <3> QED
      BY <3>1, <3>2
  <2>3. CASE ~(Rank(S, k) < m)
    <3>1. Rank(S, k) = m
      BY <1>1, <2>1, <2>3
    <3>2. k = at[m] /\ k \in Nat
      BY <2>1, <3>1
    <3> QED
      BY <3>2
  <2> QED
    BY <2>2, <2>3
<1> QED
  BY <1>3, <1>4

LEMMA MaxPosition ==
    ASSUME NEW n \in Nat, NEW S, S \subseteq 1..n, S # {}
    PROVE  Max(S) \in S /\ \A k \in S : k <= Max(S)
<1>1. PICK i \in S : \A k \in S : k <= i
  BY LastPosition
<1>2. \E j \in S : \A k \in S : j >= k
  BY <1>1
<1> QED
  BY <1>2 DEF Max

Before(s) == s \ {Max(s)}

\* The sets of at most m of the positions in S.
UpTo(S, m) == {s \in SUBSET S : Cardinality(s) <= m}

LEMMA BeforeIs ==
    ASSUME NEW n \in Nat, NEW s, s \subseteq 1..n
    PROVE  /\ Cardinality(s) \in Nat /\ Cardinality(s) <= Cardinality(1..n)
           /\ Cardinality(s) = 0 <=> s = {}
           /\ s # {} => /\ Max(s) \in 1..n /\ Before(s) \subseteq 1..n
                        /\ Cardinality(Before(s)) = Cardinality(s) - 1
<1>1. IsFiniteSet(s) /\ IsFiniteSet(1..n) /\ Cardinality(s) \in Nat
  BY RankType
<1>2. Cardinality(s) <= Cardinality(1..n)
  BY <1>1, FS_Subset
<1>3. Cardinality(s) = 0 <=> s = {}
  BY <1>1, FS_EmptySet
<1>4. ASSUME s # {}
      PROVE  Max(s) \in 1..n /\ Before(s) \subseteq 1..n /\ Cardinality(Before(s)) = Cardinality(s) - 1
  <2>1. Max(s) \in s
    BY <1>4, MaxPosition
  <2>2. Cardinality(s \ {Max(s)}) = Cardinality(s) - 1
    BY <1>1, <2>1, FS_RemoveElement
  <2> QED
    BY <2>1, <2>2 DEF Before
<1> QED
  BY <1>1, <1>2, <1>3, <1>4

LEMMA UpToIs ==
    ASSUME NEW n \in Nat, NEW m \in Nat, NEW s \in UpTo(1..n, m)
    PROVE  /\ s \in UpTo(1..n, m + 1)
           /\ m = 0 => s = {}
           /\ s # {} => /\ Max(s) \in 1..n
                        /\ \A k \in Nat : m = k + 1 => Before(s) \in UpTo(1..n, k)
<1>1. s \subseteq 1..n /\ Cardinality(s) <= m
  BY DEF UpTo
<1>2. /\ Cardinality(s) \in Nat
      /\ Cardinality(s) = 0 <=> s = {}
      /\ s # {} => /\ Max(s) \in 1..n /\ Before(s) \subseteq 1..n
                   /\ Cardinality(Before(s)) = Cardinality(s) - 1
  BY <1>1, BeforeIs
<1> QED
  BY <1>1, <1>2 DEF UpTo

LEMMA AllUpTo ==
    ASSUME NEW n \in Nat
    PROVE  /\ Cardinality(1..n) \in Nat
           /\ UpTo(1..n, Cardinality(1..n)) = SUBSET (1..n)
<1>1. ASSUME NEW s, s \subseteq 1..n
      PROVE  Cardinality(s) \in Nat /\ Cardinality(s) <= Cardinality(1..n)
  BY <1>1, BeforeIs
<1>2. Cardinality(1..n) \in Nat
  BY <1>1
<1>3. \A s : s \in UpTo(1..n, Cardinality(1..n)) <=> s \in SUBSET (1..n)
  <2> TAKE s
  <2>1. CASE s \subseteq 1..n
    BY <1>1, <2>1 DEF UpTo
  <2>2. CASE ~(s \subseteq 1..n)
    BY <2>2 DEF UpTo
  <2> QED
    BY <2>1, <2>2
<1> QED
  BY <1>2, <1>3
===============================================================================
