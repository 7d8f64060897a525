---------------------------- MODULE ProofLemmas ----------------------------
(* What the proofs share: the least number principle, which stands for        *)
(* induction, and facts about the operators of BufferOrder on lists of n      *)
(* different things.                                                          *)
EXTENDS BufferOrder, FiniteSetTheorems, WellFoundedInduction, TLAPS

\* A nonempty set of subsets of a finite set has a smallest.
LEMMA SmallestSubset ==
    ASSUME NEW S, IsFiniteSet(S), NEW F, F \subseteq SUBSET S, F # {}
    PROVE  \E x \in F : \A y \in F : y \subseteq x => y = x
<1>1. IsWellFoundedOn(StrictSubsetOrdering(S), FiniteSubsetsOf(S))
  BY FS_StrictSubsetOrderingWellFounded
<1>2. FiniteSubsetsOf(S) = SUBSET S
  BY FS_FiniteSubsetsOfFinite
<1>3. \E x \in F : \A y \in F : ~ (<<y, x>> \in StrictSubsetOrdering(S))
  BY <1>1, <1>2, WFMin
<1> QED
  BY <1>3 DEF StrictSubsetOrdering

\* A nonempty set of natural numbers has a least.
LEMMA LeastNatural ==
    ASSUME NEW T \in SUBSET Nat, T # {}
    PROVE  \E m \in T : \A k \in T : m <= k
<1>1. PICK n \in T : TRUE
  OBVIOUS
<1> DEFINE S == 0..n
           U == {0..m : m \in {k \in T : k <= n}}
<1>2. n \in Nat /\ IsFiniteSet(S)
  BY <1>1, FS_Interval
<1>3. U \subseteq SUBSET S /\ U # {}
  BY <1>1, <1>2
<1>4. \E x \in U : \A y \in U : y \subseteq x => y = x
  <2> HIDE DEF U, S
  <2> QED
    BY <1>2, <1>3, SmallestSubset
<1>5. PICK m \in T : m <= n /\ \A y \in U : y \subseteq 0..m => y = 0..m
  BY <1>4
<1>6. \A k \in T : m <= k
  <2> SUFFICES ASSUME NEW k \in T, k < m PROVE FALSE
    BY <1>5
  <2>1. 0..k \in U /\ 0..k \subseteq 0..m /\ 0..k # 0..m
    BY <1>5
  <2> QED
    BY <1>5, <2>1
<1> QED
  BY <1>6

-----------------------------------------------------------------------------
\* ch lists all of B in n places.
Lists(ch, n, B) == ch \in [1..n -> B] /\ \A b \in B : \E i \in 1..n : ch[i] = b

\* The place of b is where b is.
LEMMA PlaceOf ==
  ASSUME NEW n \in Nat \ {0}, NEW B, NEW ch, Lists(ch, n, B), NEW b \in B
  PROVE  Place(ch, b) \in 1..n /\ ch[Place(ch, b)] = b
<1>1. \E i \in DOMAIN ch : ch[i] = b
  BY DEF Lists
<1> QED
  BY <1>1 DEF Place, Lists

\* BF_END loses no buffer.
LEMMA MoveToEndLists ==
  ASSUME NEW n \in Nat \ {0}, NEW B, NEW ch, Lists(ch, n, B), NEW b \in B
  PROVE  Lists(MoveToEnd(ch, b), n, B)
<1> DEFINE p == Place(ch, b)
           m == MoveToEnd(ch, b)
<1>1. p \in 1..n /\ ch[p] = b /\ ch \in [1..n -> B] /\ n \in Nat
  BY PlaceOf DEF Lists
<1> HIDE DEF p
<1>2. m = [i \in 1..n |-> IF i < p THEN ch[i] ELSE IF i + 1 \in 1..n THEN ch[i + 1] ELSE b]
  BY <1>1 DEF MoveToEnd, p
<1> HIDE DEF m
<1>3. m \in [1..n -> B]
  BY <1>1, <1>2
<1>4. ASSUME NEW c \in B PROVE \E i \in 1..n : m[i] = c
  <2>1. PICK j \in 1..n : ch[j] = c
    BY DEF Lists
  <2>2. CASE j < p
    BY <1>2, <2>1, <2>2
  <2>3. CASE j > p
    <3>1. j - 1 \in 1..n /\ ~(j - 1 < p) /\ (j - 1) + 1 = j
      BY <1>1, <2>3
    <3> QED
      BY <1>2, <2>1, <3>1
  <2>4. CASE j = p
    <3>1. n \in 1..n /\ ~(n < p) /\ n + 1 \notin 1..n
      BY <1>1
    <3>2. m[n] = b
      BY <1>2, <3>1
    <3> QED
      BY <1>1, <2>1, <2>4, <3>1, <3>2
  <2> QED
    BY <1>1, <2>2, <2>3, <2>4
<1> QED
  BY <1>3, <1>4 DEF Lists, m

\* BF_START loses no buffer.
LEMMA MoveToStartLists ==
  ASSUME NEW n \in Nat \ {0}, NEW B, NEW ch, Lists(ch, n, B), NEW b \in B
  PROVE  Lists(MoveToStart(ch, b), n, B)
<1> DEFINE p == Place(ch, b)
           m == MoveToStart(ch, b)
<1>1. p \in 1..n /\ ch[p] = b /\ ch \in [1..n -> B] /\ n \in Nat
  BY PlaceOf DEF Lists
<1> HIDE DEF p
<1>2. m = [i \in 1..n |-> IF i = 1 THEN b ELSE IF i <= p THEN ch[i - 1] ELSE ch[i]]
  BY <1>1 DEF MoveToStart, p
<1> HIDE DEF m
<1>3. m \in [1..n -> B]
  BY <1>1, <1>2
<1>4. ASSUME NEW c \in B PROVE \E i \in 1..n : m[i] = c
  <2>1. PICK j \in 1..n : ch[j] = c
    BY DEF Lists
  <2>2. CASE j > p
    BY <1>1, <1>2, <2>1, <2>2
  <2>3. CASE j < p
    <3>1. j + 1 \in 1..n /\ j + 1 # 1 /\ j + 1 <= p /\ (j + 1) - 1 = j
      BY <1>1, <2>3
    <3> QED
      BY <1>2, <2>1, <3>1
  <2>4. CASE j = p
    <3>1. 1 \in 1..n
      BY <1>1
    <3> QED
      BY <1>1, <1>2, <2>1, <2>4, <3>1
  <2> QED
    BY <1>1, <2>2, <2>3, <2>4
<1> QED
  BY <1>3, <1>4 DEF Lists, m

\* The new places are as many as the old ones: no two buffers get the same.
LEMMA NewPlaces ==
  ASSUME NEW n \in Nat \ {0}, NEW B, NEW ch, ch \in [1..n -> B], NEW S
  PROVE  /\ \A j \in 1..n : NewPlace(ch, S, j) \in 1..n
         /\ \A j, k \in 1..n : NewPlace(ch, S, j) = NewPlace(ch, S, k) => j = k
<1> DEFINE Till(j) == {i \in 1..n : NotAfter(ch, S, i, j)}
<1>1. IsFiniteSet(1..n) /\ Cardinality(1..n) = n
  BY FS_Interval
<1>2. \A j \in 1..n : NewPlace(ch, S, j) = Cardinality(Till(j)) /\ j \in Till(j)
  BY DEF NewPlace, NotAfter
<1>3. ASSUME NEW j \in 1..n
      PROVE  IsFiniteSet(Till(j)) /\ Cardinality(Till(j)) \in 1..n
  <2>1. Till(j) \in SUBSET (1..n)
    OBVIOUS
  <2> HIDE DEF Till
  <2>2. IsFiniteSet(Till(j)) /\ Cardinality(Till(j)) <= n
    <3>1. IsFiniteSet(Till(j)) /\ Cardinality(Till(j)) <= Cardinality(1..n)
      BY <1>1, <2>1, FS_Subset, Zenon
    <3> QED
      BY <1>1, <3>1
  <2>3. Cardinality(Till(j)) \in Nat /\ Cardinality(Till(j)) # 0
    BY <1>2, <2>2, FS_CardinalityType, FS_EmptySet
  <2> QED
    BY <2>2, <2>3
<1>4. ASSUME NEW j \in 1..n, NEW k \in 1..n, j # k
      PROVE  \/ Till(j) \subseteq Till(k) /\ k \notin Till(j)
             \/ Till(k) \subseteq Till(j) /\ j \notin Till(k)
  <2>1. \/ NotAfter(ch, S, j, k) /\ ~NotAfter(ch, S, k, j)
        \/ NotAfter(ch, S, k, j) /\ ~NotAfter(ch, S, j, k)
    BY <1>4 DEF NotAfter
  <2>2. \A a, b, c \in 1..n : NotAfter(ch, S, a, b) /\ NotAfter(ch, S, b, c) => NotAfter(ch, S, a, c)
    BY DEF NotAfter
  <2> QED
    BY <2>1, <2>2
<1>5. ASSUME NEW j \in 1..n, NEW k \in 1..n, Till(j) \subseteq Till(k), k \notin Till(j)
      PROVE  Cardinality(Till(j)) # Cardinality(Till(k))
  <2>1. Till(j) \in SUBSET Till(k) /\ Till(j) # Till(k)
    BY <1>2, <1>5
  <2> QED
    BY <1>3, <2>1, FS_Subset
<1> HIDE DEF Till
<1>6. \A j, k \in 1..n : NewPlace(ch, S, j) = NewPlace(ch, S, k) => j = k
  BY <1>2, <1>4, <1>5
<1> QED
  BY <1>2, <1>3, <1>6

PlaceTaken(ch, S, k) == \E j \in DOMAIN ch : NewPlace(ch, S, j) = k

\* Every place is filled.
LEMMA AllPlaces ==
  ASSUME NEW n \in Nat \ {0}, NEW B, NEW ch, ch \in [1..n -> B], NEW S, NEW k \in 1..n
  PROVE  PlaceTaken(ch, S, k)
<1> DEFINE f == [j \in 1..n |-> NewPlace(ch, S, j)]
<1>1. /\ \A j \in 1..n : NewPlace(ch, S, j) \in 1..n
      /\ \A i, j \in 1..n : NewPlace(ch, S, i) = NewPlace(ch, S, j) => i = j
  BY NewPlaces
<1>2. f \in Injection(1..n, 1..n)
  BY <1>1 DEF Injection, IsInjective
<1>3. IsFiniteSet(1..n)
  BY FS_Interval
<1>4. f \in Surjection(1..n, 1..n)
  BY <1>2, <1>3, FS_Injection
<1> QED
  BY <1>4 DEF Surjection, PlaceTaken

\* Freeing the buffers of a unit loses none.
LEMMA AllToStartLists ==
  ASSUME NEW n \in Nat \ {0}, NEW B, NEW ch, Lists(ch, n, B), NEW S
  PROVE  Lists(AllToStart(ch, S), n, B)
<1> DEFINE m == AllToStart(ch, S)
<1>1. ch \in [1..n -> B]
  BY DEF Lists
<1>2. /\ \A j \in 1..n : NewPlace(ch, S, j) \in 1..n
      /\ \A j, k \in 1..n : NewPlace(ch, S, j) = NewPlace(ch, S, k) => j = k
  BY <1>1, NewPlaces
<1>6. \A k \in 1..n : \E j \in 1..n : NewPlace(ch, S, j) = k
  <2>1. \A k \in 1..n : PlaceTaken(ch, S, k)
    BY <1>1, AllPlaces
  <2> QED
    BY <1>1, <2>1 DEF PlaceTaken
<1>7. m = [k \in 1..n |-> ch[CHOOSE j \in 1..n : NewPlace(ch, S, j) = k]]
  BY <1>1 DEF AllToStart
<1> HIDE DEF m
<1>8. m \in [1..n -> B]
  BY <1>1, <1>6, <1>7
<1>9. ASSUME NEW c \in B PROVE \E k \in 1..n : m[k] = c
  <2>1. PICK j \in 1..n : ch[j] = c
    BY DEF Lists
  <2>2. (CHOOSE i \in 1..n : NewPlace(ch, S, i) = NewPlace(ch, S, j)) = j
    BY <1>2
  <2>3. m[NewPlace(ch, S, j)] = c
    BY <1>2, <1>7, <2>1, <2>2
  <2> QED
    BY <1>2, <2>3
<1> QED
  BY <1>8, <1>9 DEF Lists, m

\* As many places as things: everything is listed once.
LEMMA ListsOnce ==
  ASSUME NEW n \in Nat \ {0}, NEW B, IsFiniteSet(B), n = Cardinality(B), NEW ch, Lists(ch, n, B)
  PROVE  \A i, j \in 1..n : ch[i] = ch[j] => i = j
<1>1. IsFiniteSet(1..n) /\ Cardinality(1..n) = n
  BY FS_Interval
<1>2. ch \in Surjection(1..n, B)
  BY DEF Lists, Surjection
<1>3. ch \in Injection(1..n, B)
  BY <1>1, <1>2, FS_SurjSameCardinalityImpliesInj
<1> QED
  BY <1>3 DEF Injection, IsInjective

\* With nothing to put first the order stays.
LEMMA AllToStartNone ==
  ASSUME NEW n \in Nat \ {0}, NEW B, NEW ch, ch \in [1..n -> B]
  PROVE  AllToStart(ch, {}) = ch
<1>1. ASSUME NEW j \in 1..n PROVE NewPlace(ch, {}, j) = j
  <2>1. {i \in DOMAIN ch : NotAfter(ch, {}, i, j)} = 1..j
    BY DEF NotAfter
  <2>2. Cardinality(1..j) = j
    BY FS_Interval
  <2> QED
    BY <2>1, <2>2 DEF NewPlace
<1>2. ASSUME NEW k \in 1..n PROVE (CHOOSE j \in 1..n : NewPlace(ch, {}, j) = k) = k
  BY <1>1
<1> QED
  BY <1>2 DEF AllToStart

\* Where position j goes when q comes first.
Shifted(q, j) == IF j < q THEN j + 1 ELSE IF j = q THEN 1 ELSE j

\* Place q has the first of S, and everything is in one place only.
FirstOf(ch, n, S, q) == /\ ch[q] \in S /\ \A i \in 1..n : ch[i] \in S => q <= i
                        /\ \A i, j \in 1..n : ch[i] = ch[j] => i = j

\* Putting the first of S first and then the rest of S is putting S first.
LEMMA AllToStartFirst ==
  ASSUME NEW n \in Nat \ {0}, NEW B, NEW ch, Lists(ch, n, B),
         NEW S, NEW q \in 1..n, FirstOf(ch, n, S, q)
  PROVE  AllToStart(MoveToStart(ch, ch[q]), S \ {ch[q]}) = AllToStart(ch, S)
<1> DEFINE b == ch[q]
           T == S \ {b}
           d == MoveToStart(ch, b)
<1>0. /\ ch[q] \in S /\ \A i \in 1..n : ch[i] \in S => q <= i
      /\ \A i, j \in 1..n : ch[i] = ch[j] => i = j
      /\ ch \in [1..n -> B]
  BY DEF FirstOf, Lists
<1>1. Place(ch, b) = q
  BY <1>0 DEF Place
<1>2. d = [i \in 1..n |-> IF i = 1 THEN b ELSE IF i <= q THEN ch[i - 1] ELSE ch[i]]
  BY <1>0, <1>1 DEF MoveToStart
<1> HIDE DEF d
<1>3. d \in [1..n -> B]
  BY <1>0, <1>2
<1>4. \A j \in 1..n : Shifted(q, j) \in 1..n /\ d[Shifted(q, j)] = ch[j]
  BY <1>0, <1>2 DEF Shifted
<1>5. ASSUME NEW i \in 1..n, NEW j \in 1..n
      PROVE  NotAfter(d, T, Shifted(q, i), Shifted(q, j)) <=> NotAfter(ch, S, i, j)
  <2>1. ch[i] \in T <=> ch[i] \in S /\ i # q
    BY <1>0
  <2>2. ch[j] \in T <=> ch[j] \in S /\ j # q
    BY <1>0
  <2>3. (ch[i] \in S => q <= i) /\ (ch[j] \in S => q <= j)
    BY <1>0
  <2>4. NotAfter(d, T, Shifted(q, i), Shifted(q, j))
          <=> IF ch[i] \in T THEN ch[j] \in T => Shifted(q, i) >= Shifted(q, j)
                             ELSE ch[j] \notin T /\ Shifted(q, i) <= Shifted(q, j)
    BY <1>4 DEF NotAfter
  <2> HIDE DEF T
  <2>5. CASE i = q
    BY <1>0, <2>1, <2>2, <2>3, <2>4, <2>5 DEF NotAfter, Shifted
  <2>6. CASE i # q /\ ch[i] \in S
    BY <1>0, <2>1, <2>2, <2>3, <2>4, <2>6 DEF NotAfter, Shifted
  <2>7. CASE i # q /\ ch[i] \notin S
    BY <1>0, <2>1, <2>2, <2>3, <2>4, <2>7 DEF NotAfter, Shifted
  <2> QED
    BY <2>5, <2>6, <2>7
<1>6. \A i \in 1..n : \E j \in 1..n : Shifted(q, j) = i
  <2> TAKE i \in 1..n
  <2>1. CASE i = 1
    BY <2>1 DEF Shifted
  <2>2. CASE i # 1 /\ i <= q
    <3>1. i - 1 \in 1..n /\ Shifted(q, i - 1) = i
      BY <2>2 DEF Shifted
    <3> QED
      BY <3>1
  <2>3. CASE i > q
    <3>1. Shifted(q, i) = i
      BY <2>3 DEF Shifted
    <3> QED
      BY <3>1
  <2> QED
    BY <2>1, <2>2, <2>3
<1>7. \A i, j \in 1..n : Shifted(q, i) = Shifted(q, j) => i = j
  BY DEF Shifted
<1>8. ASSUME NEW j \in 1..n PROVE NewPlace(d, T, Shifted(q, j)) = NewPlace(ch, S, j)
  <2> DEFINE X == {i \in 1..n : NotAfter(ch, S, i, j)}
             Y == {i \in 1..n : NotAfter(d, T, i, Shifted(q, j))}
             f == [i \in X |-> Shifted(q, i)]
  <2>1. NewPlace(ch, S, j) = Cardinality(X) /\ NewPlace(d, T, Shifted(q, j)) = Cardinality(Y)
    BY <1>0, <1>3 DEF NewPlace
  <2>2. f \in [X -> Y] /\ \A i, k \in X : f[i] = f[k] => i = k
    BY <1>4, <1>5, <1>7
  <2>3. \A i \in Y : \E k \in X : f[k] = i
    BY <1>5, <1>6
  <2>4. f \in Bijection(X, Y)
    <3> HIDE DEF X, Y, f
    <3> QED
      BY <2>2, <2>3 DEF Bijection, Injection, Surjection, IsInjective
  <2>5. IsFiniteSet(X)
    <3>1. IsFiniteSet(1..n) /\ X \subseteq 1..n
      BY FS_Interval
    <3> HIDE DEF X
    <3> QED
      BY <3>1, FS_Subset
  <2> HIDE DEF X, Y, f
  <2> QED
    <3>1. ExistsBijection(X, Y)
      BY <2>4 DEF ExistsBijection
    <3>2. Cardinality(Y) = Cardinality(X)
      BY <2>5, <3>1, FS_Bijection
    <3> QED
      BY <2>1, <3>2
<1>9. ASSUME NEW k \in 1..n PROVE AllToStart(d, T)[k] = AllToStart(ch, S)[k]
  <2>1. PICK j \in 1..n : NewPlace(ch, S, j) = k
    <3>1. PlaceTaken(ch, S, k)
      BY <1>0, AllPlaces
    <3> QED
      BY <1>0, <3>1 DEF PlaceTaken
  <2>2. (CHOOSE i \in 1..n : NewPlace(ch, S, i) = k) = j
    BY <1>0, <2>1, NewPlaces
  <2>3. Shifted(q, j) \in 1..n /\ NewPlace(d, T, Shifted(q, j)) = k
    BY <1>4, <1>8, <2>1
  <2>4. \A i, l \in 1..n : NewPlace(d, T, i) = NewPlace(d, T, l) => i = l
    <3> HIDE DEF T
    <3> QED
      BY <1>3, NewPlaces
  <2>5. (CHOOSE i \in 1..n : NewPlace(d, T, i) = k) = Shifted(q, j)
    BY <2>3, <2>4
  <2>6. AllToStart(ch, S)[k] = ch[CHOOSE i \in 1..n : NewPlace(ch, S, i) = k]
    BY <1>0 DEF AllToStart
  <2>7. AllToStart(d, T)[k] = d[CHOOSE i \in 1..n : NewPlace(d, T, i) = k]
    <3>1. DOMAIN d = 1..n
      BY <1>3
    <3> HIDE DEF T
    <3> QED
      BY <3>1 DEF AllToStart
  <2> QED
    BY <1>4, <2>2, <2>5, <2>6, <2>7
<1> QED
  <2>1. AllToStart(d, T) = [k \in 1..n |-> AllToStart(d, T)[k]]
    BY <1>3 DEF AllToStart
  <2>2. AllToStart(ch, S) = [k \in 1..n |-> AllToStart(ch, S)[k]]
    BY <1>0 DEF AllToStart
  <2> QED
    BY <1>9, <2>1, <2>2 DEF d
=============================================================================
