---------------------------- MODULE OrderingProofs ----------------------------
(***************************************************************************)
(* What the operators of Ordering.tla return, for the proofs that use them.*)
(***************************************************************************)
EXTENDS Ordering, FiniteSetTheorems, FunctionTheorems, SequenceTheorems,
        WellFoundedInduction, TLAPS

-----------------------------------------------------------------------------
(* Cutting a sequence to a set of its places.                              *)

Below(S, n) == {j \in S : j < n}

LEMMA UpTo ==
    ASSUME NEW n \in Nat
    PROVE  IsFiniteSet(1..n) /\ Cardinality(1..n) = n
BY FS_Interval

LEMMA BelowFinite ==
    ASSUME NEW m \in Nat, NEW S \in SUBSET (1..m)
    PROVE  /\ IsFiniteSet(S) /\ Cardinality(S) \in Nat
           /\ \A n : IsFiniteSet(Below(S, n)) /\ Cardinality(Below(S, n)) \in Nat
<1>1. IsFiniteSet(1..m) BY FS_Interval
<1>2. IsFiniteSet(S) BY <1>1, FS_Subset
<1>3. \A n : Below(S, n) \in SUBSET S BY DEF Below
<1> QED BY <1>2, <1>3, FS_Subset, FS_CardinalityType

\* Every non-empty set of numbers has a least one.
LEMMA Least ==
    ASSUME NEW T \in SUBSET Nat, T # {}
    PROVE  \E x \in T : \A y \in T : x <= y
<1>1. IsWellFoundedOn(OpToRel(<, Nat), Nat) BY NatLessThanWellFounded
<1>2. PICK x \in T : \A y \in T : ~(<<y, x>> \in OpToRel(<, Nat)) BY <1>1, WFMin
<1>3. \A y \in T : ~(y < x) BY <1>2 DEF OpToRel
<1> QED BY <1>3

LEMMA Greatest ==
    ASSUME NEW m \in Nat, NEW T \in SUBSET (0..m), T # {}
    PROVE  \E x \in T : \A y \in T : y <= x
<1> DEFINE below == {m - y : y \in T}
<1>0. \A y \in T : m - y \in Nat OBVIOUS
<1>1. below \in SUBSET Nat /\ below # {} BY <1>0
<1>2. PICK n \in below : \A k \in below : n <= k BY <1>1, Least
<1>3. PICK x \in T : n = m - x OBVIOUS
<1>4. \A y \in T : m - x <= m - y BY <1>2, <1>3
<1> QED BY <1>4

\* A set of numbers has a k-th smallest one for each k up to its size.
LEMMA PlaceExists ==
    ASSUME NEW m \in Nat, NEW S \in SUBSET (1..m), NEW k \in 1..Cardinality(S)
    PROVE  Place(S, k) \in S /\ Cardinality(Below(S, Place(S, k))) = k - 1
<1>0. \A j \in S : j \in Nat /\ 0 < j /\ j < m + 1 OBVIOUS
<1> DEFINE T == {n \in Nat : Cardinality(Below(S, n)) >= k}
<1>1. m + 1 \in T
  <2>1. Below(S, m + 1) = S BY <1>0 DEF Below
  <2> QED BY <2>1, BelowFinite
<1>2. PICK n \in T : \A y \in T : n <= y BY <1>1, Least
<1>3. n # 0
  <2>1. \A j \in S : ~(j < 0) BY <1>0
  <2>2. Below(S, 0) = {} BY <2>1 DEF Below
  <2> QED BY <2>2, FS_EmptySet
<1>4. PICK i \in Nat : n = i + 1 BY <1>2, <1>3
<1>5. i \notin T BY <1>2, <1>4
<1>6. Cardinality(Below(S, i)) < k
  <2>1. Cardinality(Below(S, i)) \in Nat BY BelowFinite
  <2> QED BY <1>4, <1>5, <2>1
<1>7. \A j \in S : j < n <=> j < i \/ j = i BY <1>0, <1>4
<1>8. i \in S
  <2> SUFFICES ASSUME i \notin S PROVE FALSE OBVIOUS
  <2>1. Below(S, n) = Below(S, i) BY <1>7 DEF Below
  <2>2. Cardinality(Below(S, n)) >= k BY <1>2
  <2>3. Cardinality(Below(S, i)) \in Nat BY BelowFinite
  <2> QED BY <1>6, <2>1, <2>2, <2>3
<1>9. Cardinality(Below(S, n)) = Cardinality(Below(S, i)) + 1
  <2>1. Below(S, n) = Below(S, i) \cup {i} BY <1>7, <1>8 DEF Below
  <2>2. i \notin Below(S, i) BY DEF Below
  <2> QED BY <2>1, <2>2, BelowFinite, FS_AddElement
<1>10. Cardinality(Below(S, i)) = k - 1
  <2>1. Cardinality(Below(S, i)) \in Nat BY BelowFinite
  <2>2. Cardinality(Below(S, n)) >= k BY <1>2
  <2> QED BY <1>6, <1>9, <2>1, <2>2
<1>11. \E x \in S : Cardinality({j \in S : j < x}) = k - 1 BY <1>8, <1>10 DEF Below
<1>12. Place(S, k) \in S /\ Cardinality({j \in S : j < Place(S, k)}) = k - 1
  BY <1>11 DEF Place
<1> QED BY <1>12 DEF Below

\* A cut sequence is a sequence of the same elements.
LEMMA CutType ==
    ASSUME NEW E, NEW seq \in Seq(E), NEW S \in SUBSET (DOMAIN seq)
    PROVE  /\ Cut(seq, S) \in Seq(E)
           /\ Len(Cut(seq, S)) = Cardinality(S)
           /\ \A k \in 1..Cardinality(S) : Place(S, k) \in S /\ Cut(seq, S)[k] = seq[Place(S, k)]
<1>1. Len(seq) \in Nat /\ DOMAIN seq = 1..Len(seq) OBVIOUS
<1>2. Cardinality(S) \in Nat BY <1>1, BelowFinite
<1>3. \A k \in 1..Cardinality(S) : Place(S, k) \in S BY <1>1, PlaceExists
<1>4. \A k \in 1..Cardinality(S) : seq[Place(S, k)] \in E BY <1>1, <1>3
<1> QED BY <1>2, <1>3, <1>4 DEF Cut

\* Cut to all its places, a sequence stays what it is.
LEMMA CutWhole ==
    ASSUME NEW E, NEW seq \in Seq(E), NEW S \in SUBSET (DOMAIN seq), Cardinality(S) = Len(seq)
    PROVE  S = DOMAIN seq /\ Cut(seq, S) = seq
<1>1. Len(seq) \in Nat /\ DOMAIN seq = 1..Len(seq) OBVIOUS
<1>2. IsFiniteSet(1..Len(seq)) /\ Cardinality(1..Len(seq)) = Len(seq) BY <1>1, UpTo
<1>3. S = 1..Len(seq) BY <1>1, <1>2, FS_Subset
<1>4. ASSUME NEW k \in 1..Len(seq) PROVE Place(S, k) = k
  <2>1. Place(S, k) \in S /\ Cardinality(Below(S, Place(S, k))) = k - 1
    BY <1>1, PlaceExists
  <2>2. Below(S, Place(S, k)) = 1..(Place(S, k) - 1) BY <1>1, <1>3, <2>1 DEF Below
  <2>3. Cardinality(1..(Place(S, k) - 1)) = Place(S, k) - 1
    <3>1. Place(S, k) - 1 \in Nat BY <1>1, <1>3, <2>1
    <3> QED BY <3>1, UpTo
  <2> QED BY <1>1, <1>3, <2>1, <2>2, <2>3
<1>5. Cut(seq, S) = [k \in 1..Len(seq) |-> seq[k]] BY <1>4 DEF Cut
<1> QED BY <1>1, <1>3, <1>5

\* The places of a cut rise, and each place of S is taken.
LEMMA CutPlaces ==
    ASSUME NEW m \in Nat, NEW S \in SUBSET (1..m)
    PROVE  /\ \A j, k \in 1..Cardinality(S) : j < k <=> Place(S, j) < Place(S, k)
           /\ \A i \in S : \E k \in 1..Cardinality(S) : Place(S, k) = i
<1>1. IsFiniteSet(S) /\ Cardinality(S) \in Nat BY BelowFinite
<1>0. \A i \in S : i \in Int /\ IsFiniteSet(Below(S, i)) /\ Cardinality(Below(S, i)) \in Nat
  <2>1. \A i \in S : i \in Int OBVIOUS
  <2> QED BY <2>1, BelowFinite
<1>2. \A k \in 1..Cardinality(S) : Place(S, k) \in S /\ Cardinality(Below(S, Place(S, k))) = k - 1
  BY PlaceExists
<1>3. ASSUME NEW i \in S, NEW j \in S, i < j
      PROVE  Cardinality(Below(S, i)) < Cardinality(Below(S, j))
  <2>1. i \in Int /\ j \in Int /\ \A x \in S : x \in Int BY <1>0
  <2>2. Below(S, i) \cup {i} \in SUBSET Below(S, j)
    <3>1. \A x \in S : x < i => x < j BY <2>1, <1>3
    <3> QED BY <3>1, <1>3 DEF Below
  <2>3. i \notin Below(S, i) BY <2>1 DEF Below
  <2>4. Cardinality(Below(S, i) \cup {i}) = Cardinality(Below(S, i)) + 1
    BY <1>0, <2>3, FS_AddElement
  <2>5. Cardinality(Below(S, i) \cup {i}) <= Cardinality(Below(S, j))
    BY <1>0, <2>2, FS_Subset
  <2> QED BY <1>0, <2>4, <2>5
<1>4. ASSUME NEW j \in 1..Cardinality(S), NEW k \in 1..Cardinality(S)
      PROVE  j < k <=> Place(S, j) < Place(S, k)
  <2>1. /\ Place(S, j) \in S /\ Place(S, k) \in S
        /\ Cardinality(Below(S, Place(S, j))) = j - 1
        /\ Cardinality(Below(S, Place(S, k))) = k - 1
    BY <1>2
  <2>2. Place(S, j) \in Int /\ Place(S, k) \in Int BY <1>0, <2>1
  <2>3. Place(S, j) < Place(S, k) => j - 1 < k - 1 BY <1>3, <2>1
  <2>4. Place(S, k) < Place(S, j) => k - 1 < j - 1 BY <1>3, <2>1
  <2>5. Place(S, k) = Place(S, j) => k - 1 = j - 1 BY <2>1
  <2> QED BY <1>1, <2>2, <2>3, <2>4, <2>5
<1>5. ASSUME NEW i \in S PROVE \E k \in 1..Cardinality(S) : Place(S, k) = i
  <2> DEFINE k == Cardinality(Below(S, i)) + 1
  <2>1. k \in 1..Cardinality(S)
    <3>0. i \in Int BY <1>0
    <3>1. Below(S, i) \in SUBSET S /\ i \notin Below(S, i) BY <3>0 DEF Below
    <3>2. Cardinality(Below(S, i)) <= Cardinality(S) BY <1>1, <3>1, FS_Subset
    <3>3. Cardinality(Below(S, i)) # Cardinality(S) BY <1>1, <3>1, FS_Subset
    <3> QED BY <1>0, <1>1, <3>2, <3>3
  <2>2. Place(S, k) \in S /\ Cardinality(Below(S, Place(S, k))) = Cardinality(Below(S, i))
    BY <1>0, <1>2, <2>1
  <2> HIDE DEF k
  <2>3. Cardinality(Below(S, i)) \in Int /\ i \in Int /\ Place(S, k) \in Int
    <3>1. \A x \in S : x \in Int OBVIOUS
    <3>2. Place(S, k) \in S BY <2>2
    <3>3. Cardinality(Below(S, i)) \in Nat BY BelowFinite
    <3>4. Cardinality(Below(S, i)) \in Int BY <3>3
    <3>5. i \in Int BY <3>1
    <3>6. Place(S, k) \in Int BY <3>1, <3>2, Zenon
    <3> QED BY <3>4, <3>5, <3>6
  <2>4. ~(Place(S, k) < i)
    <3> SUFFICES ASSUME Place(S, k) < i PROVE FALSE OBVIOUS
    <3>1. Cardinality(Below(S, Place(S, k))) < Cardinality(Below(S, i)) BY <1>3, <2>2
    <3> QED BY <2>2, <2>3, <3>1
  <2>5. ~(i < Place(S, k))
    <3> SUFFICES ASSUME i < Place(S, k) PROVE FALSE OBVIOUS
    <3>1. Cardinality(Below(S, i)) < Cardinality(Below(S, Place(S, k))) BY <1>3, <2>2
    <3> QED BY <2>2, <2>3, <3>1
  <2> QED BY <2>1, <2>3, <2>4, <2>5
<1> QED BY <1>4, <1>5

\* The k-th place is the one with k - 1 below it.
LEMMA PlaceIs ==
    ASSUME NEW m \in Nat, NEW S \in SUBSET (1..m), NEW i \in S,
           NEW k \in Int, Cardinality(Below(S, i)) = k - 1
    PROVE  k \in 1..Cardinality(S) /\ Place(S, k) = i
<1>1. PICK j \in 1..Cardinality(S) : Place(S, j) = i BY CutPlaces
<1>2. Cardinality(Below(S, i)) = j - 1 BY <1>1, PlaceExists
<1>3. j = k BY <1>2
<1> QED BY <1>1, <1>3

\* One more place behind the others.
LEMMA PlaceBehind ==
    ASSUME NEW m \in Nat, NEW S \in SUBSET (1..m), NEW n \in Nat, n > m
    PROVE  /\ Cardinality(S \cup {n}) = Cardinality(S) + 1
           /\ \A k \in 1..Cardinality(S) : Place(S \cup {n}, k) = Place(S, k)
           /\ Place(S \cup {n}, Cardinality(S) + 1) = n
<1> DEFINE T == S \cup {n}
<1>1. T \in SUBSET (1..n) OBVIOUS
<1>2. \A i \in S : i \in Int /\ i < n OBVIOUS
<1>3. \A i \in S : Below(T, i) = Below(S, i)
  <2>1. \A i \in S : ~(n < i) BY <1>2
  <2> QED BY <2>1 DEF Below
<1>4. Below(T, n) = S
  <2>1. ~(n < n) OBVIOUS
  <2>2. \A i \in T : i < n <=> i \in S BY <1>2, <2>1
  <2> QED BY <2>2 DEF Below
<1>5. IsFiniteSet(S) /\ Cardinality(S) \in Nat BY BelowFinite
<1>6. n \notin S BY <1>2
<1>7. Cardinality(T) = Cardinality(S) + 1 BY <1>5, <1>6, FS_AddElement
<1>8. ASSUME NEW k \in 1..Cardinality(S) PROVE Place(T, k) = Place(S, k)
  <2>1. Place(S, k) \in S /\ Cardinality(Below(S, Place(S, k))) = k - 1 BY PlaceExists
  <2>2. Place(S, k) \in T /\ Cardinality(Below(T, Place(S, k))) = k - 1 BY <1>3, <2>1
  <2>3. k \in Int BY <1>5
  <2> HIDE DEF T
  <2> QED BY <1>1, <2>2, <2>3, PlaceIs
<1>9. Place(T, Cardinality(S) + 1) = n
  <2>1. n \in T /\ Cardinality(Below(T, n)) = (Cardinality(S) + 1) - 1 BY <1>4, <1>5
  <2>2. Cardinality(S) + 1 \in Int BY <1>5
  <2> HIDE DEF T
  <2> QED BY <1>1, <2>1, <2>2, PlaceIs
<1> QED BY <1>7, <1>8, <1>9

\* A cut with one more place, behind the others.
LEMMA CutBehind ==
    ASSUME NEW E, NEW seq \in Seq(E), NEW m \in Nat, NEW S \in SUBSET (1..m),
           NEW n \in DOMAIN seq, m < n
    PROVE  Cut(seq, S \cup {n}) = Append(Cut(seq, S), seq[n])
<1> DEFINE T == S \cup {n}
           k == Cardinality(S)
           less == Cut(seq, S)
           more == Cut(seq, T)
<1>1. Len(seq) \in Nat /\ DOMAIN seq = 1..Len(seq) /\ n \in Nat OBVIOUS
<1>2. S \in SUBSET (DOMAIN seq) /\ T \in SUBSET (DOMAIN seq)
  <2>1. \A i \in 1..m : i \in 1..Len(seq) BY <1>1
  <2> QED BY <1>1, <2>1, Zenon
<1>3. less \in Seq(E) /\ Len(less) = k /\ \A i \in 1..k : less[i] = seq[Place(S, i)]
  BY <1>2, CutType
<1>4. more \in Seq(E) /\ Len(more) = Cardinality(T)
      /\ \A i \in 1..Cardinality(T) : more[i] = seq[Place(T, i)]
  <2> HIDE DEF T
  <2> QED BY <1>2, CutType DEF more
<1>5. /\ Cardinality(T) = k + 1 /\ Place(T, k + 1) = n
      /\ \A i \in 1..k : Place(T, i) = Place(S, i)
  <2>1. n \in Nat /\ n > m BY <1>1
  <2>2. /\ Cardinality(S \cup {n}) = Cardinality(S) + 1
        /\ \A i \in 1..Cardinality(S) : Place(S \cup {n}, i) = Place(S, i)
        /\ Place(S \cup {n}, Cardinality(S) + 1) = n
    BY <2>1, PlaceBehind, ZenonT(30)
  <2> QED BY <2>2, ZenonT(30)
<1>6. k \in Nat BY <1>3
<1> HIDE DEF T, k, less, more
<1>7. Append(less, seq[n]) \in Seq(E) /\ Len(Append(less, seq[n])) = k + 1
  BY <1>3, <1>6
<1>8. \A i \in 1..(k + 1) : more[i] = Append(less, seq[n])[i]
  <2>1. \A i \in 1..k : more[i] = less[i] /\ Append(less, seq[n])[i] = less[i]
    BY <1>3, <1>4, <1>5, <1>6
  <2>2. more[k + 1] = seq[n] /\ Append(less, seq[n])[k + 1] = seq[n]
    BY <1>3, <1>4, <1>5, <1>6
  <2>3. \A i \in 1..(k + 1) : i \in 1..k \/ i = k + 1 BY <1>6
  <2> QED BY <2>1, <2>2, <2>3
<1>9. more = Append(less, seq[n])
  <2>1. more = [i \in 1..(k + 1) |-> more[i]] BY <1>4, <1>5
  <2> DEFINE last == Append(less, seq[n])
  <2> HIDE DEF last
  <2>2. last = [i \in 1..(k + 1) |-> last[i]]
    <3>1. last \in Seq(E) /\ Len(last) = k + 1 BY <1>7 DEF last
    <3> QED BY <3>1
  <2>3. \A i \in 1..(k + 1) : more[i] = last[i] BY <1>8 DEF last
  <2>4. more = last BY <2>1, <2>2, <2>3
  <2> QED BY <2>4 DEF last
<1> QED BY <1>9 DEF T, less, more

\* The places without the first.
LEMMA PlaceAhead ==
    ASSUME NEW m \in Nat, NEW S \in SUBSET (1..m), NEW e \in S, \A i \in S : e <= i
    PROVE  /\ Cardinality(S) = Cardinality(S \ {e}) + 1
           /\ Place(S, 1) = e
           /\ \A k \in 1..Cardinality(S \ {e}) : Place(S, k + 1) = Place(S \ {e}, k)
<1> DEFINE T == S \ {e}
<1>1. T \in SUBSET (1..m) /\ e \notin T OBVIOUS
<1>2. IsFiniteSet(T) /\ Cardinality(T) \in Nat BY <1>1, BelowFinite
<1>3. Cardinality(S) = Cardinality(T) + 1
  <2>1. S = T \cup {e} OBVIOUS
  <2> HIDE DEF T
  <2> QED BY <1>1, <1>2, <2>1, FS_AddElement
<1>4. Place(S, 1) = e
  <2>1. \A i \in S : ~(i < e) OBVIOUS
  <2>2. Below(S, e) = {} BY <2>1 DEF Below
  <2>3. Cardinality(Below(S, e)) = 1 - 1 BY <2>2, FS_EmptySet
  <2> QED BY <2>3, PlaceIs
<1>5. ASSUME NEW k \in 1..Cardinality(T) PROVE Place(S, k + 1) = Place(T, k)
  <2> DEFINE i == Place(T, k)
  <2>1. i \in T /\ Cardinality(Below(T, i)) = k - 1 BY <1>1, PlaceExists
  <2> HIDE DEF i
  <2>2. i \in S /\ i # e /\ i \in Int /\ e \in Int BY <2>1
  <2>3. e < i BY <2>2
  <2>4. Below(S, i) = Below(T, i) \cup {e} BY <2>3 DEF Below
  <2>5. e \notin Below(T, i) BY DEF Below
  <2>6. IsFiniteSet(Below(T, i)) BY <1>1, BelowFinite
  <2>7. Cardinality(Below(S, i)) = Cardinality(Below(T, i)) + 1
    <3> HIDE DEF T
    <3> QED BY <2>4, <2>5, <2>6, FS_AddElement
  <2>8. k \in Int /\ k + 1 \in Int BY <1>2
  <2>9. Cardinality(Below(S, i)) = (k + 1) - 1 BY <2>1, <2>7, <2>8
  <2>10. Place(S, k + 1) = i BY <2>2, <2>8, <2>9, PlaceIs
  <2> QED BY <2>10 DEF i
<1> QED BY <1>3, <1>4, <1>5

\* Numbers that rise with their index are as many as their indices.
LEMMA SameCount ==
    ASSUME NEW K, IsFiniteSet(K), NEW T, NEW f \in [K -> T],
           \A j, k \in K : f[j] = f[k] => j = k,
           \A i \in T : \E k \in K : f[k] = i
    PROVE  Cardinality(T) = Cardinality(K)
<1>1. f \in Bijection(K, T)
  <2>1. f \in Injection(K, T) BY DEF Injection, IsInjective
  <2>2. f \in Surjection(K, T) BY DEF Surjection
  <2> QED BY <2>1, <2>2 DEF Bijection
<1>2. ExistsBijection(K, T) BY <1>1 DEF ExistsBijection
<1> QED BY <1>2, FS_Bijection

\* The places of a part of S, among the places of S.
LEMMA PlaceWithin ==
    ASSUME NEW m \in Nat, NEW S \in SUBSET (1..m), NEW T \in SUBSET S
    PROVE  LET K == {k \in 1..Cardinality(S) : Place(S, k) \in T}
           IN  /\ Cardinality(K) = Cardinality(T)
               /\ \A j \in 1..Cardinality(T) : Place(K, j) \in K /\ Place(S, Place(K, j)) = Place(T, j)
<1> DEFINE n == Cardinality(S)
           K == {k \in 1..n : Place(S, k) \in T}
<1>1. n \in Nat /\ K \in SUBSET (1..n) /\ T \in SUBSET (1..m) BY BelowFinite
<1>2. \A j, k \in 1..n : j < k <=> Place(S, j) < Place(S, k) BY CutPlaces
<1>3. \A i \in T : \E k \in K : Place(S, k) = i BY CutPlaces
<1>4. \A k \in 1..n : Place(S, k) \in Int /\ k \in Int
  <2>1. \A k \in 1..n : Place(S, k) \in S BY PlaceExists
  <2>2. \A i \in S : i \in Int OBVIOUS
  <2>3. \A k \in 1..n : k \in Int BY <1>1
  <2> HIDE DEF n
  <2> QED BY <2>1, <2>2, <2>3
<1>5. \A j, k \in 1..n : Place(S, j) = Place(S, k) => j = k
  <2> SUFFICES ASSUME NEW j \in 1..n, NEW k \in 1..n, Place(S, j) = Place(S, k) PROVE j = k OBVIOUS
  <2>1. Place(S, j) \in Int /\ j \in Int /\ k \in Int BY <1>4
  <2>2. ~(j < k) /\ ~(k < j) BY <1>2, <2>1
  <2> QED BY <2>1, <2>2
<1>6. K \subseteq 1..n /\ \A k \in K : Place(S, k) \in T OBVIOUS
<1>7. IsFiniteSet(K) BY <1>1, BelowFinite
<1> HIDE DEF K, n
<1>8. Cardinality(T) = Cardinality(K)
  <2> DEFINE f == [k \in K |-> Place(S, k)]
  <2>1. f \in [K -> T] BY <1>6
  <2>2. \A j, k \in K : f[j] = f[k] => j = k BY <1>5, <1>6
  <2>3. \A i \in T : \E k \in K : f[k] = i BY <1>3
  <2> HIDE DEF f
  <2> QED BY <1>7, <2>1, <2>2, <2>3, SameCount
<1>9. ASSUME NEW k \in K PROVE Cardinality(Below(T, Place(S, k))) = Cardinality(Below(K, k))
  <2> DEFINE less == Below(K, k)
             low == Below(T, Place(S, k))
             f == [j \in less |-> Place(S, j)]
  <2>1. \A j \in K : j < k <=> Place(S, j) < Place(S, k) BY <1>2, <1>6
  <2>2. f \in [less -> low] BY <1>6, <2>1 DEF Below
  <2>3. \A i, j \in less : f[i] = f[j] => i = j BY <1>5, <1>6 DEF Below
  <2>4. \A i \in low : \E j \in less : f[j] = i BY <1>3, <2>1 DEF Below
  <2>5. IsFiniteSet(less) BY <1>1, BelowFinite
  <2> HIDE DEF f, less, low
  <2>6. Cardinality(low) = Cardinality(less) BY <2>2, <2>3, <2>4, <2>5, SameCount
  <2> QED BY <2>6 DEF less, low
<1>10. ASSUME NEW j \in 1..Cardinality(T)
       PROVE  Place(K, j) \in K /\ Place(S, Place(K, j)) = Place(T, j)
  <2>1. Place(K, j) \in K /\ Cardinality(Below(K, Place(K, j))) = j - 1
    BY <1>1, <1>8, PlaceExists
  <2>2. Cardinality(Below(T, Place(S, Place(K, j)))) = j - 1 BY <1>9, <2>1
  <2>3. Place(S, Place(K, j)) \in T BY <1>6, <2>1
  <2>4. Cardinality(T) \in Nat BY <1>1, BelowFinite
  <2>5. j \in Int BY <2>4
  <2>6. Place(T, j) = Place(S, Place(K, j)) BY <1>1, <2>2, <2>3, <2>5, PlaceIs, ZenonT(60)
  <2> QED BY <2>1, <2>6
<1> QED BY <1>8, <1>10 DEF K, n

-----------------------------------------------------------------------------
(* Putting a set in order.                                                 *)

\* R puts the elements of S in one order.
Orders(R, S) ==
    /\ \A x \in S : <<x, x>> \notin R
    /\ \A x, y \in S : x # y => <<x, y>> \in R \/ <<y, x>> \in R
    /\ \A x, y, z \in S : <<x, y>> \in R /\ <<y, z>> \in R => <<x, z>> \in R

Earlier(S, R, x) == {y \in S : <<y, x>> \in R}

LEMMA EarlierCount ==
    ASSUME NEW S, IsFiniteSet(S), NEW R, Orders(R, S)
    PROVE  /\ Cardinality(S) \in Nat
           /\ \A x \in S : Cardinality(Earlier(S, R, x)) \in 0..(Cardinality(S) - 1)
           /\ \A x, y \in S : <<x, y>> \in R =>
                Cardinality(Earlier(S, R, x)) < Cardinality(Earlier(S, R, y))
<1>1. Cardinality(S) \in Nat BY FS_CardinalityType
<1>2. \A x \in S : Earlier(S, R, x) \in SUBSET S /\ x \notin Earlier(S, R, x)
  BY DEF Earlier, Orders
<1>3. \A x \in S : IsFiniteSet(Earlier(S, R, x)) /\ Cardinality(Earlier(S, R, x)) \in Nat
  BY <1>2, FS_Subset, FS_CardinalityType
<1>4. ASSUME NEW x \in S PROVE Cardinality(Earlier(S, R, x)) \in 0..(Cardinality(S) - 1)
  <2>1. Cardinality(Earlier(S, R, x)) <= Cardinality(S) BY <1>2, FS_Subset
  <2>2. Cardinality(Earlier(S, R, x)) # Cardinality(S) BY <1>2, FS_Subset
  <2> QED BY <1>1, <1>3, <2>1, <2>2
<1>5. ASSUME NEW x \in S, NEW y \in S, <<x, y>> \in R
      PROVE  Cardinality(Earlier(S, R, x)) < Cardinality(Earlier(S, R, y))
  <2>1. Earlier(S, R, x) \cup {x} \in SUBSET Earlier(S, R, y)
    BY <1>5 DEF Earlier, Orders
  <2>2. Cardinality(Earlier(S, R, x) \cup {x}) = Cardinality(Earlier(S, R, x)) + 1
    BY <1>2, <1>3, FS_AddElement
  <2>3. Cardinality(Earlier(S, R, x) \cup {x}) <= Cardinality(Earlier(S, R, y))
    BY <1>3, <2>1, FS_Subset
  <2> QED BY <1>3, <2>2, <2>3
<1> QED BY <1>1, <1>4, <1>5

\* Each element of S is in InOrder(S, R) once, after those that R puts before it.
LEMMA InOrderType ==
    ASSUME NEW S, IsFiniteSet(S), NEW R, Orders(R, S)
    PROVE  /\ Cardinality(S) \in Nat
           /\ InOrder(S, R) \in Seq(S) /\ Len(InOrder(S, R)) = Cardinality(S)
           /\ \A x \in S : \E k \in 1..Cardinality(S) : InOrder(S, R)[k] = x
           /\ \A j, k \in 1..Cardinality(S) : j < k <=> <<InOrder(S, R)[j], InOrder(S, R)[k]>> \in R
<1> DEFINE n == Cardinality(S)
           rank == [x \in S |-> Cardinality(Earlier(S, R, x))]
<1>1. n \in Nat BY EarlierCount
<1>2. rank \in [S -> 0..(n - 1)] BY EarlierCount
<1>3. ASSUME NEW x \in S, NEW y \in S, rank[x] = rank[y] PROVE x = y
  <2>1. /\ <<x, y>> \in R => rank[x] < rank[y]
        /\ <<y, x>> \in R => rank[y] < rank[x]
    BY EarlierCount
  <2>2. rank[x] \in 0..(n - 1) /\ rank[y] \in 0..(n - 1) BY <1>2
  <2> HIDE DEF rank, n
  <2>3. <<x, y>> \notin R /\ <<y, x>> \notin R BY <1>1, <1>3, <2>1, <2>2
  <2> QED BY <2>3 DEF Orders
<1>4. rank \in Injection(S, 0..(n - 1)) BY <1>2, <1>3, Fun_IsInj
<1>5. IsFiniteSet(0..(n - 1)) /\ Cardinality(0..(n - 1)) = n
  BY <1>1, FS_Interval, SMTT(60)
<1>6. rank \in Surjection(S, 0..(n - 1)) BY <1>4, <1>5, FS_Injection
<1>7. \A i \in 0..(n - 1) : \E x \in S : rank[x] = i
  <2> HIDE DEF n, rank
  <2> QED BY <1>6, Fun_SurjectionProperties, ZenonT(60)
<1>8. ASSUME NEW k \in 1..n
      PROVE  InOrder(S, R)[k] \in S /\ rank[InOrder(S, R)[k]] = k - 1
  <2>1. k - 1 \in 0..(n - 1) BY <1>1
  <2>2. \E x \in S : Cardinality({y \in S : <<y, x>> \in R}) = k - 1
    BY <1>7, <2>1 DEF Earlier
  <2>3. InOrder(S, R)[k] = CHOOSE x \in S : Cardinality({y \in S : <<y, x>> \in R}) = k - 1
    BY DEF InOrder
  <2> QED BY <2>2, <2>3 DEF Earlier
<1>9. InOrder(S, R) \in [1..n -> S]
  <2> DEFINE e(k) == CHOOSE x \in S : Cardinality({y \in S : <<y, x>> \in R}) = k - 1
  <2>1. InOrder(S, R) = [k \in 1..n |-> e(k)] BY DEF InOrder
  <2> HIDE DEF e, n, rank
  <2>2. \A k \in 1..n : InOrder(S, R)[k] = e(k) BY <2>1
  <2> QED BY <1>8, <2>1, <2>2
<1> HIDE DEF n, rank
<1>10. InOrder(S, R) \in Seq(S) /\ Len(InOrder(S, R)) = n BY <1>1, <1>9
<1>11. ASSUME NEW x \in S PROVE \E k \in 1..n : InOrder(S, R)[k] = x
  <2>1. rank[x] \in 0..(n - 1) BY <1>2
  <2>2. rank[x] + 1 \in 1..n /\ (rank[x] + 1) - 1 = rank[x] BY <1>1, <2>1
  <2>3. InOrder(S, R)[rank[x] + 1] \in S /\ rank[InOrder(S, R)[rank[x] + 1]] = rank[x]
    BY <1>8, <2>2
  <2> QED BY <1>3, <2>2, <2>3
<1>12. ASSUME NEW j \in 1..n, NEW k \in 1..n
       PROVE  j < k <=> <<InOrder(S, R)[j], InOrder(S, R)[k]>> \in R
  <2> DEFINE x == InOrder(S, R)[j]
             y == InOrder(S, R)[k]
  <2>1. x \in S /\ y \in S /\ rank[x] = j - 1 /\ rank[y] = k - 1 BY <1>8
  <2> HIDE DEF x, y
  <2>2. /\ <<x, y>> \in R => rank[x] < rank[y]
        /\ <<y, x>> \in R => rank[y] < rank[x]
    BY <2>1, EarlierCount DEF rank
  <2>3. <<x, y>> \in R \/ <<y, x>> \in R \/ x = y BY <2>1 DEF Orders
  <2>4. <<x, y>> \in R <=> j < k BY <1>1, <2>1, <2>2, <2>3
  <2> QED BY <2>4 DEF x, y
<1> QED BY <1>1, <1>10, <1>11, <1>12 DEF n

\* Lexicographic puts pairs of numbers in one order.
LEMMA LexicographicOrders ==
    ASSUME NEW S \in SUBSET (Int \X Int)
    PROVE  Orders(Lexicographic(S), S)
<1>1. \A x, y \in S : <<x, y>> \in Lexicographic(S) <=>
         x[1] < y[1] \/ (x[1] = y[1] /\ x[2] < y[2])
  BY DEF Lexicographic
<1>2. \A x \in S : x[1] \in Int /\ x[2] \in Int /\ x = <<x[1], x[2]>> OBVIOUS
<1>3. \A x \in S : <<x, x>> \notin Lexicographic(S) BY <1>1, <1>2
<1>4. ASSUME NEW x \in S, NEW y \in S, x # y
      PROVE  <<x, y>> \in Lexicographic(S) \/ <<y, x>> \in Lexicographic(S)
  <2>1. x[1] # y[1] \/ x[2] # y[2] BY <1>2, <1>4
  <2> QED BY <1>1, <1>2, <2>1
<1>5. ASSUME NEW x \in S, NEW y \in S, NEW z \in S,
             <<x, y>> \in Lexicographic(S), <<y, z>> \in Lexicographic(S)
      PROVE  <<x, z>> \in Lexicographic(S)
  BY <1>1, <1>2, <1>5
<1> QED BY <1>3, <1>4, <1>5 DEF Orders

-----------------------------------------------------------------------------
(* Lists: sequences of whatever they hold.                                 *)

LEMMA ListDomain ==
    ASSUME NEW s, IsList(s)
    PROVE  /\ Len(s) \in Nat /\ DOMAIN s = 1..Len(s)
           /\ IsFiniteSet(DOMAIN s) /\ DOMAIN s \subseteq Int
           /\ \A i \in DOMAIN s : s[i] \in Range(s)
           /\ \A x \in Range(s) : \E i \in DOMAIN s : s[i] = x
<1>1. Len(s) \in Nat /\ DOMAIN s = 1..Len(s) BY DEF IsList
<1>2. IsFiniteSet(1..Len(s)) BY <1>1, UpTo
<1>3. 1..Len(s) \subseteq Int OBVIOUS
<1> QED BY <1>1, <1>2, <1>3 DEF Range

\* A function of the places of a list is a list, and so is a sequence of anything.
LEMMA ListMade ==
    ASSUME NEW n \in Nat, NEW t, DOMAIN t = 1..n, t = [i \in DOMAIN t |-> t[i]]
    PROVE  IsList(t) /\ Len(t) = n
<1>1. \A i \in 1..n : t[i] \in Range(t) BY DEF Range
<1>2. t \in [1..n -> Range(t)] BY <1>1
<1> QED BY <1>2 DEF IsList

LEMMA ListOf ==
    ASSUME NEW S, NEW s \in Seq(S)
    PROVE  IsList(s) /\ Range(s) \subseteq S
<1>1. DOMAIN s = 1..Len(s) /\ Len(s) \in Nat /\ \A i \in 1..Len(s) : s[i] \in S OBVIOUS
<1>2. s = [i \in DOMAIN s |-> s[i]] OBVIOUS
<1> QED BY <1>1, <1>2, ListMade DEF Range

LEMMA ListConcat ==
    ASSUME NEW s, IsList(s), NEW t, IsList(t)
    PROVE  IsList(s \o t) /\ Range(s \o t) = Range(s) \cup Range(t)
<1> DEFINE S == Range(s) \cup Range(t)
<1>1. s \in Seq(S) /\ t \in Seq(S) BY SeqMonotonic DEF IsList
<1> HIDE DEF S
<1>2. Range(s \o t) = Range(s) \cup Range(t) BY <1>1, RangeConcatenation
<1>3. s \o t \in Seq(S) BY <1>1
<1> QED BY <1>2, <1>3, ListOf

LEMMA ListAppend ==
    ASSUME NEW s, IsList(s), NEW x
    PROVE  IsList(Append(s, x)) /\ Range(Append(s, x)) = Range(s) \cup {x}
<1> DEFINE S == Range(s) \cup {x}
<1>1. s \in Seq(S) BY SeqMonotonic DEF IsList
<1>2. x \in S OBVIOUS
<1> HIDE DEF S
<1>3. /\ Append(s, x) \in Seq(S) /\ DOMAIN Append(s, x) = 1..(Len(s) + 1)
      /\ Append(s, x)[Len(s) + 1] = x /\ Len(s) \in Nat /\ DOMAIN s = 1..Len(s)
      /\ \A i \in 1..Len(s) : Append(s, x)[i] = s[i]
  BY <1>1, <1>2
<1>4. \A i \in 1..(Len(s) + 1) : i \in 1..Len(s) \/ i = Len(s) + 1 BY <1>3
<1>5. Range(Append(s, x)) \subseteq Range(s) \cup {x} BY <1>3, <1>4 DEF Range
<1>6. Range(s) \cup {x} \subseteq Range(Append(s, x))
  <2>1. Len(s) + 1 \in DOMAIN Append(s, x) /\ DOMAIN s \subseteq DOMAIN Append(s, x) BY <1>3
  <2> QED BY <1>3, <2>1 DEF Range
<1> QED BY <1>3, <1>5, <1>6, ListOf

LEMMA CutList ==
    ASSUME NEW s, IsList(s), NEW S \in SUBSET (DOMAIN s)
    PROVE  IsList(Cut(s, S)) /\ Range(Cut(s, S)) = {s[i] : i \in S}
<1>1. s \in Seq(Range(s)) /\ Len(s) \in Nat /\ DOMAIN s = 1..Len(s) BY ListDomain DEF IsList
<1>2. /\ Cut(s, S) \in Seq(Range(s)) /\ Len(Cut(s, S)) = Cardinality(S)
      /\ \A k \in 1..Cardinality(S) : Place(S, k) \in S /\ Cut(s, S)[k] = s[Place(S, k)]
  BY <1>1, CutType
<1>3. \A i \in S : \E k \in 1..Cardinality(S) : Place(S, k) = i BY <1>1, CutPlaces
<1>4. DOMAIN Cut(s, S) = 1..Cardinality(S) BY <1>2
<1> QED BY <1>2, <1>3, <1>4, ListOf DEF Range

\* The sequences of a list of lists, one behind the other, are a list.
LEMMA FlatList ==
    ASSUME NEW seqs, IsList(seqs), \A i \in DOMAIN seqs : IsList(seqs[i])
    PROVE  IsList(Flat(seqs)) /\ Range(Flat(seqs)) = UNION {Range(seqs[i]) : i \in DOMAIN seqs}
<1> DEFINE row(i) == {i} \X DOMAIN seqs[i]
           rows   == {row(i) : i \in DOMAIN seqs}
           places == UNION rows
           order  == InOrder(places, Lexicographic(places))
<1>1. IsFiniteSet(places)
  <2>1. \A i \in DOMAIN seqs : IsFiniteSet(row(i))
    <3>1. \A i \in DOMAIN seqs : IsFiniteSet(DOMAIN seqs[i]) BY ListDomain
    <3>2. \A i \in DOMAIN seqs : IsFiniteSet({i}) BY FS_Singleton
    <3> QED BY <3>1, <3>2, FS_Product
  <2>2. IsFiniteSet(rows)
    <3> DEFINE f == [i \in DOMAIN seqs |-> row(i)]
    <3>1. f \in [DOMAIN seqs -> rows] /\ \A r \in rows : \E i \in DOMAIN seqs : f[i] = r OBVIOUS
    <3>2. IsFiniteSet(DOMAIN seqs) BY ListDomain
    <3> HIDE DEF f, rows
    <3>3. f \in Surjection(DOMAIN seqs, rows) BY <3>1, Fun_IsSurj
    <3> QED BY <3>2, <3>3, FS_Surjection
  <2>3. \A r \in rows : IsFiniteSet(r) BY <2>1
  <2> HIDE DEF rows
  <2> QED BY <2>2, <2>3, FS_UNION
<1>2. \A i, j : <<i, j>> \in places <=> i \in DOMAIN seqs /\ j \in DOMAIN seqs[i] OBVIOUS
<1>3. places \subseteq Int \X Int
  <2>1. DOMAIN seqs \subseteq Int /\ \A i \in DOMAIN seqs : DOMAIN seqs[i] \subseteq Int
    BY ListDomain
  <2> QED BY <2>1
<1> HIDE DEF places
<1>4. /\ Cardinality(places) \in Nat
      /\ order \in Seq(places) /\ Len(order) = Cardinality(places)
      /\ \A x \in places : \E k \in 1..Cardinality(places) : order[k] = x
  BY <1>1, <1>3, LexicographicOrders, InOrderType
<1> HIDE DEF order
<1>5. Flat(seqs) = [k \in 1..Cardinality(places) |-> seqs[order[k][1]][order[k][2]]]
  BY DEF Flat, places, order
<1>6. IsList(Flat(seqs))
  <2>1. DOMAIN Flat(seqs) = 1..Cardinality(places)
        /\ Flat(seqs) = [k \in DOMAIN Flat(seqs) |-> Flat(seqs)[k]]
    BY <1>5
  <2> QED BY <1>4, <2>1, ListMade
<1>7. ASSUME NEW x \in Range(Flat(seqs)) PROVE \E i \in DOMAIN seqs : x \in Range(seqs[i])
  <2>1. PICK k \in 1..Cardinality(places) : x = seqs[order[k][1]][order[k][2]]
    BY <1>5 DEF Range
  <2>2. order[k] \in places BY <1>4
  <2>3. order[k] = <<order[k][1], order[k][2]>> BY <1>3, <2>2
  <2>4. order[k][1] \in DOMAIN seqs /\ order[k][2] \in DOMAIN seqs[order[k][1]]
    BY <1>2, <2>2, <2>3
  <2> QED BY <2>1, <2>4 DEF Range
<1>8. ASSUME NEW i \in DOMAIN seqs, NEW x \in Range(seqs[i]) PROVE x \in Range(Flat(seqs))
  <2>1. PICK j \in DOMAIN seqs[i] : x = seqs[i][j] BY DEF Range
  <2>2. PICK k \in 1..Cardinality(places) : order[k] = <<i, j>> BY <1>2, <1>4, <2>1
  <2>3. Flat(seqs)[k] = x /\ k \in DOMAIN Flat(seqs) BY <1>5, <2>1, <2>2
  <2> QED BY <2>3 DEF Range
<1> QED BY <1>6, <1>7, <1>8

LEMMA FlatSeq ==
    ASSUME NEW S, NEW seqs \in Seq(Seq(S))
    PROVE  Flat(seqs) \in Seq(S)
<1>1. IsList(seqs) BY ListOf
<1>2. DOMAIN seqs = 1..Len(seqs) /\ \A i \in 1..Len(seqs) : seqs[i] \in Seq(S) OBVIOUS
<1>3. \A i \in DOMAIN seqs : IsList(seqs[i]) /\ Range(seqs[i]) \subseteq S BY <1>2, ListOf
<1>4. IsList(Flat(seqs)) /\ Range(Flat(seqs)) = UNION {Range(seqs[i]) : i \in DOMAIN seqs}
  BY <1>1, <1>3, FlatList
<1>5. Range(Flat(seqs)) \subseteq S BY <1>3, <1>4
<1> QED BY <1>4, <1>5, SeqMonotonic DEF IsList

-----------------------------------------------------------------------------
(* Recursion along 1..n, without an operator as a parameter: step k is the *)
(* function F[k].                                                          *)

Along(g, n, base, F) == g[0] = base /\ \A k \in 1..n : g[k] = F[k][g[k - 1]]

LEMMA AlongExists ==
    ASSUME NEW T, NEW base \in T, NEW n \in Nat, NEW F \in [1..n -> [T -> T]]
    PROVE  \E g \in [0..n -> T] : Along(g, n, base, F)
<1> DEFINE Holds(m) == \E g \in [0..m -> T] : Along(g, m, base, F)
           Bad == {m \in Nat : m <= n /\ ~Holds(m)}
<1>1. SUFFICES ASSUME Bad # {} PROVE FALSE OBVIOUS
<1>2. PICK m \in Bad : \A k \in Bad : m <= k BY <1>1, Least
<1>3. CASE m = 0
  <2> DEFINE g == [k \in 0..0 |-> base]
  <2>1. g \in [0..0 -> T] /\ Along(g, 0, base, F) BY DEF Along
  <2> QED BY <1>2, <1>3, <2>1
<1>4. CASE m # 0
  <2>1. m - 1 \in Nat /\ m - 1 <= n /\ m - 1 \notin Bad /\ m \in 1..n BY <1>2, <1>4
  <2>2. PICK g \in [0..(m - 1) -> T] : Along(g, m - 1, base, F) BY <2>1
  <2>3. g[m - 1] \in T /\ F[m] \in [T -> T] BY <2>1, <2>2
  <2> DEFINE more == [k \in 0..m |-> IF k = m THEN F[m][g[m - 1]] ELSE g[k]]
  <2>4. \A k \in 0..m : k # m => k \in 0..(m - 1) BY <2>1
  <2>5. more \in [0..m -> T]
    <3>1. \A k \in 0..m : (IF k = m THEN F[m][g[m - 1]] ELSE g[k]) \in T BY <2>2, <2>3, <2>4
    <3> QED BY <3>1
  <2>6. \A k \in 0..m : more[k] = IF k = m THEN F[m][g[m - 1]] ELSE g[k] OBVIOUS
  <2> HIDE DEF more
  <2>7. more[0] = base BY <2>1, <2>2, <2>6 DEF Along
  <2>8. ASSUME NEW k \in 1..m PROVE more[k] = F[k][more[k - 1]]
    <3>1. k \in 0..m /\ k - 1 \in 0..m /\ k - 1 # m BY <2>1
    <3>2. more[k - 1] = g[k - 1] BY <2>6, <3>1
    <3>3. CASE k = m
      BY <2>6, <3>1, <3>2, <3>3
    <3>4. CASE k # m
      <4>1. k \in 1..(m - 1) BY <2>1, <3>4
      <4> QED BY <2>2, <2>6, <3>1, <3>2, <3>4, <4>1 DEF Along
    <3> QED BY <3>3, <3>4
  <2> QED BY <1>2, <2>5, <2>7, <2>8 DEF Along
<1> QED BY <1>3, <1>4

\* A sum is the last of the partial sums.
LEMMA PartialSums ==
    ASSUME NEW w \in Seq(Int)
    PROVE  \E g \in [0..Len(w) -> Int] :
              /\ SumOf(w) = g[Len(w)]
              /\ \A k \in 0..Len(w) : g[k] = IF k = 0 THEN 0 ELSE g[k - 1] + w[k]
<1> DEFINE n == Len(w)
           sum == CHOOSE f : f = [k \in 0..n |-> IF k = 0 THEN 0 ELSE f[k - 1] + w[k]]
           F == [k \in 1..n |-> [x \in Int |-> x + w[k]]]
<1>1. n \in Nat /\ \A k \in 1..n : w[k] \in Int OBVIOUS
<1>2. SumOf(w) = sum[n] BY DEF SumOf
<1> HIDE DEF n
<1>3. F \in [1..n -> [Int -> Int]] BY <1>1
<1>4. \A k \in 1..n : \A x \in Int : F[k][x] = x + w[k] OBVIOUS
<1> HIDE DEF F
<1>5. PICK g \in [0..n -> Int] : Along(g, n, 0, F)
  <2>1. 0 \in Int OBVIOUS
  <2> QED BY <1>1, <1>3, <2>1, AlongExists
<1>6. \A k \in 0..n : k # 0 => k \in 1..n /\ k - 1 \in 0..n BY <1>1
<1>7. \A k \in 0..n : g[k] = IF k = 0 THEN 0 ELSE g[k - 1] + w[k]
  BY <1>4, <1>5, <1>6 DEF Along
<1>8. g = [k \in 0..n |-> IF k = 0 THEN 0 ELSE g[k - 1] + w[k]] BY <1>5, <1>7
<1>9. sum = [k \in 0..n |-> IF k = 0 THEN 0 ELSE sum[k - 1] + w[k]]
  BY <1>8, Zenon
<1> HIDE DEF sum
<1>10. \A k \in 0..n : sum[k] = IF k = 0 THEN 0 ELSE sum[k - 1] + w[k] BY <1>9
<1> DEFINE Bad == {k \in Nat : k <= n /\ sum[k] # g[k]}
<1>11. Bad = {}
  <2>1. SUFFICES ASSUME Bad # {} PROVE FALSE OBVIOUS
  <2>2. PICK k \in Bad : \A j \in Bad : k <= j BY <2>1, Least
  <2>3. k # 0 BY <1>1, <1>7, <1>10, <2>2
  <2>4. k - 1 \in Nat /\ k - 1 <= n /\ k - 1 \notin Bad /\ k \in 0..n BY <1>1, <2>2, <2>3
  <2> QED BY <1>7, <1>10, <2>2, <2>3, <2>4
<1>12. sum[n] = g[n] BY <1>1, <1>11
<1> QED BY <1>2, <1>7, <1>12 DEF n

LEMMA SumType ==
    ASSUME NEW w \in Seq(Int)
    PROVE  SumOf(w) \in Int
<1>1. PICK g \in [0..Len(w) -> Int] : SumOf(w) = g[Len(w)] BY PartialSums
<1> QED BY <1>1

\* When one number changes, the sum changes by as much.
LEMMA SumChange ==
    ASSUME NEW w \in Seq(Int), NEW v \in Seq(Int), Len(v) = Len(w),
           NEW p \in 1..Len(w), \A k \in 1..Len(w) : k # p => v[k] = w[k]
    PROVE  SumOf(v) - v[p] = SumOf(w) - w[p]
<1> DEFINE n == Len(w)
<1>1. n \in Nat /\ \A k \in 1..n : w[k] \in Int /\ v[k] \in Int OBVIOUS
<1>2. PICK g \in [0..n -> Int] :
        /\ SumOf(w) = g[n]
        /\ \A k \in 0..n : g[k] = IF k = 0 THEN 0 ELSE g[k - 1] + w[k]
  BY PartialSums
<1>3. PICK h \in [0..n -> Int] :
        /\ SumOf(v) = h[n]
        /\ \A k \in 0..n : h[k] = IF k = 0 THEN 0 ELSE h[k - 1] + v[k]
  <2>1. Len(v) = n OBVIOUS
  <2> HIDE DEF n
  <2>2. \E h \in [0..Len(v) -> Int] :
            /\ SumOf(v) = h[Len(v)]
            /\ \A k \in 0..Len(v) : h[k] = IF k = 0 THEN 0 ELSE h[k - 1] + v[k]
    BY PartialSums
  <2> QED BY <2>1, <2>2
<1>4. p \in 1..n /\ \A k \in 1..n : k # p => v[k] = w[k] OBVIOUS
<1> HIDE DEF n
<1> DEFINE moved(k) == h[k] = IF k < p THEN g[k] ELSE g[k] + v[p] - w[p]
           Bad == {k \in Nat : k <= n /\ ~moved(k)}
<1>5. Bad = {}
  <2>1. SUFFICES ASSUME Bad # {} PROVE FALSE OBVIOUS
  <2>2. PICK k \in Bad : \A j \in Bad : k <= j BY <2>1, Least
  <2>3. k \in 0..n /\ ~moved(k) BY <1>1, <2>2
  <2>4. k # 0 BY <1>1, <1>2, <1>3, <1>4, <2>3
  <2>5. k - 1 \in 0..n /\ k \in 1..n /\ moved(k - 1)
    <3>1. k - 1 \in Nat /\ k - 1 <= n /\ k \in 1..n /\ ~(k <= k - 1) BY <1>1, <2>3, <2>4
    <3>2. k - 1 \notin Bad BY <2>2, <3>1
    <3> HIDE DEF moved
    <3> QED BY <3>1, <3>2
  <2>6. g[k] = g[k - 1] + w[k] /\ h[k] = h[k - 1] + v[k] BY <1>2, <1>3, <2>3, <2>4
  <2>7. g[k - 1] \in Int /\ w[k] \in Int /\ v[k] \in Int /\ w[p] \in Int /\ v[p] \in Int
    BY <1>1, <1>2, <1>4, <2>5
  <2>8. CASE k < p BY <1>4, <2>3, <2>5, <2>6, <2>7, <2>8
  <2>9. CASE k = p BY <1>4, <2>3, <2>5, <2>6, <2>7, <2>9
  <2>10. CASE k > p BY <1>4, <2>3, <2>5, <2>6, <2>7, <2>10, SMTT(60)
  <2> QED BY <1>4, <2>3, <2>8, <2>9, <2>10
<1>6. moved(n)
  <2> HIDE DEF moved
  <2>1. n \in Nat /\ n <= n BY <1>1
  <2> QED BY <1>5, <2>1
<1>7. g[n] \in Int /\ w[p] \in Int /\ v[p] \in Int /\ ~(n < p) BY <1>1, <1>2, <1>4
<1> QED BY <1>2, <1>3, <1>6, <1>7
=============================================================================
