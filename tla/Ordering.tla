------------------------------ MODULE Ordering ------------------------------
(***************************************************************************)
(* What the proofs about routes, codes and log pages need to know of       *)
(* finite sets of numbers: their least and greatest elements, and the one  *)
(* way to list them from the greatest to the least.                        *)
(***************************************************************************)
EXTENDS Integers, Sequences, FiniteSetTheorems, TLAPS

(* A finite set that is not empty has a least element: of the sets of its  *)
(* elements up to one of them, one has no other below it.                  *)
LEMMA LeastExists ==
  ASSUME NEW S \in SUBSET Int, IsFiniteSet(S), S # {}
  PROVE  \E n \in S : \A k \in S : n <= k
<1> DEFINE UpTo(m) == {k \in S : k <= m}
           T == {UpTo(m) : m \in S}
<1>1. IsWellFoundedOn(StrictSubsetOrdering(S), FiniteSubsetsOf(S))
  BY FS_StrictSubsetOrderingWellFounded
<1>2. T \subseteq FiniteSubsetsOf(S) /\ T # {}
  <2>1. FiniteSubsetsOf(S) = SUBSET S
    BY FS_FiniteSubsetsOfFinite
  <2>2. T # {} /\ T \subseteq SUBSET S
    OBVIOUS
  <2> HIDE DEF T
  <2> QED
    BY <2>1, <2>2, Zenon
<1>3. PICK U \in T : \A V \in T : <<V, U>> \notin StrictSubsetOrdering(S)
  BY <1>1, <1>2, WFMin
<1>4. PICK n \in S : U = UpTo(n)
  BY <1>3
<1>5. ASSUME NEW k \in S, ~(n <= k)
      PROVE  FALSE
  <2>1. \A m \in S : m <= k => m <= n
    BY <1>5
  <2>2. n <= n /\ k \in Int /\ n \in Int
    OBVIOUS
  <2>3. UpTo(k) \subseteq UpTo(n) /\ n \in UpTo(n) /\ n \notin UpTo(k)
    BY <1>5, <2>1, <2>2
  <2>4. <<UpTo(k), UpTo(n)>> \in StrictSubsetOrdering(S)
    BY <2>3 DEF StrictSubsetOrdering
  <2> QED
    BY <1>3, <1>4, <2>4
<1> QED
  BY <1>5

(* It has a greatest one, the negative of the least of the negatives.      *)
LEMMA GreatestExists ==
  ASSUME NEW S \in SUBSET Int, IsFiniteSet(S), S # {}
  PROVE  \E n \in S : \A k \in S : k <= n
<1> DEFINE T == {0 - k : k \in S}
           f == [k \in S |-> 0 - k]
<1>1. T \in SUBSET Int /\ T # {}
  <2>1. \A k \in S : 0 - k \in Int
    OBVIOUS
  <2> QED
    BY <2>1, Zenon
<1>2. IsFiniteSet(T)
  <2>1. f \in Surjection(S, T)
    BY DEF Surjection
  <2> QED
    BY <2>1, FS_Surjection
<1>3. PICK m \in T : \A k \in T : m <= k
  BY <1>1, <1>2, LeastExists
<1>4. PICK n \in S : m = 0 - n
  OBVIOUS
<1>5. ASSUME NEW k \in S
      PROVE  k <= n
  <2>1. 0 - n <= 0 - k
    BY <1>3, <1>4
  <2> QED
    BY <2>1
<1> QED
  BY <1>5

(* Positions in a sequence are finitely many numbers.                      *)
LEMMA PositionsAreFinite ==
  ASSUME NEW n \in Nat, NEW S \in SUBSET (1..n)
  PROVE  IsFiniteSet(S) /\ S \in SUBSET Int
<1>1. IsFiniteSet(1..n)
  BY FS_Interval
<1>2. S \in SUBSET Int
  OBVIOUS
<1> QED
  BY <1>1, <1>2, FS_Subset

(* The last of them.                                                       *)
LEMMA LastPosition ==
  ASSUME NEW n \in Nat, NEW S \in SUBSET (1..n), S # {}
  PROVE  \E m \in S : \A k \in S : k <= m
  BY PositionsAreFinite, GreatestExists

-----------------------------------------------------------------------------
(* Lists from the greatest to the least                                    *)

Decreasing(s) == \A i, j \in DOMAIN s : i < j => s[i] > s[j]
ListsDown(s, S) == s \in [1..Cardinality(S) -> S] /\ Decreasing(s)

(* A list that never goes up leaves no element out.                        *)
LEMMA ListIsWhole ==
  ASSUME NEW S \in SUBSET Int, IsFiniteSet(S), NEW s, ListsDown(s, S)
  PROVE  \A x \in S : \E i \in 1..Cardinality(S) : s[i] = x
<1> DEFINE n == Cardinality(S)
<1>1. n \in Nat
  BY FS_CardinalityType
<1>2. IsFiniteSet(1..n) /\ Cardinality(1..n) = n
  BY <1>1, FS_Interval
<1>a. s \in [1..n -> S] /\ \A i, j \in 1..n : i < j => s[i] > s[j]
  BY DEF ListsDown, Decreasing
<1> HIDE DEF n
<1>3. s \in Injection(1..n, S)
  <2>1. ASSUME NEW i \in 1..n, NEW j \in 1..n, s[i] = s[j]
        PROVE  i = j
    <3>1. s[i] \in S /\ s[j] \in S /\ i \in Int /\ j \in Int
      BY <1>1, <1>a
    <3>2. (i < j => s[i] > s[j]) /\ (j < i => s[j] > s[i])
      BY <1>a
    <3>3. s[i] \in Int /\ s[j] \in Int
      BY <3>1
    <3> QED
      BY <2>1, <3>1, <3>2, <3>3
  <2> QED
    BY <1>a, <2>1 DEF Injection, IsInjective
<1>4. s \in Surjection(1..n, S)
  BY <1>2, <1>3, FS_Injection DEF n
<1> QED
  BY <1>4 DEF Surjection, n

(* Every finite set has such a list: otherwise one of the smallest sets    *)
(* without has one as soon as its least element is taken away.             *)
LEMMA ListExists ==
  ASSUME NEW S \in SUBSET Int, IsFiniteSet(S)
  PROVE  \E s : ListsDown(s, S)
<1> DEFINE T == {U \in SUBSET S : ~ \E s : ListsDown(s, U)}
<1>1. SUFFICES ASSUME T # {} PROVE FALSE
  OBVIOUS
<1>2. PICK U \in T : \A V \in T : <<V, U>> \notin StrictSubsetOrdering(S)
  <2>1. IsWellFoundedOn(StrictSubsetOrdering(S), FiniteSubsetsOf(S))
    BY FS_StrictSubsetOrderingWellFounded
  <2>2. FiniteSubsetsOf(S) = SUBSET S
    BY FS_FiniteSubsetsOfFinite
  <2>3. T \subseteq FiniteSubsetsOf(S)
    BY <2>2
  <2> HIDE DEF T
  <2> QED
    BY <1>1, <2>1, <2>3, WFMin
<1>3. IsFiniteSet(U) /\ U \in SUBSET Int /\ U \subseteq S
  BY FS_Subset
<1>4. CASE U = {}
  <2>1. Cardinality(U) = 0
    BY <1>4, FS_EmptySet
  <2>2. ListsDown(<<>>, U)
    BY <1>4, <2>1 DEF ListsDown, Decreasing
  <2> QED
    BY <2>2
<1>5. CASE U # {}
  <2>1. PICK m \in U : \A k \in U : m <= k
    BY <1>3, <1>5, LeastExists
  <2> DEFINE V == U \ {m}
             n == Cardinality(V)
  <2>2. IsFiniteSet(V) /\ n \in Nat /\ Cardinality(U) = n + 1
    <3>1. IsFiniteSet(V) /\ n = Cardinality(U) - 1
      BY <1>3, <2>1, FS_RemoveElement
    <3>2. n \in Nat /\ Cardinality(U) \in Nat
      BY <1>3, <3>1, FS_CardinalityType
    <3> HIDE DEF V, n
    <3> QED
      BY <3>1, <3>2
  <2>3. PICK t : ListsDown(t, V)
    <3>1. <<V, U>> \in StrictSubsetOrdering(S)
      BY <1>3 DEF StrictSubsetOrdering
    <3>2. V \in SUBSET S /\ V \notin T
      BY <1>2, <1>3, <3>1
    <3> QED
      BY <3>2
  <2> HIDE DEF V
  <2> DEFINE s == [i \in 1..(n + 1) |-> IF i = n + 1 THEN m ELSE t[i]]
  <2>4. \A i \in 1..n : t[i] \in V /\ t[i] \in U /\ t[i] > m
    <3>1. \A i \in 1..n : t[i] \in V
      BY <2>3 DEF ListsDown
    <3>2. \A k \in V : k \in U /\ k > m
      BY <1>3, <2>1 DEF V
    <3> QED
      BY <3>1, <3>2
  <2>5. s \in [1..(n + 1) -> U]
    BY <2>1, <2>2, <2>4
  <2>6. Decreasing(s)
    <3> SUFFICES ASSUME NEW i \in 1..(n + 1), NEW j \in 1..(n + 1), i < j
                 PROVE  s[i] > s[j]
      BY DEF Decreasing
    <3>1. i \in 1..n /\ s[i] = t[i]
      BY <2>2
    <3>2. CASE j = n + 1
      BY <2>2, <2>4, <3>1, <3>2
    <3>3. CASE j # n + 1
      <4>1. j \in 1..n /\ s[j] = t[j] /\ DOMAIN t = 1..n
        BY <2>2, <2>3, <3>3 DEF ListsDown
      <4> QED
        BY <2>3, <3>1, <4>1 DEF ListsDown, Decreasing
    <3> QED
      BY <3>2, <3>3
  <2>7. ListsDown(s, U)
    BY <2>2, <2>5, <2>6 DEF ListsDown
  <2> QED
    BY <2>7
<1> QED
  BY <1>4, <1>5

(* There is no other: where two lists differ first, one of them leaves out *)
(* what the other has there.                                               *)
LEMMA ListIsOnly ==
  ASSUME NEW S \in SUBSET Int, IsFiniteSet(S), NEW s, NEW t, ListsDown(s, S), ListsDown(t, S)
  PROVE  s = t
<1> DEFINE n == Cardinality(S)
           D == {i \in 1..n : s[i] # t[i]}
<1>1. n \in Nat /\ s \in [1..n -> S] /\ t \in [1..n -> S]
  BY FS_CardinalityType DEF ListsDown
<1>2. SUFFICES ASSUME D # {} PROVE FALSE
  BY <1>1
<1>3. PICK i \in D : \A k \in D : i <= k
  <2>1. IsFiniteSet(D) /\ D \in SUBSET Int
    <3>1. D \subseteq 1..n
      OBVIOUS
    <3> HIDE DEF D, n
    <3> QED
      BY <1>1, <3>1, PositionsAreFinite
  <2> QED
    BY <1>2, <2>1, LeastExists
<1>4. i \in 1..n /\ s[i] # t[i] /\ \A k \in 1..n : k < i => s[k] = t[k]
  BY <1>3
<1> HIDE DEF n, D
<1>5. ASSUME NEW u, NEW v, ListsDown(u, S), ListsDown(v, S), u[i] > v[i],
             \A k \in 1..n : k < i => u[k] = v[k]
      PROVE  FALSE
  <2>1. u \in [1..n -> S] /\ v \in [1..n -> S] /\ Decreasing(u) /\ Decreasing(v)
    BY <1>5 DEF ListsDown, n
  <2>2. PICK j \in 1..n : v[j] = u[i]
    <3>1. u[i] \in S
      BY <1>4, <2>1
    <3>2. \A x \in S : \E k \in 1..n : v[k] = x
      BY <1>5, ListIsWhole DEF n
    <3> QED
      BY <3>1, <3>2
  <2>3. u[i] \in Int /\ v[i] \in Int /\ v[j] \in Int /\ u[j] \in Int /\ i \in Int /\ j \in Int
    <3>1. u[i] \in S /\ v[i] \in S /\ v[j] \in S /\ u[j] \in S
      BY <1>4, <2>1
    <3>2. i \in Int /\ j \in Int
      BY <1>1, <1>4
    <3> QED
      BY <3>1, <3>2
  <2>4. CASE j < i
    <3>1. u[j] = v[j] /\ u[j] > u[i]
      BY <1>4, <1>5, <2>1, <2>4 DEF Decreasing
    <3> QED
      BY <2>2, <2>3, <3>1
  <2>5. CASE i < j
    <3>1. v[i] > v[j]
      BY <1>4, <2>1, <2>5 DEF Decreasing
    <3> QED
      BY <1>5, <2>2, <2>3, <3>1
  <2>6. CASE i = j
    BY <1>5, <2>2, <2>3, <2>6
  <2> QED
    BY <2>3, <2>4, <2>5, <2>6
<1>6. s[i] \in Int /\ t[i] \in Int
  BY <1>1, <1>4 DEF n
<1>7. s[i] > t[i] \/ t[i] > s[i]
  BY <1>4, <1>6
<1> QED
  BY <1>4, <1>5, <1>7

(* The lists of two sets, one above the other, make the list of both.      *)
LEMMA ListsJoin ==
  ASSUME NEW A \in SUBSET Int, NEW B \in SUBSET Int, IsFiniteSet(A), IsFiniteSet(B),
         \A a \in A, b \in B : a > b,
         NEW s, NEW t, ListsDown(s, A), ListsDown(t, B)
  PROVE  s \in Seq(Int) /\ t \in Seq(Int) /\ ListsDown(s \o t, A \cup B)
<1> DEFINE n == Cardinality(A)
           k == Cardinality(B)
           r == s \o t
<1>1. n \in Nat /\ k \in Nat /\ s \in [1..n -> A] /\ t \in [1..k -> B]
  BY FS_CardinalityType DEF ListsDown
<1>2. Cardinality(A \cup B) = n + k
  <2>1. A \cap B = {}
    <3> SUFFICES ASSUME NEW x \in A, x \in B PROVE FALSE
      OBVIOUS
    <3>1. x > x /\ x \in Int
      OBVIOUS
    <3> QED
      BY <3>1
  <2>2. Cardinality(A \cup B) = n + k - 0
    <3>1. Cardinality(A \cup B) = n + k - Cardinality(A \cap B)
      BY FS_Union
    <3> HIDE DEF n, k
    <3> QED
      BY <2>1, <3>1, FS_EmptySet
  <2> HIDE DEF n, k
  <2> QED
    BY <1>1, <2>2
<1> HIDE DEF n, k
<1>3. s \in Seq(Int) /\ t \in Seq(Int) /\ Len(s) = n /\ Len(t) = k
  <2>1. s \in [1..n -> Int] /\ t \in [1..k -> Int]
    BY <1>1
  <2> QED
    BY <1>1, <2>1
<1>4. /\ r \in [1..(n + k) -> A \cup B]
      /\ \A i \in 1..n : r[i] = s[i] /\ r[i] \in A
      /\ \A i \in (n + 1)..(n + k) : i - n \in 1..k /\ r[i] = t[i - n] /\ r[i] \in B
  <2>1. r \in [1..(n + k) -> Int]
    <3>1. r \in Seq(Int) /\ Len(r) = n + k
      BY <1>3
    <3> HIDE DEF r
    <3> QED
      BY <3>1
  <2>2. \A i \in 1..n : r[i] = s[i] /\ r[i] \in A
    BY <1>1, <1>3
  <2>3. \A i \in (n + 1)..(n + k) : i - n \in 1..k /\ r[i] = t[i - n] /\ r[i] \in B
    BY <1>1, <1>3
  <2>4. \A i \in 1..(n + k) : i \in 1..n \/ i \in (n + 1)..(n + k)
    BY <1>1
  <2>5. \A i \in 1..(n + k) : r[i] \in A \cup B
    BY <2>2, <2>3, <2>4
  <2> HIDE DEF r
  <2>6. r = [i \in 1..(n + k) |-> r[i]]
    BY <1>1, <2>1
  <2> QED
    BY <2>2, <2>3, <2>5, <2>6
<1>5. Decreasing(r)
  <2> HIDE DEF r
  <2> SUFFICES ASSUME NEW i \in 1..(n + k), NEW j \in 1..(n + k), i < j
               PROVE  r[i] > r[j]
    BY <1>4 DEF Decreasing
  <2>1. CASE i \in 1..n /\ j \in 1..n
    BY <1>1, <1>4, <2>1 DEF ListsDown, Decreasing
  <2>2. CASE i \in 1..n /\ j \in (n + 1)..(n + k)
    BY <1>4, <2>2
  <2>3. CASE i \in (n + 1)..(n + k) /\ j \in (n + 1)..(n + k)
    <3>1. i - n \in 1..k /\ j - n \in 1..k /\ i - n < j - n /\ DOMAIN t = 1..k
      BY <1>1, <1>4, <2>3
    <3>2. t[i - n] > t[j - n]
      BY <3>1 DEF ListsDown, Decreasing
    <3> QED
      BY <1>4, <2>3, <3>2
  <2> QED
    BY <1>1, <2>1, <2>2, <2>3
<1> QED
  BY <1>2, <1>3, <1>4, <1>5 DEF ListsDown
=============================================================================
