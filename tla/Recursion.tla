----------------------------- MODULE Recursion -----------------------------
(***************************************************************************)
(* Induction over a set of naturals, and the existence of functions that   *)
(* are defined by recursion, as the proofs about lists, heaps and closures *)
(* need them.  The library's theorems take an operator as a parameter;     *)
(* here a predicate is a set and a step is a function.                     *)
(***************************************************************************)
EXTENDS FiniteSetTheorems, TLAPS

LEMMA LeastNatural ==
    ASSUME NEW T \in SUBSET Nat, T # {}
    PROVE  \E m \in T : \A k \in T : m <= k
<1> DEFINE Q == {0 .. n : n \in T}
<1>1. Q \subseteq FiniteSubsetsOf(Nat) /\ Q # {}
  <2>1. ASSUME NEW n \in T PROVE 0 .. n \in FiniteSubsetsOf(Nat)
    <3>1. n \in Int /\ 0 .. n \subseteq Nat OBVIOUS
    <3>2. IsFiniteSet(0 .. n) BY <3>1, FS_Interval
    <3> QED BY <3>1, <3>2 DEF FiniteSubsetsOf
  <2> QED BY <2>1
<1>2. \E x \in Q : \A y \in Q : ~ (<<y, x>> \in StrictSubsetOrdering(Nat))
  BY <1>1, FS_StrictSubsetOrderingWellFounded, WFMin
<1>3. PICK m \in T : \A k \in T : ~ (<<0 .. k, 0 .. m>> \in StrictSubsetOrdering(Nat))
  BY <1>2
<1>4. ASSUME NEW k \in T PROVE m <= k
  <2> SUFFICES ASSUME k < m PROVE FALSE OBVIOUS
  <2>1. 0 .. k \subseteq 0 .. m /\ 0 .. k # 0 .. m
    <3>1. m \in 0 .. m /\ m \notin 0 .. k OBVIOUS
    <3> QED BY <3>1
  <2>2. <<0 .. k, 0 .. m>> \in StrictSubsetOrdering(Nat)
    <3>1. <<0 .. k, 0 .. m>> \in (SUBSET Nat) \X (SUBSET Nat) OBVIOUS
    <3> QED BY <2>1, <3>1 DEF StrictSubsetOrdering
  <2> QED BY <1>3, <2>2
<1> QED BY <1>4

LEMMA IntervalInduction ==
    ASSUME NEW lo \in Nat, NEW hi \in Nat, NEW S,
           lo \in S,
           \A n \in S : n \in lo .. hi - 1 => n + 1 \in S
    PROVE  \A n \in lo .. hi : n \in S
<1> SUFFICES ASSUME {n \in lo .. hi : n \notin S} # {} PROVE FALSE OBVIOUS
<1> DEFINE T == {n \in lo .. hi : n \notin S}
<1>1. PICK m \in T : \A k \in T : m <= k
  <2>1. T \in SUBSET Nat OBVIOUS
  <2> QED BY <2>1, LeastNatural
<1>2. m # lo /\ m - 1 \in lo .. hi /\ m - 1 \notin T BY <1>1
<1> QED BY <1>1, <1>2

\* f starts with a and goes on with g.
IsRecursion(f, lo, hi, a, g) ==
    \A n \in lo .. hi : f[n] = IF n = lo THEN a ELSE g[<<n, f[n - 1]>>]

\* Such a function exists.
LEMMA RecursiveFunction ==
    ASSUME NEW V, NEW lo \in Nat, NEW hi \in Nat, NEW a \in V,
           NEW g \in [Nat \X V -> V]
    PROVE  \E f \in [lo .. hi -> V] : IsRecursion(f, lo, hi, a, g)
<1> USE DEF IsRecursion
<1> DEFINE Rec(f, k) == \A n \in lo .. k : f[n] = IF n = lo THEN a ELSE g[<<n, f[n - 1]>>]
           S == {k \in Nat : \E f \in [lo .. k -> V] : Rec(f, k)}
<1>1. lo \in S
  <2>1. [n \in lo .. lo |-> a] \in [lo .. lo -> V] /\ Rec([n \in lo .. lo |-> a], lo)
    OBVIOUS
  <2> QED BY <2>1
<1>2. ASSUME NEW k \in S, k \in lo .. hi - 1 PROVE k + 1 \in S
  <2>1. PICK e \in [lo .. k -> V] : Rec(e, k) OBVIOUS
  <2> DEFINE h == [n \in lo .. k + 1 |-> IF n = k + 1 THEN g[<<n, e[k]>>] ELSE e[n]]
  <2>2. k \in lo .. k /\ e[k] \in V /\ <<k + 1, e[k]>> \in Nat \X V BY <1>2
  <2>3. h \in [lo .. k + 1 -> V] BY <2>2, <1>2
  <2>4. ASSUME NEW n \in lo .. k + 1 PROVE h[n] = IF n = lo THEN a ELSE g[<<n, h[n - 1]>>]
    <3>1. CASE n = k + 1 BY <3>1, <1>2
    <3>2. CASE n # k + 1
      <4>1. n \in lo .. k /\ h[n] = e[n] BY <3>2
      <4>2. n # lo => n - 1 \in lo .. k + 1 /\ h[n - 1] = e[n - 1] BY <4>1
      <4> QED BY <2>1, <4>1, <4>2
    <3> QED BY <3>1, <3>2
  <2>5. Rec(h, k + 1) BY <2>4
  <2>6. \E d \in [lo .. k + 1 -> V] : Rec(d, k + 1)
    <3> HIDE DEF h, Rec
    <3> QED BY <2>3, <2>5
  <2> QED BY <2>6
<1>3. CASE lo <= hi
  <2>1. \A n \in lo .. hi : n \in S
    <3> HIDE DEF S
    <3> QED BY <1>1, <1>2, IntervalInduction
  <2> QED BY <1>3, <2>1
<1>4. CASE lo > hi
  <2>1. lo .. hi = {} BY <1>4
  <2>2. [n \in lo .. hi |-> a] \in [lo .. hi -> V] OBVIOUS
  <2> QED BY <2>1, <2>2
<1> QED BY <1>3, <1>4

-----------------------------------------------------------------------------
\* A step that adds to a set is repeated until nothing is added.
Adds(s, X) == s \in [SUBSET X -> SUBSET X] /\ \A T \in SUBSET X : T \subseteq s[T]

Fixpoint(f, s, X) ==
    \A T \in SUBSET X : f[T] = IF s[T] = T THEN T ELSE f[s[T]]

\* Induction downwards from the whole set.
LEMMA GrowthInduction ==
    ASSUME NEW X, IsFiniteSet(X), NEW P,
           \A T \in SUBSET X :
               (\A U \in SUBSET X : T \subseteq U /\ T # U => U \in P) => T \in P
    PROVE  \A T \in SUBSET X : T \in P
<1> SUFFICES ASSUME NEW B \in SUBSET X, B \notin P PROVE FALSE OBVIOUS
<1> DEFINE Q == {W \in SUBSET X : X \ W \notin P}
<1>1. Q \subseteq FiniteSubsetsOf(X) /\ Q # {}
  <2>1. ASSUME NEW T \in SUBSET X PROVE T \in FiniteSubsetsOf(X)
    BY FS_Subset DEF FiniteSubsetsOf
  <2>2. X \ B \in SUBSET X OBVIOUS
  <2>3. X \ (X \ B) = B BY B \in SUBSET X
  <2>4. X \ (X \ B) \notin P
    <3> DEFINE C == X \ (X \ B)
    <3>1. C = B BY <2>3
    <3> HIDE DEF C
    <3>2. C \notin P BY <3>1
    <3> QED BY <3>2 DEF C
  <2>5. X \ B \in Q BY <2>2, <2>4, Zenon
  <2> QED BY <2>1, <2>5
<1>2. \E x \in Q : \A y \in Q : ~ (<<y, x>> \in StrictSubsetOrdering(X))
  <2> HIDE DEF Q
  <2> QED BY <1>1, FS_StrictSubsetOrderingWellFounded, WFMin
<1>3. PICK W \in SUBSET X : /\ X \ W \notin P
                           /\ \A y \in SUBSET X : X \ y \notin P =>
                                ~ (<<y, W>> \in StrictSubsetOrdering(X))
  BY <1>2
<1> DEFINE T == X \ W
<1>4. ASSUME NEW U \in SUBSET X, T \subseteq U, T # U PROVE U \in P
  <2>1. X \ U \subseteq W /\ X \ U # W BY <1>4
  <2>2. <<X \ U, W>> \in (SUBSET X) \X (SUBSET X) OBVIOUS
  <2>3. <<X \ U, W>> \in StrictSubsetOrdering(X)
    BY <2>1, <2>2 DEF StrictSubsetOrdering
  <2>4. X \ (X \ U) = U OBVIOUS
  <2> QED BY <1>3, <2>3, <2>4
<1>5. T \in SUBSET X /\ T \notin P BY <1>3
<1> QED BY <1>4, <1>5

LEMMA FixpointExists ==
    ASSUME NEW X, IsFiniteSet(X), NEW s, Adds(s, X)
    PROVE  \E f \in [SUBSET X -> SUBSET X] : Fixpoint(f, s, X)
<1> DEFINE N == Cardinality(X)
           V == [SUBSET X -> SUBSET X]
           id == [T \in SUBSET X |-> T]
           g == [x \in Nat \X V |-> [T \in SUBSET X |-> s[x[2][T]]]]
<1>1. N \in Nat /\ N + 1 \in Nat BY FS_CardinalityType
<1>2. s \in V /\ \A T \in SUBSET X : T \subseteq s[T] /\ s[T] \in SUBSET X
  BY DEF Adds
<1>3. id \in V /\ g \in [Nat \X V -> V]
  <2>1. ASSUME NEW x \in Nat \X V PROVE [T \in SUBSET X |-> s[x[2][T]]] \in V
    <3>1. x[2] \in V OBVIOUS
    <3>2. \A T \in SUBSET X : x[2][T] \in SUBSET X BY <3>1
    <3> QED BY <1>2, <3>2
  <2> HIDE DEF V
  <2>2. g \in [Nat \X V -> V] BY <2>1
  <2>3. id \in V BY DEF V
  <2> QED BY <2>2, <2>3
<1>4. PICK it \in [0 .. N + 1 -> V] : IsRecursion(it, 0, N + 1, id, g)
  <2>1. 0 \in Nat OBVIOUS
  <2> HIDE DEF id, g, V, N
  <2> QED BY <1>1, <1>3, <2>1, RecursiveFunction
<1>5. \A n \in 0 .. N + 1 : \A T \in SUBSET X : it[n][T] \in SUBSET X
  <2> SUFFICES ASSUME NEW n \in 0 .. N + 1 PROVE \A T \in SUBSET X : it[n][T] \in SUBSET X
    OBVIOUS
  <2> HIDE DEF N
  <2>1. it[n] \in V BY <1>4
  <2> QED BY <2>1
<1>6. \A T \in SUBSET X : it[0][T] = T
  <2>1. 0 \in 0 .. N + 1 BY <1>1
  <2>2. it[0] = id BY <1>4, <2>1 DEF IsRecursion
  <2> QED BY <2>2
<1>7. \A n \in 0 .. N : \A T \in SUBSET X : it[n + 1][T] = s[it[n][T]]
  <2> SUFFICES ASSUME NEW n \in 0 .. N, NEW T \in SUBSET X PROVE it[n + 1][T] = s[it[n][T]]
    OBVIOUS
  <2>1. n + 1 \in 0 .. N + 1 /\ n + 1 # 0 /\ (n + 1) - 1 = n /\ n \in 0 .. N + 1 /\ n + 1 \in Nat
    BY <1>1
  <2>2. it[n + 1] = g[<<n + 1, it[n]>>]
    <3> HIDE DEF g, id, N
    <3> QED BY <1>4, <2>1 DEF IsRecursion
  <2>3. <<n + 1, it[n]>> \in Nat \X V
    <3> HIDE DEF V, N
    <3> QED BY <1>4, <2>1
  <2> HIDE DEF V, N
  <2>4. g[<<n + 1, it[n]>>] = [U \in SUBSET X |-> s[it[n][U]]] BY <2>3
  <2> QED BY <2>2, <2>4
<1> HIDE DEF V, g, id
<1>8. \A n \in 0 .. N : \A T \in SUBSET X : it[n + 1][T] = it[n][s[T]]
  <2> DEFINE J == {n \in 0 .. N : \A T \in SUBSET X : it[n + 1][T] = it[n][s[T]]}
  <2>1. 0 \in J
    <3>1. 0 \in 0 .. N BY <1>1
    <3> QED BY <1>2, <1>6, <1>7, <3>1
  <2>2. ASSUME NEW n \in J, n \in 0 .. N - 1 PROVE n + 1 \in J
    <3>1. n \in 0 .. N /\ n + 1 \in 0 .. N BY <1>1, <2>2
    <3>2. ASSUME NEW T \in SUBSET X PROVE it[(n + 1) + 1][T] = it[n + 1][s[T]]
      <4>1. it[(n + 1) + 1][T] = s[it[n + 1][T]] BY <1>7, <3>1
      <4>2. it[n + 1][s[T]] = s[it[n][s[T]]] BY <1>2, <1>7, <3>1
      <4> QED BY <4>1, <4>2
    <3> QED BY <3>1, <3>2
  <2> HIDE DEF J
  <2>3. \A n \in 0 .. N : n \in J
    <3>1. 0 \in Nat OBVIOUS
    <3> HIDE DEF N
    <3> QED BY <1>1, <2>1, <2>2, <3>1, IntervalInduction
  <2> QED BY <2>3 DEF J
<1>9. \A n \in 0 .. N : \A T \in SUBSET X :
         s[it[n][T]] = it[n][T] \/ Cardinality(it[n][T]) >= n
  <2> DEFINE Claim(n, T) == s[it[n][T]] = it[n][T] \/ Cardinality(it[n][T]) >= n
             J == {n \in 0 .. N : \A T \in SUBSET X : Claim(n, T)}
  <2>0. \A T \in SUBSET X : IsFiniteSet(T) /\ Cardinality(T) \in Nat
    BY FS_Subset, FS_CardinalityType
  <2>1. 0 \in J
    <3>1. 0 \in 0 .. N BY <1>1
    <3> HIDE DEF N
    <3>2. \A T \in SUBSET X : Cardinality(it[0][T]) >= 0 BY <1>6, <2>0
    <3> QED BY <3>1, <3>2
  <2>2. ASSUME NEW n \in J, n \in 0 .. N - 1 PROVE n + 1 \in J
    <3>1. n \in 0 .. N /\ n + 1 \in 0 .. N /\ n \in 0 .. N + 1 /\ n \in Nat BY <1>1, <2>2
    <3>2. ASSUME NEW T \in SUBSET X PROVE Claim(n + 1, T)
      <4> DEFINE U == it[n][T]
                 W == it[n + 1][T]
      <4>1. U \in SUBSET X /\ W = s[U] /\ U \subseteq W /\ W \in SUBSET X
        BY <1>2, <1>5, <1>7, <3>1
      <4>2. CASE W = U
        <5>1. s[W] = W BY <4>1, <4>2
        <5> QED BY <5>1
      <4>3. CASE W # U
        <5>1. Cardinality(U) >= n
          <6>1. Claim(n, T) OBVIOUS
          <6> QED BY <4>1, <4>3, <6>1
        <5>2. Cardinality(U) < Cardinality(W)
          <6>1. U \subseteq W /\ IsFiniteSet(W) BY <2>0, <4>1
          <6> HIDE DEF U, W
          <6>2. Cardinality(U) <= Cardinality(W) /\ Cardinality(U) # Cardinality(W)
            BY <4>3, <6>1, FS_Subset
          <6> QED BY <2>0, <4>1, <6>2
        <5>3. Cardinality(U) \in Nat /\ Cardinality(W) \in Nat BY <2>0, <4>1
        <5> HIDE DEF U, N
        <5>4. Cardinality(W) >= n + 1 BY <3>1, <5>1, <5>2, <5>3
        <5> QED BY <5>4
      <4> HIDE DEF Claim
      <4> QED BY <4>2, <4>3
    <3> HIDE DEF Claim, N
    <3> QED BY <3>1, <3>2
  <2> HIDE DEF J
  <2>3. \A n \in 0 .. N : n \in J
    <3>1. 0 \in Nat OBVIOUS
    <3> HIDE DEF N
    <3> QED BY <1>1, <2>1, <2>2, <3>1, IntervalInduction
  <2> QED BY <2>3 DEF J
<1>10. \A T \in SUBSET X : s[it[N][T]] = it[N][T]
  <2> SUFFICES ASSUME NEW T \in SUBSET X PROVE s[it[N][T]] = it[N][T] OBVIOUS
  <2>1. N \in 0 .. N /\ N \in 0 .. N + 1 BY <1>1
  <2> DEFINE U == it[N][T]
  <2>2. U \in SUBSET X BY <1>5, <2>1
  <2>3. CASE Cardinality(U) >= N
    <3> HIDE DEF U
    <3>1. Cardinality(U) <= N /\ (Cardinality(U) = N => U = X) BY <2>2, FS_Subset
    <3>2. Cardinality(U) \in Nat BY <2>2, FS_Subset, FS_CardinalityType
    <3>3. U = X BY <1>1, <2>3, <3>1, <3>2
    <3> QED BY <1>2, <2>2, <3>3 DEF U
  <2> QED BY <1>9, <2>1, <2>3
<1>11. \A n \in 0 .. N + 1 : \A T \in SUBSET X : s[T] = T => it[n][T] = T
  <2> DEFINE J == {n \in 0 .. N + 1 : \A T \in SUBSET X : s[T] = T => it[n][T] = T}
  <2>1. 0 \in J
    <3>1. 0 \in 0 .. N + 1 BY <1>1
    <3> QED BY <1>6, <3>1
  <2>2. ASSUME NEW n \in J, n \in 0 .. (N + 1) - 1 PROVE n + 1 \in J
    <3>1. n \in 0 .. N /\ n + 1 \in 0 .. N + 1 BY <1>1, <2>2
    <3> QED BY <1>7, <3>1
  <2> HIDE DEF J
  <2>3. \A n \in 0 .. N + 1 : n \in J
    <3>1. 0 \in Nat OBVIOUS
    <3> HIDE DEF N
    <3> QED BY <1>1, <2>1, <2>2, <3>1, IntervalInduction
  <2> QED BY <2>3 DEF J
<1>12. N \in 0 .. N /\ N + 1 \in 0 .. N + 1 BY <1>1
<1>13. it[N + 1] \in [SUBSET X -> SUBSET X] BY <1>4, <1>12 DEF V
<1>14. ASSUME NEW T \in SUBSET X
       PROVE  it[N + 1][T] = IF s[T] = T THEN T ELSE it[N + 1][s[T]]
  <2>1. s[T] \in SUBSET X BY <1>2
  <2>2. it[N + 1][s[T]] = s[it[N][s[T]]] BY <1>7, <1>12, <2>1
  <2>3. s[it[N][s[T]]] = it[N][s[T]] BY <1>10, <2>1
  <2>4. it[N + 1][T] = it[N][s[T]] BY <1>8, <1>12
  <2> QED BY <1>11, <1>12, <2>2, <2>3, <2>4
<1> QED BY <1>13, <1>14 DEF Fixpoint

=============================================================================
