---------------------------- MODULE InductionProofs ----------------------------
(***************************************************************************)
(* What the proofs of several components rest on: induction over numbers   *)
(* without an operator as a parameter, functions defined by recursion over *)
(* numbers, greatest elements, ranks and permutations of finite sets.      *)
(***************************************************************************)
EXTENDS Integers, FiniteSets, Functions, FiniteSetTheorems, FunctionTheorems, WellFoundedInduction, NaturalsInduction, TLAPS

-----------------------------------------------------------------------------
(***************************************************************************)
(* Induction over numbers: a set of numbers has a least one.               *)
(***************************************************************************)
LEMMA Least ==
    ASSUME NEW T \in SUBSET Nat, T # {}
    PROVE  \E x \in T : \A y \in T : x <= y
<1> DEFINE R == OpToRel(<, Nat)
<1>0. IsWellFoundedOn(R, Nat)
  BY NatLessThanWellFounded
<1>2. \A x, y \in Nat : <<y, x>> \in R <=> y < x
  BY DEF OpToRel
<1> HIDE DEF R
<1>1. PICK x \in T : \A y \in T : ~(<<y, x>> \in R)
  BY <1>0, WFMin
<1>3. x \in Nat /\ \A y \in T : y \in Nat /\ ~(y < x)
  BY <1>1, <1>2
<1>4. \A y \in T : x <= y
  BY <1>3
<1> QED
  BY <1>4

\* What holds of 0 and goes over from each number to the next holds of all.
LEMMA Induction ==
    ASSUME NEW T, 0 \in T, \A n \in Nat : n \in T => n + 1 \in T
    PROVE  Nat \subseteq T
<1> SUFFICES ASSUME Nat \ T # {} PROVE FALSE
  OBVIOUS
<1>1. PICK n \in Nat \ T : \A m \in Nat \ T : n <= m
  BY Least
<1>2. n - 1 \in Nat
  BY <1>1
<1>3. n - 1 \in T
  BY <1>1, <1>2
<1>4. (n - 1) + 1 = n
  BY <1>1
<1> QED
  BY <1>1, <1>2, <1>3, <1>4

\* g goes from a by the function F.
Iterates(g, S, F, a) == g \in [Nat -> S] /\ g[0] = a /\ \A n \in Nat : g[n + 1] = F[g[n]]

LEMMA Iteration ==
    ASSUME NEW S, NEW F \in [S -> S], NEW a \in S
    PROVE  \E g : Iterates(g, S, F, a)
<1> DEFINE Begins(g, n) == g \in [0..n -> S] /\ g[0] = a /\ \A i \in 1..n : g[i] = F[g[i - 1]]
           Some == {n \in Nat : \E g : Begins(g, n)}
           Next1(g, n) == [i \in 0..n + 1 |-> IF i <= n THEN g[i] ELSE F[g[n]]]
<1>1. Nat \subseteq Some
  <2>1. 0 \in Some
    <3>1. Begins([i \in 0..0 |-> a], 0)
      OBVIOUS
    <3> QED
      BY <3>1
  <2>2. ASSUME NEW n \in Nat, n \in Some PROVE n + 1 \in Some
    <3>1. PICK g : Begins(g, n)
      BY <2>2
    <3>2. Begins(Next1(g, n), n + 1)
      <4>1. Next1(g, n) \in [0..n + 1 -> S]
        BY <3>1
      <4>2. Next1(g, n)[0] = a
        BY <3>1
      <4>3. ASSUME NEW i \in 1..n + 1 PROVE Next1(g, n)[i] = F[Next1(g, n)[i - 1]]
        <5>1. CASE i \in 1..n
          BY <3>1, <5>1
        <5>2. CASE i = n + 1
          BY <3>1, <5>2
        <5> QED
          BY <5>1, <5>2
      <4> QED
        BY <4>1, <4>2, <4>3
    <3> QED
      BY SMTT(30), <3>2
  <2> HIDE DEF Some
  <2> QED
    BY <2>1, <2>2, Induction
<1>2. ASSUME NEW n \in Nat, NEW m \in Nat, NEW g, NEW h, Begins(g, n), Begins(h, m)
      PROVE  \A i \in Nat : i <= n /\ i <= m => g[i] = h[i]
  <2> DEFINE Same == {i \in Nat : i <= n /\ i <= m => g[i] = h[i]}
  <2>1. 0 \in Same
    BY <1>2
  <2>2. ASSUME NEW i \in Nat, i \in Same PROVE i + 1 \in Same
    <3> SUFFICES ASSUME i + 1 <= n, i + 1 <= m PROVE g[i + 1] = h[i + 1]
      OBVIOUS
    <3>1. g[i] = h[i]
      BY <2>2
    <3>2. i + 1 \in 1..n /\ i + 1 \in 1..m /\ (i + 1) - 1 = i
      OBVIOUS
    <3> QED
      BY <1>2, <3>1, <3>2
  <2> HIDE DEF Same
  <2>3. Nat \subseteq Same
    BY <2>1, <2>2, Induction
  <2> QED
    BY <2>3 DEF Same
<1> DEFINE f == [n \in Nat |-> (CHOOSE g : Begins(g, n))[n]]
<1>3. \A n \in Nat : Begins(CHOOSE g : Begins(g, n), n)
  BY <1>1
<1> HIDE DEF Begins
<1>4. ASSUME NEW n \in Nat PROVE f[n] \in S /\ (n = 0 => f[n] = a)
  <2> DEFINE g == CHOOSE g : Begins(g, n)
  <2>1. Begins(g, n) /\ f[n] = g[n]
    BY <1>3
  <2> HIDE DEF g, f
  <2> QED
    BY <2>1 DEF Begins
<1>5. f[0] = a
  BY <1>4
<1>6. ASSUME NEW n \in Nat, n # 0 PROVE f[n] = F[f[n - 1]]
  <2> DEFINE g == CHOOSE g : Begins(g, n)
             h == CHOOSE h : Begins(h, n - 1)
  <2>1. Begins(g, n) /\ Begins(h, n - 1) /\ n - 1 \in Nat
    BY <1>3, <1>6
  <2>2. f[n] = g[n] /\ f[n - 1] = h[n - 1]
    BY <2>1
  <2> HIDE DEF g, h
  <2>3. g[n] = F[g[n - 1]]
    BY <1>6, <2>1 DEF Begins
  <2>4. g[n - 1] = h[n - 1]
    BY <1>2, <2>1
  <2> QED
    BY <2>2, <2>3, <2>4
<1> HIDE DEF f
<1>7. f \in [Nat -> S]
  BY <1>4 DEF f
<1>8. \A n \in Nat : f[n + 1] = F[f[n]]
  <2> SUFFICES ASSUME NEW n \in Nat PROVE f[n + 1] = F[f[n]]
    OBVIOUS
  <2>1. n + 1 \in Nat /\ n + 1 # 0 /\ (n + 1) - 1 = n
    OBVIOUS
  <2> QED
    BY <1>6, <2>1
<1> QED
  BY <1>5, <1>7, <1>8 DEF Iterates


\* Induction up to N.
LEMMA Upwards ==
    ASSUME NEW N \in Nat, NEW T, 0 \in T, \A k \in 1..N : k - 1 \in T => k \in T
    PROVE  0..N \subseteq T
<1> DEFINE U == {n \in Nat : n <= N => n \in T}
<1>1. 0 \in U
  OBVIOUS
<1>2. ASSUME NEW n \in Nat, n \in U PROVE n + 1 \in U
  <2> SUFFICES ASSUME n + 1 <= N PROVE n + 1 \in T
    OBVIOUS
  <2>1. n \in T /\ n + 1 \in 1..N /\ (n + 1) - 1 = n
    BY <1>2
  <2> QED
    BY <2>1
<1> HIDE DEF U
<1>3. Nat \subseteq U
  BY <1>1, <1>2, Induction
<1> QED
  BY <1>3 DEF U

\* g[n] is what start has become by the first n steps of F.
Becomes(g, S, N, F, start) ==
    /\ g \in [0..N -> S] /\ g[0] = start
    /\ \A k \in 1..N : g[k] = F[<<g[k - 1], k>>]

\* A recursion over 0..N whose steps know where they are.
LEMMA Folding ==
    ASSUME NEW S, NEW N \in Nat, NEW F \in [S \X (1..N) -> S], NEW start \in S
    PROVE  \E g : Becomes(g, S, N, F, start)
<1> DEFINE Some(n) == \E g : Becomes(g, S, n, F, start)
           T == {n \in 0..N : Some(n)}
           Longer(g, n) == [k \in 0..n |-> IF k < n THEN g[k] ELSE F[<<g[n - 1], n>>]]
<1>1. Some(0)
  <2>1. Becomes([k \in 0..0 |-> start], S, 0, F, start)
    BY DEF Becomes
  <2> QED
    BY <2>1
<1>2. ASSUME NEW n \in 1..N, Some(n - 1) PROVE Some(n)
  <2>1. PICK g : Becomes(g, S, n - 1, F, start)
    BY <1>2
  <2>2. /\ g[n - 1] \in S /\ \A k \in 0..n - 1 : g[k] \in S
        /\ g[0] = start /\ \A k \in 1..n - 1 : g[k] = F[<<g[k - 1], k>>]
    BY <2>1 DEF Becomes
  <2>3. F[<<g[n - 1], n>>] \in S
    BY <2>2
  <2>4. Longer(g, n) \in [0..n -> S]
    BY <2>2, <2>3
  <2>5. Longer(g, n)[0] = start
    BY <2>2
  <2>6. ASSUME NEW k \in 1..n PROVE Longer(g, n)[k] = F[<<Longer(g, n)[k - 1], k>>]
    <3>1. k - 1 \in 0..n /\ k - 1 < n /\ k \in 0..n
      OBVIOUS
    <3>2. Longer(g, n)[k - 1] = g[k - 1]
      BY <3>1
    <3>3. CASE k < n
      <4>1. Longer(g, n)[k] = g[k] /\ k \in 1..n - 1
        BY <3>1, <3>3
      <4> QED
        BY <2>2, <3>2, <4>1
    <3>4. CASE k = n
      <4>1. Longer(g, n)[k] = F[<<g[n - 1], n>>]
        BY <3>1, <3>4
      <4> QED
        BY <3>2, <3>4, <4>1
    <3> QED
      BY <3>3, <3>4
  <2> HIDE DEF Longer
  <2>7. Becomes(Longer(g, n), S, n, F, start)
    BY <2>4, <2>5, <2>6 DEF Becomes
  <2> QED
    BY <2>7
<1> HIDE DEF Some
<1>3. 0 \in T /\ \A n \in 1..N : n - 1 \in T => n \in T
  BY <1>1, <1>2
<1> HIDE DEF T
<1>4. N \in T
  <2>1. 0..N \subseteq T
    BY <1>3, Upwards
  <2> QED
    BY <2>1
<1> QED
  BY <1>4 DEF T, Some

\* Of finitely many numbers one is the greatest.
LEMMA Greatest ==
    ASSUME NEW S, IsFiniteSet(S), S # {}, NEW f \in [S -> Int]
    PROVE  \E m \in S : \A n \in S : f[n] <= f[m]
<1> DEFINE Above(m) == {n \in S : f[n] > f[m]}
           T == {Cardinality(Above(m)) : m \in S}
<1>1. \A m \in S : IsFiniteSet(Above(m)) /\ Cardinality(Above(m)) \in Nat
  <2> SUFFICES ASSUME NEW m \in S PROVE IsFiniteSet(Above(m)) /\ Cardinality(Above(m)) \in Nat
    OBVIOUS
  <2>1. Above(m) \in SUBSET S
    OBVIOUS
  <2> HIDE DEF Above
  <2> QED
    BY <2>1, FS_Subset, FS_CardinalityType
<1>2. PICK t \in T : \A u \in T : t <= u
  <2>1. T \in SUBSET Nat /\ T # {}
    BY <1>1
  <2> HIDE DEF T
  <2> QED
    BY <2>1, Least
<1>3. PICK m \in S : \A n \in S : Cardinality(Above(m)) <= Cardinality(Above(n))
  <2>1. PICK m \in S : t = Cardinality(Above(m))
    BY <1>2
  <2>2. \A n \in S : Cardinality(Above(n)) \in T
    OBVIOUS
  <2> HIDE DEF T, Above
  <2>3. \A n \in S : Cardinality(Above(m)) <= Cardinality(Above(n))
    BY <1>2, <2>1, <2>2
  <2> QED
    BY <2>3
<1>4. ASSUME NEW n \in S, f[n] > f[m] PROVE FALSE
  <2>1. Above(n) \in SUBSET Above(m) /\ n \in Above(m) /\ n \notin Above(n)
    BY <1>4
  <2> HIDE DEF Above
  <2>2. Cardinality(Above(n)) <= Cardinality(Above(m)) /\ Cardinality(Above(n)) # Cardinality(Above(m))
    BY <1>1, <2>1, FS_Subset
  <2> QED
    BY <1>1, <1>3, <2>2
<1> QED
  BY <1>4

-----------------------------------------------------------------------------
(***************************************************************************)
(* Ranks: a relation that orders a finite set numbers its elements.        *)
(***************************************************************************)
Preceding(R, S, w) == {v \in S : <<v, w>> \in R}

\* R is a strict total order of S.
Ordering(R, S) ==
    /\ \A u, v, w \in S : <<u, v>> \in R /\ <<v, w>> \in R => <<u, w>> \in R
    /\ \A v, w \in S : ~(<<v, w>> \in R /\ <<w, v>> \in R)
    /\ \A v, w \in S : v = w \/ <<v, w>> \in R \/ <<w, v>> \in R

LEMMA PrecedingType ==
    ASSUME NEW S, IsFiniteSet(S), NEW R, NEW w
    PROVE  IsFiniteSet(Preceding(R, S, w)) /\ Cardinality(Preceding(R, S, w)) \in Nat
<1>1. Preceding(R, S, w) \in SUBSET S
  BY DEF Preceding
<1> QED
  BY <1>1, FS_Subset, FS_CardinalityType

LEMMA PrecedingGrows ==
    ASSUME NEW S, IsFiniteSet(S), NEW R, Ordering(R, S), NEW v \in S, NEW w \in S, <<v, w>> \in R
    PROVE  Cardinality(Preceding(R, S, v)) < Cardinality(Preceding(R, S, w))
<1>1. Preceding(R, S, v) \in SUBSET Preceding(R, S, w)
  BY DEF Preceding, Ordering
<1>2. v \in Preceding(R, S, w) /\ v \notin Preceding(R, S, v)
  BY DEF Preceding, Ordering
<1>3. /\ Cardinality(Preceding(R, S, v)) \in Nat /\ Cardinality(Preceding(R, S, w)) \in Nat
      /\ IsFiniteSet(Preceding(R, S, w))
  BY PrecedingType
<1>4. /\ Cardinality(Preceding(R, S, v)) <= Cardinality(Preceding(R, S, w))
      /\ Cardinality(Preceding(R, S, w)) = Cardinality(Preceding(R, S, v)) => Preceding(R, S, w) = Preceding(R, S, v)
  BY <1>1, <1>3, FS_Subset
<1> QED
  BY <1>2, <1>3, <1>4

\* The ranks are the numbers below the size of the set, each one once.
LEMMA Ranks ==
    ASSUME NEW S, IsFiniteSet(S), NEW R, Ordering(R, S)
    PROVE  /\ Cardinality(S) \in Nat
           /\ [w \in S |-> Cardinality(Preceding(R, S, w))] \in Bijection(S, 0..Cardinality(S) - 1)
<1> DEFINE rank == [w \in S |-> Cardinality(Preceding(R, S, w))]
           T == 0..Cardinality(S) - 1
<1>1. Cardinality(S) \in Nat
  BY FS_CardinalityType
<1>2. rank \in [S -> T]
  <2> SUFFICES ASSUME NEW w \in S PROVE Cardinality(Preceding(R, S, w)) \in T
    OBVIOUS
  <2>1. Preceding(R, S, w) \in SUBSET S /\ w \notin Preceding(R, S, w)
    BY DEF Preceding, Ordering
  <2>2. Cardinality(Preceding(R, S, w)) \in Nat
    BY PrecedingType
  <2>3. /\ Cardinality(Preceding(R, S, w)) <= Cardinality(S)
        /\ Cardinality(S) = Cardinality(Preceding(R, S, w)) => S = Preceding(R, S, w)
    BY <2>1, FS_Subset
  <2> QED
    BY <1>1, <2>1, <2>2, <2>3
<1>3. ASSUME NEW v \in S, NEW w \in S, rank[v] = rank[w] PROVE v = w
  <2>1. Cardinality(Preceding(R, S, v)) = Cardinality(Preceding(R, S, w))
    BY <1>3
  <2>2. Cardinality(Preceding(R, S, v)) \in Nat
    BY PrecedingType
  <2>3. <<v, w>> \notin R /\ <<w, v>> \notin R
    BY <2>1, <2>2, PrecedingGrows
  <2> QED
    BY <2>3 DEF Ordering
<1> HIDE DEF rank
<1>4. rank \in Injection(S, T)
  BY <1>2, <1>3, Fun_IsInj
<1>5. IsFiniteSet(T) /\ Cardinality(T) = Cardinality(S)
  <2>1. 0 \in Int /\ Cardinality(S) - 1 \in Int
    BY <1>1
  <2>2. /\ IsFiniteSet(T)
        /\ Cardinality(T) = IF 0 > Cardinality(S) - 1 THEN 0 ELSE Cardinality(S) - 1 - 0 + 1
    BY <2>1, FS_Interval
  <2> QED
    BY <1>1, <2>2
<1>6. rank \in Surjection(S, T)
  <2> HIDE DEF T
  <2> QED
    BY <1>4, <1>5, FS_Injection
<1>7. rank \in Bijection(S, T)
  BY <1>4, <1>6 DEF Bijection
<1> QED
  BY <1>1, <1>7 DEF rank

-----------------------------------------------------------------------------
(***************************************************************************)
(* Permutations: of as many values there are as before.                    *)
(***************************************************************************)
LEMMA InjectionPermutes ==
    ASSUME NEW S, IsFiniteSet(S), NEW f \in [S -> S], \A v, w \in S : f[v] = f[w] => v = w
    PROVE  \A t \in S : \E s \in S : f[s] = t
<1>1. f \in Injection(S, S)
  BY Fun_IsInj
<1>2. f \in Surjection(S, S)
  BY <1>1, FS_Injection
<1> QED
  BY <1>2, Fun_SurjectionProperties

Having(S, g, p) == {w \in S : g[w] = p}

LEMMA Permuted ==
    ASSUME NEW S, IsFiniteSet(S), NEW f \in [S -> S], \A v, w \in S : f[v] = f[w] => v = w,
           NEW g, NEW h, \A w \in S : h[w] = g[f[w]], NEW p
    PROVE  Cardinality(Having(S, h, p)) = Cardinality(Having(S, g, p))
<1> DEFINE H == {w \in S : h[w] = p}
           G == {w \in S : g[w] = p}
           F == [w \in H |-> f[w]]
<1>1. F \in [H -> G]
  OBVIOUS
<1>2. \A v, w \in H : F[v] = F[w] => v = w
  OBVIOUS
<1>3. \A t \in G : \E s \in H : F[s] = t
  <2> SUFFICES ASSUME NEW t \in G PROVE \E s \in H : F[s] = t
    OBVIOUS
  <2>1. PICK s \in S : f[s] = t
    BY InjectionPermutes
  <2>2. s \in H
    BY <2>1
  <2> QED
    BY <2>1, <2>2
<1>4. IsFiniteSet(H)
  BY FS_Subset
<1> HIDE DEF F, G, H
<1>5. F \in Bijection(H, G)
  BY <1>1, <1>2, <1>3, Fun_IsBij
<1>6. ExistsBijection(H, G)
  BY <1>5 DEF ExistsBijection
<1>7. Cardinality(G) = Cardinality(H)
  BY <1>4, <1>6, FS_Bijection
<1> QED
  BY <1>7 DEF G, H, Having

-----------------------------------------------------------------------------
(***************************************************************************)
(* The members of a finite set in the order of a key: how many come no     *)
(* later than a member is its place.                                       *)
(***************************************************************************)
Upto(at, S, w) == {v \in S : at[v] <= at[w]}

LEMMA PlacesInOrder ==
    ASSUME NEW S, IsFiniteSet(S), NEW at, \A w \in S : at[w] \in Int,
           \A v, w \in S : at[v] = at[w] => v = w
    PROVE  /\ Cardinality(S) \in Nat
           /\ \A w \in S : Cardinality(Upto(at, S, w)) \in 1..Cardinality(S)
           /\ \A v, w \in S : Cardinality(Upto(at, S, v)) = Cardinality(Upto(at, S, w)) => v = w
           /\ \A i \in 1..Cardinality(S) : \E w \in S : Cardinality(Upto(at, S, w)) = i
<1> DEFINE R == {p \in S \X S : at[p[1]] < at[p[2]]}
           n == Cardinality(S)
           rank == [w \in S |-> Cardinality(Preceding(R, S, w))]
<1>1. \A v, w \in S : <<v, w>> \in R <=> at[v] < at[w]
  OBVIOUS
<1>2. Ordering(R, S)
  <2> HIDE DEF R
  <2> QED
    BY <1>1 DEF Ordering
<1>3. \A w \in S : Upto(at, S, w) = Preceding(R, S, w) \cup {w} /\ w \notin Preceding(R, S, w)
  <2> HIDE DEF R
  <2> QED
    BY <1>1 DEF Preceding, Upto
<1> HIDE DEF R
<1>4. n \in Nat /\ rank \in Bijection(S, 0..n - 1)
  BY <1>2, Ranks
<1>5. ASSUME NEW w \in S PROVE Cardinality(Upto(at, S, w)) = rank[w] + 1
  <2>1. IsFiniteSet(Preceding(R, S, w)) /\ rank[w] = Cardinality(Preceding(R, S, w))
    BY PrecedingType
  <2> HIDE DEF rank
  <2> QED
    BY <1>3, <2>1, FS_AddElement
<1> HIDE DEF rank, n
<1>6. /\ rank \in [S -> 0..n - 1]
      /\ \A v, w \in S : rank[v] = rank[w] => v = w
      /\ \A i \in 0..n - 1 : \E w \in S : rank[w] = i
  <2> DEFINE T == 0..n - 1
  <2>1. rank \in Bijection(S, T)
    BY <1>4
  <2> HIDE DEF T
  <2>2. /\ rank \in [S -> T]
        /\ \A v, w \in S : rank[v] = rank[w] => v = w
        /\ \A i \in T : \E w \in S : rank[w] = i
    BY <2>1, Fun_BijectionProperties
  <2> QED
    BY <2>2 DEF T
<1>7. \A w \in S : Cardinality(Upto(at, S, w)) \in 1..n
  BY <1>4, <1>5, <1>6
<1>8. \A v, w \in S : Cardinality(Upto(at, S, v)) = Cardinality(Upto(at, S, w)) => v = w
  <2> SUFFICES ASSUME NEW v \in S, NEW w \in S, Cardinality(Upto(at, S, v)) = Cardinality(Upto(at, S, w)) PROVE v = w
    OBVIOUS
  <2>1. rank[v] + 1 = rank[w] + 1 /\ rank[v] \in Int /\ rank[w] \in Int
    BY <1>4, <1>5, <1>6
  <2> QED
    BY <1>6, <2>1
<1>9. \A i \in 1..n : \E w \in S : Cardinality(Upto(at, S, w)) = i
  <2> SUFFICES ASSUME NEW i \in 1..n PROVE \E w \in S : Cardinality(Upto(at, S, w)) = i
    OBVIOUS
  <2>1. i - 1 \in 0..n - 1 /\ (i - 1) + 1 = i
    BY <1>4
  <2>2. PICK w \in S : rank[w] = i - 1
    BY <1>6, <2>1
  <2> QED
    BY <1>5, <2>1, <2>2
<1> QED
  BY <1>4, <1>7, <1>8, <1>9 DEF n
================================================================================
