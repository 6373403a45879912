----------------------------- MODULE NumberProofs -----------------------------
(* Numbers in proofs: some of them have a least one, and what holds of 0 and,  *)
(* with a number, of the next one, holds of all.  Both are stated of sets, so  *)
(* that a proof can use them for what a recursive function does.  Then how     *)
(* products compare, and how many numbers a finite set has below one of its    *)
(* own.                                                                        *)
EXTENDS FiniteSetTheorems, TLAPS

Less == {p \in Nat \X Nat : p[1] < p[2]}

LEMMA LessIsWellFounded == IsWellFoundedOn(Less, Nat)
  BY NatLessThanWellFounded, Zenon DEF OpToRel, Less

\* Some numbers have a least one, and under a bound a greatest one.
LEMMA LeastExists ==
  ASSUME NEW S \in SUBSET Nat, S # {}
  PROVE  \E x \in S : \A y \in S : x <= y
<1>1. S \subseteq Nat
  OBVIOUS
<1>2. \E x \in S : \A y \in S : ~(<<y, x>> \in Less)
  BY <1>1, LessIsWellFounded, WFMin, Zenon
<1>3. PICK x \in S : \A y \in S : ~(<<y, x>> \in Less)
  BY <1>2
<1>4. ASSUME NEW y \in S PROVE x <= y
  <2>1. x \in Nat /\ y \in Nat /\ ~(<<y, x>> \in Less)
    BY <1>1, <1>3
  <2>2. y < x => <<y, x>> \in Less
    <3>1. <<y, x>> \in Nat \X Nat /\ <<y, x>>[1] = y /\ <<y, x>>[2] = x
      BY <2>1
    <3> QED
      BY <3>1, Zenon DEF Less
  <2> QED
    BY <2>1, <2>2
<1> QED
  BY <1>3, <1>4

LEMMA GreatestExists ==
  ASSUME NEW S \in SUBSET Nat, S # {}, NEW n \in Nat, \A x \in S : x <= n
  PROVE  \E x \in S : \A y \in S : y <= x
<1> DEFINE B == {b \in Nat : \A x \in S : x <= b}
<1>1. n \in B
  OBVIOUS
<1>2. PICK b \in B : \A c \in B : b <= c
  BY <1>1, LeastExists
<1>3. ASSUME b \notin S PROVE FALSE
  <2>1. b # 0
    <3> SUFFICES ASSUME b = 0 PROVE FALSE
      OBVIOUS
    <3>1. PICK x \in S : TRUE
      OBVIOUS
    <3>2. x \in Nat /\ x <= 0
      BY <1>2
    <3>3. x = b
      BY <3>2
    <3> QED
      BY <1>3, <3>3
  <2>2. b - 1 \in Nat /\ ~(b <= b - 1)
    BY <2>1
  <2>3. \A x \in S : x <= b - 1
    <3>1. ASSUME NEW x \in S PROVE x <= b - 1
      <4>1. x \in Nat /\ b \in Nat /\ x <= b /\ x # b
        BY <1>2, <1>3
      <4> QED
        BY <4>1
    <3> QED
      BY <3>1
  <2> QED
    BY <1>2, <2>2, <2>3
<1> QED
  BY <1>2, <1>3

\* What holds of 0 and, with a number, of the next one, holds of all.
LEMMA Induction ==
  ASSUME NEW A \in SUBSET Nat, 0 \in A, \A m \in A : m + 1 \in A
  PROVE  A = Nat
<1> SUFFICES ASSUME Nat \ A # {} PROVE FALSE
  OBVIOUS
<1>1. PICK x \in Nat \ A : \A y \in Nat \ A : x <= y
  BY LeastExists
<1>2. x # 0 /\ x - 1 \in Nat
  BY <1>1
<1>3. x - 1 \in A
  BY <1>1, <1>2
<1> QED
  BY <1>2, <1>3

-----------------------------------------------------------------------------
LEMMA TimesMono ==
  ASSUME NEW x \in Nat, NEW y \in Nat, NEW k \in Nat, x <= y
  PROVE  x * k <= y * k /\ k * x <= k * y
<1>1. PICK d \in Nat : y = x + d
  OBVIOUS
<1>2. y * k = x * k + d * k /\ d * k \in Nat /\ x * k \in Nat
  BY <1>1
<1> QED
  BY <1>2

LEMMA Cancel ==
  ASSUME NEW x \in Nat, NEW y \in Nat, NEW k \in Nat \ {0}
  PROVE  /\ x * k <= y * k => x <= y
         /\ x * k < y * k <=> x < y
<1>k. k \in Nat /\ k >= 1
  OBVIOUS
<1>1. ASSUME y < x PROVE y * k < x * k
  <2>1. PICK d \in Nat : x = y + 1 + d
    BY <1>1
  <2>2. x * k = y * k + k + d * k /\ d * k \in Nat /\ y * k \in Nat
    BY <1>k, <2>1
  <2> QED
    BY <1>k, <2>2
<1>2. ASSUME x < y PROVE x * k < y * k
  <2>1. PICK d \in Nat : y = x + 1 + d
    BY <1>2
  <2>2. y * k = x * k + k + d * k /\ d * k \in Nat /\ x * k \in Nat
    BY <1>k, <2>1
  <2> QED
    BY <1>k, <2>2
<1>3. x = y => x * k = y * k
  OBVIOUS
<1>4. x * k \in Nat /\ y * k \in Nat
  BY <1>k
<1> QED
  BY <1>1, <1>2, <1>3, <1>4

-----------------------------------------------------------------------------
\* A function that reaches all of T: T has no more elements than its domain, and
\* as many if none is reached twice.
LEMMA ReachedIsFinite ==
  ASSUME NEW S, NEW T, NEW f \in [S -> T], IsFiniteSet(S), \A t \in T : \E x \in S : f[x] = t
  PROVE  /\ IsFiniteSet(T) /\ Cardinality(T) <= Cardinality(S)
         /\ (\A x, y \in S : f[x] = f[y] => x = y) => Cardinality(T) = Cardinality(S)
<1>1. f \in Surjection(S, T)
  BY DEF Surjection
<1>2. IsFiniteSet(T) /\ Cardinality(T) <= Cardinality(S)
  BY <1>1, FS_Surjection
<1>3. ASSUME \A x, y \in S : f[x] = f[y] => x = y PROVE Cardinality(T) = Cardinality(S)
  <2>1. f \in Injection(S, T)
    BY <1>3 DEF Injection, IsInjective
  <2> QED
    BY <1>1, <2>1, FS_Surjection
<1> QED
  BY <1>2, <1>3

\* Of a finite set of numbers, one has exactly so many below it.
LEMMA RankExists ==
  ASSUME NEW S \in SUBSET Nat, IsFiniteSet(S), NEW m \in Nat, m < Cardinality(S)
  PROVE  \E f \in S : Cardinality({g \in S : g < f}) = m
<1> DEFINE Under(f) == {g \in S : g < f}
           A == {k \in Nat : k < Cardinality(S) => \E f \in S : Cardinality(Under(f)) = k}
<1>1. Cardinality(S) \in Nat
  BY FS_CardinalityType
<1>2. 0 \in A
  <2> SUFFICES ASSUME 0 < Cardinality(S) PROVE \E f \in S : Cardinality(Under(f)) = 0
    OBVIOUS
  <2>1. S # {}
    BY FS_EmptySet
  <2>2. PICK f \in S : \A g \in S : f <= g
    BY <2>1, LeastExists
  <2>3. Under(f) = {}
    <3>1. \A g \in S : ~(g < f)
      BY <2>2
    <3> QED
      BY <3>1
  <2>4. Cardinality(Under(f)) = 0
    BY <2>3, FS_EmptySet
  <2> QED
    BY <2>4
<1>3. ASSUME NEW k \in A PROVE k + 1 \in A
  <2> SUFFICES ASSUME k + 1 < Cardinality(S) PROVE \E f \in S : Cardinality(Under(f)) = k + 1
    OBVIOUS
  <2>1. PICK f \in S : Cardinality(Under(f)) = k
    BY <1>1
  <2> DEFINE here == Under(f) \cup {f}
             rest == S \ here
  <2>2. IsFiniteSet(Under(f)) /\ f \notin Under(f) /\ Under(f) \subseteq S
    BY FS_Subset
  <2>3. IsFiniteSet(here) /\ Cardinality(here) = k + 1 /\ here \subseteq S
    <3> HIDE DEF Under
    <3> QED
      BY <2>1, <2>2, FS_AddElement
  <2>4. rest # {}
    BY <2>3
  <2>5. PICK h \in rest : \A g \in rest : h <= g
    BY <2>4, LeastExists
  <2>6. h \in S /\ f < h
    BY <2>5
  <2>7. Under(h) = here
    <3>1. ASSUME NEW g \in S, g < h PROVE g \in here
      BY <2>5, <3>1
    <3>2. ASSUME NEW g \in here PROVE g \in S /\ g < h
      BY <2>6
    <3> QED
      BY <3>1, <3>2
  <2> HIDE DEF here, Under
  <2> QED
    BY <2>3, <2>6, <2>7
<1>4. A = Nat
  <2> HIDE DEF A
  <2>1. A \in SUBSET Nat
    BY DEF A
  <2> QED
    BY <1>2, <1>3, <2>1, Induction
<1>5. m \in A
  <2> HIDE DEF A
  <2> QED
    BY <1>4
<1> QED
  BY <1>5

\* A strict order of a finite set, given by what is under each element, ranks
\* the set: as many ranks as elements, each taken, and greater ones above.
LEMMA RanksAreTaken ==
  ASSUME NEW S, IsFiniteSet(S), NEW U \in [S -> SUBSET S],
         \A x \in S : x \notin U[x],
         \A x \in S : \A y \in U[x] : U[y] \subseteq U[x],
         \A x, y \in S : x = y \/ x \in U[y] \/ y \in U[x]
  PROVE  /\ \A x \in S : Cardinality(U[x]) \in 0..Cardinality(S) - 1
         /\ \A x \in S : \A y \in U[x] : Cardinality(U[y]) < Cardinality(U[x])
         /\ \A m \in 0..Cardinality(S) - 1 : \E x \in S : Cardinality(U[x]) = m
<1> DEFINE n == Cardinality(S)
           rank == [x \in S |-> Cardinality(U[x])]
           I == {rank[x] : x \in S}
<1>1. n \in Nat
  BY FS_CardinalityType
<1>2. ASSUME NEW T, IsFiniteSet(T), NEW V \in SUBSET T, V # T
      PROVE  Cardinality(V) \in Nat /\ Cardinality(T) \in Nat /\ Cardinality(V) < Cardinality(T)
  <2>1. IsFiniteSet(V) /\ Cardinality(V) <= Cardinality(T) /\ Cardinality(V) # Cardinality(T)
    BY <1>2, FS_Subset
  <2>2. Cardinality(V) \in Nat /\ Cardinality(T) \in Nat
    BY <1>2, <2>1, FS_CardinalityType
  <2> QED
    BY <2>1, <2>2
<1>3. ASSUME NEW x \in S
      PROVE  IsFiniteSet(U[x]) /\ rank[x] \in Nat /\ rank[x] < n
  <2>1. U[x] \in SUBSET S /\ U[x] # S
    OBVIOUS
  <2> QED
    BY <2>1, <1>2, FS_Subset
<1>4. ASSUME NEW x \in S, NEW y \in U[x]
      PROVE  rank[y] < rank[x]
  <2>1. y \in S /\ U[y] \in SUBSET U[x] /\ U[y] # U[x]
    OBVIOUS
  <2> QED
    BY <2>1, <1>2, <1>3
<1>5. \A x, y \in S : rank[x] = rank[y] => x = y
  <2> SUFFICES ASSUME NEW x \in S, NEW y \in S, rank[x] = rank[y], x # y PROVE FALSE
    OBVIOUS
  <2>1. x \in U[y] \/ y \in U[x]
    OBVIOUS
  <2>2. rank[x] < rank[y] \/ rank[y] < rank[x]
    BY <2>1, <1>4
  <2>3. rank[x] \in Nat /\ rank[y] \in Nat
    BY <1>3
  <2> HIDE DEF rank
  <2> QED
    BY <2>2, <2>3
<1>6. rank \in [S -> I] /\ \A i \in I : \E x \in S : rank[x] = i
  OBVIOUS
<1>7. Cardinality(I) = n
  <2> HIDE DEF rank, I
  <2> QED
    BY <1>5, <1>6, ReachedIsFinite
<1>8. I \in SUBSET (0..n - 1)
  <2> HIDE DEF rank, n
  <2> QED
    BY <1>1, <1>3
<1>9. IsFiniteSet(0..n - 1) /\ Cardinality(0..n - 1) = n
  <2>1. 0 \in Int /\ n - 1 \in Int
    BY <1>1
  <2>2. IsFiniteSet(0..n - 1) /\ Cardinality(0..n - 1) = IF 0 > n - 1 THEN 0 ELSE n - 1 - 0 + 1
    BY <2>1, FS_Interval
  <2> HIDE DEF n
  <2> QED
    BY <2>2, <1>1
<1>10. I = 0..n - 1
  <2> HIDE DEF I, n
  <2> QED
    BY <1>7, <1>8, <1>9, FS_Subset
<1>11. \A x \in S : rank[x] \in 0..n - 1
  BY <1>10
<1>12. \A m \in 0..n - 1 : \E x \in S : rank[x] = m
  BY <1>10
<1> QED
  BY <1>4, <1>11, <1>12

\* A set whose members lead to different ones of a finite set is no larger.
LEMMA InjectedIsSmaller ==
  ASSUME NEW S, NEW T, NEW f \in [S -> T], IsFiniteSet(T), \A x, y \in S : f[x] = f[y] => x = y
  PROVE  IsFiniteSet(S) /\ Cardinality(S) <= Cardinality(T)
<1>1. f \in Injection(S, T)
  BY DEF Injection, IsInjective
<1> QED
  BY <1>1, FS_Injection
=============================================================================
