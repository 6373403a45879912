----------------------------- MODULE DictProofs -----------------------------
(* Proofs about the system dictionary of the Pinyin engine: in use it is whole, *)
(* and each way it is looked at, it is the list that was read.                  *)
EXTENDS SystemDict, SequenceTheorems, FiniteSetTheorems, NumberProofs, TLAPS

LOCAL INSTANCE SequencesExt
LOCAL INSTANCE FiniteSetsExt

-----------------------------------------------------------------------------
(* The dictionary in use, for any raw lists and any spellings.                *)

Whole(d) == d # NoDict /\ \A s \in Sections : memory.has[s] = d

\* What is in the cache belongs to the spelling trie in memory, which is the
\* dictionary of the last load that has read anything.
CacheIsOfTheTrie ==
  /\ DOMAIN cache = HalfIds
  /\ \A h \in HalfIds : cache[h] # <<>> => memory.has[1] # NoDict /\ cache[h] = BestWords(memory.has[1], h)

DictInv ==
  /\ memory = [usable |-> memory.usable, has |-> memory.has]
  /\ NoDict \notin saved
  /\ memory.usable => \E d \in saved : Whole(d)
  /\ CacheIsOfTheTrie
  /\ shown # <<>> => memory.usable /\ shown[2] = BestWords(memory.has[3], shown[1])

LEMMA LastSection == Max(Sections) = 4
<1>1. 4 \in 1..4 /\ \A y \in 1..4 : 4 >= y
  OBVIOUS
<1>2. \A x \in 1..4 : (\A y \in 1..4 : x >= y) => x = 4
  OBVIOUS
<1> QED
  BY <1>1, <1>2 DEF Max, Sections

LEMMA LoadDictInv ==
  ASSUME OneFile, DictInv, NEW d, NEW ends \in 0..Max(Sections), LoadDict(d, ends)
  PROVE  DictInv'
<1> DEFINE ok == ends = Max(Sections) /\ d.num <= IdRange
           then1 == [s \in Sections |-> IF s <= ends THEN d ELSE memory.has[s]]
           has1 == IF ok THEN then1 ELSE [then1 EXCEPT ![2] = NoDict, ![3] = NoDict]
<1>1. /\ d \in saved /\ memory' = [usable |-> ok, has |-> has1]
      /\ memory.has[1] \in {NoDict, d} \/ \A h \in HalfIds : cache[h] = <<>>
      /\ shown' = <<>> /\ cache' = cache /\ saved' = saved
  BY DEF LoadDict
<1>2. ends \in 0..4 /\ d # NoDict
  BY <1>1, LastSection DEF DictInv
<1>3. memory'.usable = ok /\ memory'.has = has1 /\ memory' = [usable |-> memory'.usable, has |-> memory'.has]
  BY <1>1
<1>4. ok => \A s \in Sections : has1[s] = d
  BY LastSection DEF Sections
<1>5. has1[1] = IF ends >= 1 THEN d ELSE memory.has[1]
  <2>1. 1 \in Sections /\ 1 # 2 /\ 1 # 3 /\ (1 <= ends <=> ends >= 1)
    BY <1>2 DEF Sections
  <2>2. then1[1] = IF ends >= 1 THEN d ELSE memory.has[1]
    BY <2>1
  <2> HIDE DEF ok
  <2>3. has1[1] = then1[1]
    BY <2>1
  <2> QED
    BY <2>2, <2>3
<1> HIDE DEF ok, has1
<1>6. memory'.usable => \E e \in saved' : Whole(e)'
  BY <1>1, <1>2, <1>3, <1>4 DEF Whole
<1>7. CacheIsOfTheTrie'
  <2> SUFFICES ASSUME NEW h \in HalfIds, cache[h] # <<>>
               PROVE  has1[1] # NoDict /\ cache[h] = BestWords(has1[1], h)
    BY <1>1, <1>3 DEF CacheIsOfTheTrie, DictInv
  <2>1. memory.has[1] # NoDict /\ cache[h] = BestWords(memory.has[1], h)
    BY DEF DictInv, CacheIsOfTheTrie
  <2>2. memory.has[1] = d
    BY <1>1, <2>1
  <2> QED
    BY <1>5, <2>1, <2>2
<1> QED
  BY <1>1, <1>3, <1>6, <1>7 DEF DictInv

LEMMA LookUpHalfInv ==
  ASSUME DictInv, NEW id \in HalfIds, LookUpHalf(id)
  PROVE  DictInv'
<1> DEFINE best == IF cache[id] # <<>> THEN cache[id] ELSE BestWords(memory.has[3], id)
<1>1. /\ memory.usable /\ memory' = memory /\ saved' = saved
      /\ cache' = [cache EXCEPT ![id] = best] /\ shown' = <<id, best>>
  BY DEF LookUpHalf
<1>2. PICK d \in saved : Whole(d)
  BY <1>1 DEF DictInv
<1>3. memory.has[1] = d /\ memory.has[3] = d /\ d # NoDict
  BY <1>2 DEF Whole, Sections
<1>4. best = BestWords(d, id)
  BY <1>3 DEF DictInv, CacheIsOfTheTrie
<1> HIDE DEF best
<1>5. CacheIsOfTheTrie'
  BY <1>1, <1>3, <1>4 DEF DictInv, CacheIsOfTheTrie
<1>6. shown'[2] = BestWords(memory'.has[3], shown'[1])
  BY <1>1, <1>3, <1>4
<1>7. memory'.usable => \E e \in saved' : Whole(e)'
  BY <1>1, <1>2 DEF Whole
<1> QED
  BY <1>1, <1>5, <1>6, <1>7 DEF DictInv

LEMMA DictStart == DictInit => DictInv
  BY DEF DictInit, DictInv, CacheIsOfTheTrie

LEMMA DictStep == OneFile /\ DictInv /\ [DictNext]_dictVars => DictInv'
<1> SUFFICES ASSUME OneFile, DictInv, [DictNext]_dictVars PROVE DictInv'
  OBVIOUS
<1>1. CASE ReadRawDict \/ ReadLine \/ BuildDict
  BY <1>1 DEF ReadRawDict, ReadLine, BuildDict, DictInv, CacheIsOfTheTrie, Whole
<1>2. CASE SaveDict
  BY <1>2 DEF SaveDict, DictInv, CacheIsOfTheTrie, Whole
<1>3. CASE \E d \in saved, ends \in 0..Max(Sections) : LoadDict(d, ends)
  BY <1>3, LoadDictInv
<1>4. CASE \E id \in HalfIds : LookUpHalf(id)
  BY <1>4, LookUpHalfInv
<1>5. CASE UNCHANGED dictVars
  BY <1>5 DEF dictVars, DictInv, CacheIsOfTheTrie, Whole
<1> QED
  BY <1>1, <1>2, <1>3, <1>4, <1>5 DEF DictNext

\* SystemDict: as long as a program loads one file (OneFile), a dictionary that is
\* used is whole, whichever loads have failed before and wherever, and the best
\* words shown for a half id are those of the dictionary in use, although the cache
\* is never emptied.
THEOREM InUseCorrect == OneFile /\ DictSpec => []InUseIsWhole
<1>1. DictInit => DictInv
  BY DictStart
<1>2. OneFile /\ DictInv /\ [DictNext]_dictVars => DictInv'
  BY DictStep
<1>3. DictInv => InUseIsWhole
  BY DEF DictInv, InUseIsWhole, UsableIsWhole, CacheIsCurrent, Whole
<1>4. CASE OneFile
  BY <1>1, <1>2, <1>3, <1>4, PTL DEF DictSpec
<1>5. CASE ~OneFile
  BY <1>5
<1> QED
  BY <1>4, <1>5

-----------------------------------------------------------------------------
(* Sequences that list a set, each member once, and folds.                    *)

Lists(s, S) ==
  /\ s \in Seq(S)
  /\ \A x \in S : \E k \in 1..Len(s) : s[k] = x
  /\ \A i, j \in 1..Len(s) : s[i] = s[j] => i = j

LEMMA ListsAll ==
  ASSUME NEW S, NEW s, Lists(s, S)
  PROVE  /\ ToSet(s) = S /\ IsFiniteSet(S) /\ Cardinality(S) = Len(s) /\ Unique(s)
         /\ Len(s) \in Nat /\ DOMAIN s = 1..Len(s) /\ \A k \in 1..Len(s) : s[k] \in S
         /\ s = <<>> <=> S = {}
<1>1. s \in Seq(S) /\ Len(s) \in Nat /\ DOMAIN s = 1..Len(s) /\ \A k \in 1..Len(s) : s[k] \in S
  BY LenProperties DEF Lists
<1>2. ToSet(s) = S
  BY <1>1 DEF ToSet, Lists
<1>3. IsFiniteSet(1..Len(s)) /\ Cardinality(1..Len(s)) = Len(s)
  <2>1. 1 \in Int /\ Len(s) \in Int
    BY <1>1
  <2>2. IsFiniteSet(1..Len(s)) /\ Cardinality(1..Len(s)) = IF 1 > Len(s) THEN 0 ELSE Len(s) - 1 + 1
    BY <2>1, FS_Interval
  <2> QED
    BY <1>1, <2>2
<1>4. IsFiniteSet(S) /\ Cardinality(S) = Len(s)
  <2>1. s \in [1..Len(s) -> S]
    BY <1>1
  <2> DEFINE D == 1..Len(s)
  <2>2. /\ s \in [D -> S] /\ \A x \in S : \E k \in D : s[k] = x
        /\ \A i, j \in D : s[i] = s[j] => i = j
    BY <2>1 DEF Lists
  <2>3. IsFiniteSet(S) /\ Cardinality(S) = Cardinality(D)
    BY <1>3, <2>2, ReachedIsFinite
  <2> QED
    BY <1>3, <2>3
<1>5. s = <<>> <=> S = {}
  <2>1. s = <<>> => S = {}
    BY DEF Lists
  <2>2. S = {} => Len(s) = 0
    BY <1>4, FS_EmptySet
  <2>3. Len(s) = 0 => s = <<>>
    BY <1>1, EmptySeq
  <2> QED
    BY <2>1, <2>2, <2>3
<1> QED
  BY <1>1, <1>2, <1>4, <1>5 DEF Unique

LEMMA ListsBoth ==
  ASSUME NEW A, NEW B, NEW a, NEW b, Lists(a, A), Lists(b, B), A \cap B = {}
  PROVE  Lists(a \o b, A \cup B)
<1> DEFINE c == a \o b
           m == Len(a)
           n == Len(b)
<1>1. /\ m \in Nat /\ n \in Nat
      /\ \A k \in 1..m : a[k] \in A
      /\ \A k \in 1..n : b[k] \in B
  BY ListsAll
<1>2. a \in Seq(A \cup B) /\ b \in Seq(A \cup B)
  BY SeqMonotonic DEF Lists
<1>3. /\ c \in Seq(A \cup B) /\ Len(c) = m + n
      /\ \A i \in 1..m + n : c[i] = IF i <= m THEN a[i] ELSE b[i - m]
  BY <1>2, ConcatProperties
<1> HIDE DEF c
<1>4. ASSUME NEW x \in A \cup B PROVE \E k \in 1..m + n : c[k] = x
  <2>1. CASE x \in A
    <3>1. PICK k \in 1..m : a[k] = x
      BY <2>1 DEF Lists
    <3>2. k \in 1..m + n /\ c[k] = x
      BY <1>1, <1>3, <3>1
    <3> QED
      BY <3>2
  <2>2. CASE x \in B
    <3>1. PICK k \in 1..n : b[k] = x
      BY <2>2 DEF Lists
    <3>2. m + k \in 1..m + n /\ ~(m + k <= m) /\ m + k - m = k
      BY <1>1
    <3>3. c[m + k] = x
      BY <1>3, <3>1, <3>2
    <3> QED
      BY <3>2, <3>3
  <2> QED
    BY <2>1, <2>2
<1>5. ASSUME NEW i \in 1..m + n, NEW j \in 1..m + n, c[i] = c[j] PROVE i = j
  <2>1. ASSUME NEW k \in 1..m + n
        PROVE  \/ k <= m /\ k \in 1..m /\ c[k] = a[k] /\ c[k] \in A
               \/ ~(k <= m) /\ k - m \in 1..n /\ c[k] = b[k - m] /\ c[k] \in B
    BY <1>1, <1>3
  <2>2. CASE i <= m /\ j <= m
    BY <1>5, <2>1, <2>2 DEF Lists
  <2>3. CASE ~(i <= m) /\ ~(j <= m)
    <3>1. i - m \in 1..n /\ j - m \in 1..n /\ b[i - m] = b[j - m]
      BY <1>5, <2>1, <2>3
    <3>2. i - m = j - m
      BY <3>1 DEF Lists
    <3> QED
      BY <1>1, <3>2
  <2>4. CASE (i <= m /\ ~(j <= m)) \/ (~(i <= m) /\ j <= m)
    BY <1>5, <2>1, <2>4
  <2> QED
    BY <2>2, <2>3, <2>4
<1> QED
  BY <1>3, <1>4, <1>5 DEF Lists, c

\* Where every step stays in X, a fold has its values.
IsFold(f, X, n, base, G) ==
  f \in [0..n -> X] /\ f[0] = base /\ \A k \in 1..n : f[k] = G[<<f[k - 1], k>>]

LEMMA FoldExists ==
  ASSUME NEW X, NEW n \in Nat, NEW base \in X, NEW G \in [X \X (1..n) -> X]
  PROVE  \E f : IsFold(f, X, n, base, G)
<1> DEFINE A == {m \in Nat : m <= n => \E f \in [0..m -> X] : f[0] = base /\ \A k \in 1..m : f[k] = G[<<f[k - 1], k>>]}
<1>1. 0 \in A
  <2> DEFINE f == [k \in 0..0 |-> base]
  <2>1. f \in [0..0 -> X] /\ f[0] = base /\ \A k \in 1..0 : f[k] = G[<<f[k - 1], k>>]
    OBVIOUS
  <2> HIDE DEF f
  <2> QED
    BY <2>1
<1>2. ASSUME NEW m \in A PROVE m + 1 \in A
  <2> SUFFICES ASSUME m + 1 <= n
               PROVE  \E f \in [0..m + 1 -> X] : f[0] = base /\ \A k \in 1..m + 1 : f[k] = G[<<f[k - 1], k>>]
    OBVIOUS
  <2>1. m \in Nat /\ m <= n
    OBVIOUS
  <2>2. PICK f \in [0..m -> X] : f[0] = base /\ \A k \in 1..m : f[k] = G[<<f[k - 1], k>>]
    BY <2>1
  <2> DEFINE g == [k \in 0..m + 1 |-> IF k = m + 1 THEN G[<<f[m], m + 1>>] ELSE f[k]]
  <2>3. f[m] \in X /\ <<f[m], m + 1>> \in X \X (1..n)
    BY <2>1
  <2>4. g \in [0..m + 1 -> X]
    <3>1. ASSUME NEW k \in 0..m + 1, k # m + 1 PROVE f[k] \in X
      <4>1. k \in 0..m
        BY <2>1, <3>1
      <4> QED
        BY <4>1
    <3> QED
      BY <2>3, <3>1
  <2>5. g[0] = base
    BY <2>1, <2>2
  <2>6. ASSUME NEW k \in 1..m + 1 PROVE g[k] = G[<<g[k - 1], k>>]
    <3>1. k - 1 \in 0..m /\ k - 1 \in 0..m + 1 /\ k - 1 # m + 1 /\ g[k - 1] = f[k - 1]
      BY <2>1
    <3>2. CASE k = m + 1
      BY <2>1, <3>1, <3>2
    <3>3. CASE k # m + 1
      BY <2>1, <2>2, <3>1, <3>3
    <3> QED
      BY <3>2, <3>3
  <2> HIDE DEF g
  <2> QED
    BY <2>4, <2>5, <2>6
<1>3. A = Nat
  <2> HIDE DEF A
  <2>1. A \in SUBSET Nat
    BY DEF A
  <2> QED
    BY <1>1, <1>2, <2>1, Induction
<1>4. n \in A
  <2> HIDE DEF A
  <2> QED
    BY <1>3
<1> QED
  BY<1>4 DEF IsFold

-----------------------------------------------------------------------------
(* Concatenation.                                                             *)

IsConcat(f, s, T) ==
  /\ f \in [0..Len(s) -> Seq(T)]
  /\ f[0] = <<>>
  /\ \A k \in 1..Len(s) : f[k] = f[k - 1] \o s[k]

\* What begins in X and stays there.
LEMMA FoldStays ==
  ASSUME NEW X, NEW n \in Nat, NEW g, g[0] \in X, \A k \in 1..n : g[k - 1] \in X => g[k] \in X
  PROVE  \A k \in 0..n : g[k] \in X
<1> DEFINE A == {k \in Nat : k <= n => g[k] \in X}
<1>1. 0 \in A
  OBVIOUS
<1>2. ASSUME NEW k \in A PROVE k + 1 \in A
  <2> SUFFICES ASSUME k + 1 <= n PROVE g[k + 1] \in X
    OBVIOUS
  <2>1. k \in Nat /\ k <= n /\ k + 1 \in 1..n /\ (k + 1) - 1 = k
    OBVIOUS
  <2>2. g[k] \in X
    BY <2>1
  <2> QED
    BY <2>1, <2>2
<1>3. A = Nat
  <2> HIDE DEF A
  <2>1. A \in SUBSET Nat
    BY DEF A
  <2> QED
    BY <1>1, <1>2, <2>1, Induction
<1> QED
  BY <1>3

LEMMA ConcatFold ==
  ASSUME NEW T, NEW s \in Seq(Seq(T))
  PROVE  \E f : IsConcat(f, s, T) /\ Concat(s) = f[Len(s)]
<1> DEFINE n == Len(s)
           X == Seq(T)
           G == [p \in X \X (1..n) |-> p[1] \o s[p[2]]]
           Is(f) == f = [k \in 0..n |-> IF k = 0 THEN <<>> ELSE f[k - 1] \o s[k]]
<1>1. n \in Nat /\ \A k \in 1..n : s[k] \in X
  BY LenProperties
<1>2. ASSUME NEW x \in X, NEW k \in 1..n PROVE x \o s[k] \in X
  <2>1. x \in Seq(T) /\ s[k] \in Seq(T)
    BY <1>1
  <2> QED
    BY <2>1, ConcatProperties
<1>3. G \in [X \X (1..n) -> X]
  <2> HIDE DEF X, n
  <2> QED
    BY <1>2
<1>4. \A x \in X : \A k \in 1..n : G[<<x, k>>] = x \o s[k]
  OBVIOUS
<1>5. \E f : IsFold(f, X, n, <<>>, G)
  <2>1. <<>> \in X
    OBVIOUS
  <2> HIDE DEF G, n, X
  <2> QED
    BY <1>1, <1>3, <2>1, FoldExists
<1>6. \E f : Is(f)
  <2>1. PICK f \in [0..n -> X] : f[0] = <<>> /\ \A k \in 1..n : f[k] = G[<<f[k - 1], k>>]
    BY <1>5 DEF IsFold
  <2> HIDE DEF G, X, n
  <2>2. ASSUME NEW k \in 0..n PROVE f[k] = IF k = 0 THEN <<>> ELSE f[k - 1] \o s[k]
    <3>1. CASE k = 0
      BY <2>1, <3>1
    <3>2. CASE k # 0
      <4>1. k \in 1..n /\ k - 1 \in 0..n
        BY <1>1, <3>2
      <4>2. f[k - 1] \in X /\ f[k] = G[<<f[k - 1], k>>]
        BY <2>1, <4>1
      <4> QED
        BY <1>4, <3>2, <4>1, <4>2
    <3> QED
      BY <3>1, <3>2
  <2> QED
    BY <2>2
<1> DEFINE g == CHOOSE f : Is(f)
<1>7. Is(g)
  <2> HIDE DEF Is
  <2> QED
    BY <1>6
<1>8. Concat(s) = g[n]
  BY Zenon DEF Concat, Step
<1> HIDE DEF g, n, X
<1>9. g[0] = <<>> /\ \A k \in 1..n : g[k] = g[k - 1] \o s[k]
  <2>1. 0 \in 0..n /\ \A k \in 1..n : k \in 0..n /\ k # 0
    BY <1>1
  <2> QED
    BY <1>7, <2>1
<1>10. \A k \in 0..n : g[k] \in X
  <2>1. g[0] \in X
    BY <1>9 DEF X
  <2> QED
    BY <1>1, <1>2, <1>9, <2>1, FoldStays
<1>11. g \in [0..n -> X]
  BY <1>7, <1>10
<1> QED
  BY <1>8, <1>9, <1>11 DEF IsConcat, n, X

LEMMA ConcatStep ==
  ASSUME NEW T, NEW s \in Seq(Seq(T)), NEW f, IsConcat(f, s, T)
  PROVE  /\ Len(s) \in Nat /\ f[0] = <<>>
         /\ \A k \in 0..Len(s) : f[k] \in Seq(T) /\ Len(f[k]) \in Nat
         /\ \A k \in 1..Len(s) : f[k] = f[k - 1] \o s[k] /\ s[k] \in Seq(T) /\ Len(s[k]) \in Nat
<1>1. Len(s) \in Nat /\ \A k \in 1..Len(s) : s[k] \in Seq(T)
  BY LenProperties
<1>2. ASSUME NEW r \in Seq(T) PROVE Len(r) \in Nat
  BY LenProperties
<1>3. \A k \in 0..Len(s) : f[k] \in Seq(T)
  BY DEF IsConcat
<1>4. f[0] = <<>> /\ \A k \in 1..Len(s) : f[k] = f[k - 1] \o s[k]
  BY DEF IsConcat
<1> QED
  BY <1>1, <1>2, <1>3, <1>4

LEMMA ConcatNone == Concat(<<>>) = <<>>
<1>1. PICK f : IsConcat(f, <<>>, {}) /\ Concat(<<>>) = f[Len(<<>>)]
  <2>1. <<>> \in Seq(Seq({}))
    OBVIOUS
  <2> QED
    BY <2>1, ConcatFold
<1> QED
  BY <1>1 DEF IsConcat

\* Where each part lists a set of its own, the whole lists them all.
Parts(s, B, T) ==
  /\ \A k \in 1..Len(s) : B[k] \subseteq T /\ Lists(s[k], B[k])
  /\ \A i, j \in 1..Len(s) : i # j => B[i] \cap B[j] = {}
Joined(B, n, T) == {x \in T : \E k \in 1..n : x \in B[k]}

LEMMA ConcatLists ==
  ASSUME NEW T, NEW s \in Seq(Seq(T)), NEW B, Parts(s, B, T)
  PROVE  Lists(Concat(s), Joined(B, Len(s), T))
<1> USE DEF Parts
<1> DEFINE n == Len(s)
           Up(m) == {x \in T : \E k \in 1..m : x \in B[k]}
<1>1. n \in Nat
  BY LenProperties
<1>2. PICK f : IsConcat(f, s, T) /\ Concat(s) = f[n]
  BY ConcatFold
<1> DEFINE A == {m \in Nat : m <= n => Lists(f[m], Up(m))}
<1>3. 0 \in A
  <2>1. f[0] = <<>> /\ Up(0) = {}
    BY <1>2 DEF IsConcat
  <2> HIDE DEF Up
  <2>2. Lists(f[0], Up(0))
    BY <2>1 DEF Lists
  <2> QED
    BY <2>2
<1>4. ASSUME NEW m \in A PROVE m + 1 \in A
  <2> SUFFICES ASSUME m + 1 <= n PROVE Lists(f[m + 1], Up(m + 1))
    OBVIOUS
  <2>1. m \in Nat /\ m <= n /\ m + 1 \in 1..n /\ (m + 1) - 1 = m
    BY <1>1
  <2>2. Lists(f[m], Up(m)) /\ Lists(s[m + 1], B[m + 1]) /\ f[m + 1] = f[m] \o s[m + 1]
    <3>1. f[m + 1] = f[(m + 1) - 1] \o s[m + 1]
      BY <1>2, <2>1 DEF IsConcat
    <3>2. Lists(f[m], Up(m))
      BY <2>1
    <3> HIDE DEF Up, n
    <3> QED
      BY <2>1, <3>1, <3>2 DEF n
  <2>3. Up(m) \cap B[m + 1] = {}
    <3>1. ASSUME NEW x \in Up(m), x \in B[m + 1] PROVE FALSE
      <4>1. PICK k \in 1..m : x \in B[k]
        OBVIOUS
      <4>2. k \in 1..n /\ k # m + 1
        BY <2>1
      <4> QED
        BY <2>1, <3>1, <4>1, <4>2
    <3> QED
      BY <3>1
  <2>4. Up(m + 1) = Up(m) \cup B[m + 1]
    <3>1. ASSUME NEW x \in Up(m + 1) PROVE x \in Up(m) \cup B[m + 1]
      <4>1. PICK k \in 1..m + 1 : x \in B[k]
        OBVIOUS
      <4>2. k \in 1..m \/ k = m + 1
        BY <2>1
      <4> QED
        BY <4>1, <4>2
    <3>2. ASSUME NEW x \in Up(m) PROVE x \in Up(m + 1)
      <4>1. PICK k \in 1..m : x \in B[k]
        OBVIOUS
      <4>2. k \in 1..m + 1
        BY <2>1
      <4> QED
        BY <4>1, <4>2
    <3>3. B[m + 1] \subseteq Up(m + 1)
      <4>1. m + 1 \in 1..m + 1 /\ B[m + 1] \subseteq T
        BY <2>1
      <4> QED
        BY <4>1
    <3> HIDE DEF Up
    <3> QED
      BY <3>1, <3>2, <3>3
  <2> HIDE DEF Up
  <2> DEFINE x == f[m]
             y == s[m + 1]
             P == Up(m)
             Q == B[m + 1]
  <2>5. Lists(x, P) /\ Lists(y, Q) /\ P \cap Q = {}
    BY <2>2, <2>3
  <2>6. f[m + 1] = x \o y /\ Up(m + 1) = P \cup Q
    BY <2>2, <2>4
  <2> HIDE DEF x, y, P, Q
  <2>7. Lists(x \o y, P \cup Q)
    BY <2>5, ListsBoth
  <2> QED
    BY <2>6, <2>7
<1>5. A = Nat
  <2> HIDE DEF A
  <2>1. A \in SUBSET Nat
    BY DEF A
  <2> QED
    BY <1>3, <1>4, <2>1, Induction
<1>6. n \in A
  <2> HIDE DEF A
  <2> QED
    BY <1>1, <1>5
<1> QED
  BY <1>1, <1>2, <1>6 DEF Joined

\* The beginning of what is put together is what is put together of the beginning.
LEMMA ConcatBegins ==
  ASSUME NEW T, NEW s \in Seq(Seq(T)), NEW f, IsConcat(f, s, T), NEW m \in 0..Len(s)
  PROVE  Concat([j \in 1..m |-> s[j]]) = f[m]
<1> DEFINE r == [j \in 1..m |-> s[j]]
<1>1. Len(s) \in Nat /\ m \in Nat /\ \A k \in 1..Len(s) : s[k] \in Seq(T)
  BY LenProperties
<1>2. r \in Seq(Seq(T)) /\ Len(r) = m
  <2>1. r \in [1..m -> Seq(T)]
    <3>1. \A j \in 1..m : j \in 1..Len(s)
      BY <1>1
    <3> QED
      BY <1>1, <3>1
  <2> HIDE DEF r
  <2>2. r \in Seq(Seq(T))
    BY <1>1, <2>1, IsASeq
  <2> QED
    BY <1>1, <2>1, <2>2, LenProperties
<1>3. \A j \in 1..m : r[j] = s[j]
  OBVIOUS
<1> HIDE DEF r
<1>4. PICK g : IsConcat(g, r, T) /\ Concat(r) = g[m]
  BY <1>2, ConcatFold
<1> DEFINE A == {k \in Nat : k <= m => g[k] = f[k]}
<1>5. 0 \in A
  BY <1>4 DEF IsConcat
<1>6. ASSUME NEW k \in A PROVE k + 1 \in A
  <2> SUFFICES ASSUME k + 1 <= m PROVE g[k + 1] = f[k + 1]
    OBVIOUS
  <2>1. k <= m /\ k + 1 \in 1..m /\ k + 1 \in 1..Len(s) /\ (k + 1) - 1 = k
    BY <1>1
  <2>2. g[k + 1] = g[k] \o r[k + 1] /\ f[k + 1] = f[k] \o s[k + 1] /\ r[k + 1] = s[k + 1]
    <3>1. g[k + 1] = g[(k + 1) - 1] \o r[k + 1]
      BY <1>2, <1>4, <2>1 DEF IsConcat
    <3>2. f[k + 1] = f[(k + 1) - 1] \o s[k + 1]
      BY <2>1 DEF IsConcat
    <3> QED
      BY <1>3, <2>1, <3>1, <3>2
  <2> QED
    BY <2>1, <2>2
<1>7. A = Nat
  <2> HIDE DEF A
  <2>1. A \in SUBSET Nat
    BY DEF A
  <2> QED
    BY <1>5, <1>6, <2>1, Induction
<1>8. m \in A
  <2> HIDE DEF A
  <2> QED
    BY <1>1, <1>7
<1> QED
  BY <1>1, <1>4, <1>8 DEF r

LEMMA BothParts ==
  ASSUME NEW T, NEW u \in Seq(T), NEW v \in Seq(T)
  PROVE  /\ Len(u \o v) = Len(u) + Len(v) /\ u \o v \in Seq(T)
         /\ \A i \in 1..Len(u) : (u \o v)[i] = u[i]
         /\ \A i \in 1..Len(v) : (u \o v)[Len(u) + i] = v[i]
<1>1. Len(u) \in Nat /\ Len(v) \in Nat
  BY LenProperties
<1> DEFINE w == u \o v
<1>2. /\ w \in Seq(T) /\ Len(w) = Len(u) + Len(v)
      /\ \A i \in 1..Len(u) + Len(v) : w[i] = IF i <= Len(u) THEN u[i] ELSE v[i - Len(u)]
  BY ConcatProperties
<1> HIDE DEF w
<1>3. \A i \in 1..Len(u) : i \in 1..Len(u) + Len(v) /\ i <= Len(u)
  BY <1>1
<1>4. \A i \in 1..Len(v) : Len(u) + i \in 1..Len(u) + Len(v) /\ ~(Len(u) + i <= Len(u)) /\ Len(u) + i - Len(u) = i
  BY <1>1
<1>5. \A i \in 1..Len(u) : w[i] = u[i]
  BY <1>2, <1>3
<1>6. \A i \in 1..Len(v) : w[Len(u) + i] = v[i]
  BY <1>2, <1>4
<1> QED
  BY <1>2, <1>5, <1>6 DEF w

\* A part of a sequence, by its elements.
LEMMA PartIs ==
  ASSUME NEW T, NEW w \in Seq(T), NEW a \in Nat, NEW s \in Seq(T), a + Len(s) <= Len(w),
         \A i \in 1..Len(s) : w[a + i] = s[i]
  PROVE  SubSeq(w, a + 1, a + Len(s)) = s
<1> DEFINE b == Len(s)
           z == a + b
           t == SubSeq(w, a + 1, z)
<1>1. Len(w) \in Nat /\ b \in Nat /\ z \in Nat /\ z <= Len(w)
  BY LenProperties
<1>2. \A i \in a + 1..z : w[i] \in T
  <2>1. \A i \in a + 1..z : i \in 1..Len(w)
    BY <1>1
  <2>2. \A i \in 1..Len(w) : w[i] \in T
    BY LenProperties
  <2> HIDE DEF z
  <2> QED
    BY <2>1, <2>2
<1>3. a + 1 \in Int /\ z \in Int /\ z - (a + 1) + 1 = b /\ (a + 1 <= z \/ b = 0)
  BY <1>1
<1>4. /\ t \in Seq(T) /\ Len(t) = IF a + 1 <= z THEN z - (a + 1) + 1 ELSE 0
      /\ \A i \in 1..z - (a + 1) + 1 : t[i] = w[a + 1 + i - 1]
  <2> HIDE DEF z
  <2> QED
    BY <1>2, <1>3, SubSeqProperties
<1> HIDE DEF t, z
<1>5. Len(t) = b
  BY <1>1, <1>3, <1>4
<1>6. \A i \in 1..b : t[i] = s[i]
  <2>1. \A i \in 1..b : a + 1 + i - 1 = a + i /\ w[a + i] = s[i]
    BY <1>1
  <2> QED
    BY <1>3, <1>4, <2>1
<1>7. t = s
  <2> HIDE DEF b
  <2>1. Len(s) = b
    BY DEF b
  <2> QED
    BY <1>4, <1>5, <1>6, <2>1, SeqEqual
<1> QED
  BY <1>7 DEF t, z

\* Each part is still there in what is put together.
HoldsAt(f, s, k, m) == s[k] = SubSeq(f[m], Len(f[k - 1]) + 1, Len(f[k]))

LEMMA ConcatHolds ==
  ASSUME NEW T, NEW s \in Seq(Seq(T)), NEW f, IsConcat(f, s, T), NEW k \in 1..Len(s), NEW m \in k..Len(s)
  PROVE  /\ Len(f[k - 1]) \in Nat /\ Len(f[k]) = Len(f[k - 1]) + Len(s[k])
         /\ f[m] \in Seq(T) /\ Len(f[k]) <= Len(f[m])
         /\ HoldsAt(f, s, k, m)
<1> DEFINE n == Len(s)
           a == Len(f[k - 1])
           b == Len(s[k])
           c == Len(f[k])
           t == s[k]
           Has(j) == c <= Len(f[j]) /\ \A i \in 1..b : f[j][a + i] = t[i]
           A == {d \in Nat : k + d <= n => Has(k + d)}
<1>1. n \in Nat /\ k \in Nat /\ k >= 1 /\ k <= n /\ m \in Nat /\ k <= m /\ m <= n
  BY ConcatStep
<1>2. ASSUME NEW j \in 1..n
      PROVE  /\ f[j - 1] \in Seq(T) /\ f[j] \in Seq(T) /\ s[j] \in Seq(T)
             /\ Len(f[j - 1]) \in Nat /\ Len(f[j]) \in Nat /\ Len(s[j]) \in Nat
             /\ Len(f[j]) = Len(f[j - 1]) + Len(s[j])
             /\ \A i \in 1..Len(f[j - 1]) : f[j][i] = f[j - 1][i]
             /\ \A i \in 1..Len(s[j]) : f[j][Len(f[j - 1]) + i] = s[j][i]
  <2>1. j - 1 \in 0..n /\ j \in 0..n
    BY <1>1
  <2>2. /\ f[j - 1] \in Seq(T) /\ f[j] \in Seq(T) /\ s[j] \in Seq(T)
        /\ Len(f[j - 1]) \in Nat /\ Len(f[j]) \in Nat /\ Len(s[j]) \in Nat
        /\ f[j] = f[j - 1] \o s[j]
    BY <2>1, ConcatStep
  <2> DEFINE u == f[j - 1]
             v == s[j]
             w == f[j]
  <2>3. u \in Seq(T) /\ v \in Seq(T) /\ w = u \o v
    BY <2>2
  <2> HIDE DEF n, u, v, w
  <2>4. /\ Len(w) = Len(u) + Len(v)
        /\ \A i \in 1..Len(u) : w[i] = u[i]
        /\ \A i \in 1..Len(v) : w[Len(u) + i] = v[i]
    BY <2>3, BothParts
  <2> QED
    BY <2>2, <2>4 DEF u, v, w
<1>3. a \in Nat /\ b \in Nat /\ c = a + b /\ t \in Seq(T)
  BY <1>1, <1>2
<1>4. 0 \in A
  <2>1. k + 0 = k
    BY <1>1
  <2>2. \A i \in 1..b : f[k][a + i] = t[i]
    BY <1>1, <1>2
  <2>3. c <= Len(f[k])
    BY <1>3
  <2> HIDE DEF n, a, b, c, t
  <2> QED
    BY <2>1, <2>2, <2>3
<1> HIDE DEF n, a, b, c, t
<1>5. ASSUME NEW d \in A PROVE d + 1 \in A
  <2> SUFFICES ASSUME k + (d + 1) <= n PROVE Has(k + (d + 1))
    OBVIOUS
  <2> DEFINE j == k + d
             u == f[j]
             v == f[j + 1]
  <2>1. d \in Nat /\ j <= n /\ j + 1 \in 1..n /\ (j + 1) - 1 = j /\ k + (d + 1) = j + 1
    BY <1>1
  <2>2. c <= Len(u) /\ \A i \in 1..b : u[a + i] = t[i]
    BY <2>1
  <2>3. /\ Len(v) = Len(u) + Len(s[j + 1]) /\ Len(u) \in Nat /\ Len(s[j + 1]) \in Nat
        /\ \A i \in 1..Len(u) : v[i] = u[i]
    <3> DEFINE j1 == j + 1
    <3>1. j1 \in 1..n /\ j1 - 1 = j
      BY <2>1
    <3> HIDE DEF j, j1
    <3>2. /\ Len(f[j1 - 1]) \in Nat /\ Len(s[j1]) \in Nat
          /\ Len(f[j1]) = Len(f[j1 - 1]) + Len(s[j1])
          /\ \A i \in 1..Len(f[j1 - 1]) : f[j1][i] = f[j1 - 1][i]
      BY Zenon, <1>2, <3>1
    <3> QED
      BY <3>1, <3>2 DEF j1
  <2> HIDE DEF j, u, v
  <2>4. c <= Len(v)
    BY <1>3, <2>2, <2>3
  <2>5. ASSUME NEW i \in 1..b PROVE v[a + i] = t[i]
    <3>1. a + i \in 1..Len(u)
      BY <1>3, <2>2, <2>3
    <3> QED
      BY <2>2, <2>3, <3>1
  <2> QED
    BY <2>1, <2>4, <2>5 DEF v
<1>6. A = Nat
  <2> HIDE DEF A
  <2>1. A \in SUBSET Nat
    BY DEF A
  <2> QED
    BY <1>4, <1>5, <2>1, Induction
<1>7. Has(m)
  <2>1. m - k \in Nat /\ k + (m - k) = m
    BY <1>1
  <2>2. m - k \in A
    <3> HIDE DEF A
    <3> QED
      BY <1>6, <2>1
  <2>3. k + (m - k) <= n => Has(k + (m - k))
    BY <2>2
  <2> HIDE DEF Has, A
  <2> QED
    BY <1>1, <2>1, <2>3
<1>8. f[m] \in Seq(T)
  <2>1. m \in 1..n
    BY <1>1
  <2> QED
    BY <1>2, <2>1
<1>9. t = SubSeq(f[m], a + 1, c)
  <2> DEFINE w == f[m]
  <2>1. w \in Seq(T) /\ a + Len(t) <= Len(w) /\ \A i \in 1..Len(t) : w[a + i] = t[i]
    BY <1>3, <1>7, <1>8 DEF b, t
  <2> HIDE DEF w
  <2>2. SubSeq(w, a + 1, a + Len(t)) = t
    BY <1>3, <2>1, PartIs
  <2>3. a + Len(t) = c
    BY <1>3 DEF b, t
  <2> QED
    BY <2>2, <2>3 DEF w
<1> QED
  BY <1>3, <1>7, <1>8, <1>9 DEF a, b, c, t, HoldsAt

-----------------------------------------------------------------------------
(* The orders.                                                                *)

Agree(s, t, n) == n <= Len(s) /\ n <= Len(t) /\ \A i \in 1..n : s[i] = t[i]

LEMMA MinOfTwo ==
  ASSUME NEW a \in Nat, NEW b \in Nat
  PROVE  Min({a, b}) = IF a <= b THEN a ELSE b
BY DEF Min

LEMMA SameStart ==
  ASSUME NEW T, NEW s \in Seq(T), NEW t \in Seq(T), NEW n \in Nat, n <= Len(s), n <= Len(t)
  PROVE  SubSeq(s, 1, n) = SubSeq(t, 1, n) <=> Agree(s, t, n)
<1> DEFINE a == SubSeq(s, 1, n)
           b == SubSeq(t, 1, n)
<1>1. Len(s) \in Nat /\ Len(t) \in Nat /\ (\A i \in 1..Len(s) : s[i] \in T) /\ (\A i \in 1..Len(t) : t[i] \in T)
  BY LenProperties
<1>2. (\A i \in 1..n : s[i] \in T) /\ (\A i \in 1..n : t[i] \in T)
  <2>1. \A i \in 1..n : i \in 1..Len(s) /\ i \in 1..Len(t)
    BY <1>1
  <2> QED
    BY <1>1, <2>1
<1>3. 1 \in Int /\ n \in Int /\ n - 1 + 1 = n /\ (1 <= n \/ n = 0)
  OBVIOUS
<1>4. a \in Seq(T) /\ Len(a) = n /\ \A i \in 1..n : a[i] = s[i]
  <2>1. /\ a \in Seq(T) /\ Len(a) = IF 1 <= n THEN n - 1 + 1 ELSE 0
        /\ \A i \in 1..n - 1 + 1 : a[i] = s[1 + i - 1]
    BY <1>2, <1>3, SubSeqProperties
  <2>2. \A i \in 1..n : 1 + i - 1 = i
    OBVIOUS
  <2> HIDE DEF a
  <2> QED
    BY <1>3, <2>1, <2>2
<1>5. b \in Seq(T) /\ Len(b) = n /\ \A i \in 1..n : b[i] = t[i]
  <2>1. /\ b \in Seq(T) /\ Len(b) = IF 1 <= n THEN n - 1 + 1 ELSE 0
        /\ \A i \in 1..n - 1 + 1 : b[i] = t[1 + i - 1]
    BY <1>2, <1>3, SubSeqProperties
  <2>2. \A i \in 1..n : 1 + i - 1 = i
    OBVIOUS
  <2> HIDE DEF b
  <2> QED
    BY <1>3, <2>1, <2>2
<1> HIDE DEF a, b
<1>6. a = b => \A i \in 1..n : s[i] = t[i]
  BY <1>4, <1>5
<1>7. ASSUME \A i \in 1..n : s[i] = t[i] PROVE a = b
  <2>1. Len(a) = Len(b) /\ \A i \in 1..Len(a) : a[i] = b[i]
    BY <1>4, <1>5, <1>7
  <2> QED
    BY <1>4, <1>5, <2>1, SeqEqual
<1> QED
  BY <1>6, <1>7 DEF Agree, a, b

LEMMA PrefixIs ==
  ASSUME NEW T, NEW p \in Seq(T), NEW s \in Seq(T)
  PROVE  IsPrefix(p, s) <=> Agree(p, s, Len(p))
<1>1. Len(p) \in Nat /\ Len(s) \in Nat
  BY LenProperties
<1>2. Len(p) <= Len(p)
  BY <1>1
<1>3. Len(p) <= Len(s) => (SubSeq(p, 1, Len(p)) = SubSeq(s, 1, Len(p)) <=> Agree(p, s, Len(p)))
  BY <1>1, <1>2, SameStart
<1> QED
  BY <1>3, Zenon DEF IsPrefix, Agree

LEMMA AgreeWhole ==
  ASSUME NEW T, NEW s \in Seq(T), NEW t \in Seq(T), Len(s) = Len(t), Agree(s, t, Len(s))
  PROVE  s = t
  BY SeqEqual DEF Agree

\* A sequence is before another at the place n, where they part.
PartAt(s, t, n) ==
  /\ Agree(s, t, n) /\ n < Len(t)
  /\ n < Len(s) => s[n + 1] < t[n + 1]

LEMMA SmallerIs ==
  ASSUME NEW s \in Seq(Int), NEW t \in Seq(Int)
  PROVE  SmallerSeq(s, t) <=> \E n \in Nat : PartAt(s, t, n)
<1> DEFINE m == Min({Len(s), Len(t)})
<1>1. Len(s) \in Nat /\ Len(t) \in Nat
  BY LenProperties
<1>2. m \in Nat /\ m = IF Len(s) <= Len(t) THEN Len(s) ELSE Len(t)
  BY <1>1, MinOfTwo
<1> HIDE DEF m
<1>3. SmallerSeq(s, t) <=> \/ IsPrefix(s, t) /\ s # t
                           \/ \E k \in 1..m : SubSeq(s, 1, k - 1) = SubSeq(t, 1, k - 1) /\ s[k] < t[k]
  BY DEF SmallerSeq, IsStrictPrefix, m
<1>4. ASSUME IsPrefix(s, t), s # t PROVE PartAt(s, t, Len(s))
  <2>1. Agree(s, t, Len(s))
    BY <1>4, PrefixIs
  <2>2. Len(s) # Len(t)
    BY <2>1, <1>4, AgreeWhole
  <2> QED
    BY <1>1, <2>1, <2>2 DEF PartAt, Agree
<1>5. ASSUME NEW k \in 1..m, SubSeq(s, 1, k - 1) = SubSeq(t, 1, k - 1), s[k] < t[k]
      PROVE  k - 1 \in Nat /\ PartAt(s, t, k - 1)
  <2>1. k - 1 \in Nat /\ k - 1 <= Len(s) /\ k - 1 <= Len(t) /\ k - 1 < Len(s) /\ k - 1 < Len(t) /\ (k - 1) + 1 = k
    BY <1>1, <1>2
  <2>2. Agree(s, t, k - 1)
    BY <1>1, <1>5, <2>1, SameStart
  <2> QED
    BY <1>5, <2>1, <2>2 DEF PartAt
<1>6. ASSUME NEW n \in Nat, PartAt(s, t, n) PROVE SmallerSeq(s, t)
  <2>1. CASE n < Len(s)
    <3>1. n + 1 \in 1..m /\ (n + 1) - 1 = n
      BY <1>1, <1>2, <1>6, <2>1 DEF PartAt
    <3>2. SubSeq(s, 1, n) = SubSeq(t, 1, n)
      BY <1>1, <1>6, <2>1, SameStart DEF PartAt, Agree
    <3> QED
      BY <1>3, <1>6, <2>1, <3>1, <3>2 DEF PartAt
  <2>2. CASE ~(n < Len(s))
    <3>1. n = Len(s) /\ n < Len(t)
      BY <1>1, <1>6, <2>2 DEF PartAt, Agree
    <3>2. IsPrefix(s, t) /\ s # t
      BY <1>1, <1>6, <3>1, PrefixIs DEF PartAt
    <3> QED
      BY <1>3, <3>2
  <2> QED
    BY <2>1, <2>2
<1> QED
  BY <1>1, <1>3, <1>4, <1>5, <1>6

LEMMA SmallerIrreflexive ==
  ASSUME NEW s \in Seq(Int)
  PROVE  ~SmallerSeq(s, s)
<1>1. ASSUME NEW n \in Nat, PartAt(s, s, n) PROVE FALSE
  <2>1. Len(s) \in Nat /\ \A i \in 1..Len(s) : s[i] \in Int
    BY LenProperties
  <2>2. n + 1 \in 1..Len(s)
    BY <1>1, <2>1 DEF PartAt
  <2> QED
    BY <1>1, <2>1, <2>2 DEF PartAt
<1> QED
  BY <1>1, SmallerIs

LEMMA SmallerTotal ==
  ASSUME NEW s \in Seq(Int), NEW t \in Seq(Int), s # t
  PROVE  SmallerSeq(s, t) \/ SmallerSeq(t, s)
<1> DEFINE D == {k \in Nat : k >= Len(s) \/ k >= Len(t) \/ s[k + 1] # t[k + 1]}
<1>1. Len(s) \in Nat /\ Len(t) \in Nat
  BY LenProperties
<1>2. Len(s) \in D
  BY <1>1
<1>3. PICK n \in D : \A k \in D : n <= k
  BY <1>2, LeastExists
<1>4. n \in Nat /\ n <= Len(s) /\ n <= Len(t)
  <2>1. Len(t) \in D
    BY <1>1
  <2> QED
    BY <1>2, <1>3, <2>1
<1>5. Agree(s, t, n) /\ Agree(t, s, n)
  <2>1. ASSUME NEW i \in 1..n PROVE s[i] = t[i]
    <3>1. i - 1 \in Nat /\ ~(n <= i - 1) /\ i - 1 < n /\ i - 1 + 1 = i
      BY <1>4
    <3>2. i - 1 \notin D
      BY <1>3, <3>1
    <3> QED
      BY <3>1, <3>2, <1>1, <1>4
  <2> QED
    BY <1>4, <2>1 DEF Agree
<1>6. CASE n < Len(s) /\ n < Len(t)
  <2>1. n + 1 \in 1..Len(s) /\ n + 1 \in 1..Len(t)
    BY <1>1, <1>4, <1>6
  <2>2. s[n + 1] # t[n + 1] /\ s[n + 1] \in Int /\ t[n + 1] \in Int
    <3>1. (\A i \in 1..Len(s) : s[i] \in Int) /\ \A i \in 1..Len(t) : t[i] \in Int
      BY LenProperties
    <3> QED
      BY <1>1, <1>3, <1>4, <1>6, <2>1, <3>1
  <2>3. s[n + 1] < t[n + 1] \/ t[n + 1] < s[n + 1]
    BY <2>2
  <2> QED
    BY <1>4, <1>5, <1>6, <2>3, SmallerIs DEF PartAt
<1>7. CASE n = Len(s) /\ n < Len(t)
  BY <1>1, <1>4, <1>5, <1>7, SmallerIs DEF PartAt
<1>8. CASE n = Len(t) /\ n < Len(s)
  BY <1>1, <1>4, <1>5, <1>8, SmallerIs DEF PartAt
<1>9. CASE n = Len(s) /\ n = Len(t)
  BY <1>5, <1>9, AgreeWhole
<1> QED
  BY <1>1, <1>4, <1>6, <1>7, <1>8, <1>9

LEMMA SmallerTransitive ==
  ASSUME NEW s \in Seq(Int), NEW t \in Seq(Int), NEW u \in Seq(Int), SmallerSeq(s, t), SmallerSeq(t, u)
  PROVE  SmallerSeq(s, u)
<1>1. Len(s) \in Nat /\ Len(t) \in Nat /\ Len(u) \in Nat
  BY LenProperties
<1>2. PICK n \in Nat : PartAt(s, t, n)
  BY SmallerIs
<1>3. PICK m \in Nat : PartAt(t, u, m)
  BY SmallerIs
<1>4. \A k \in Nat : /\ k < Len(s) => s[k + 1] \in Int
                     /\ k < Len(t) => t[k + 1] \in Int
                     /\ k < Len(u) => u[k + 1] \in Int
  <2>1. (\A i \in 1..Len(s) : s[i] \in Int) /\ (\A i \in 1..Len(t) : t[i] \in Int) /\ \A i \in 1..Len(u) : u[i] \in Int
    BY LenProperties
  <2>2. \A k \in Nat : /\ k < Len(s) => k + 1 \in 1..Len(s)
                       /\ k < Len(t) => k + 1 \in 1..Len(t)
                       /\ k < Len(u) => k + 1 \in 1..Len(u)
    BY <1>1
  <2> QED
    BY <2>1, <2>2
<1>5. CASE n < m
  <2>1. PartAt(s, u, n)
    BY <1>1, <1>2, <1>3, <1>5 DEF PartAt, Agree
  <2> QED
    BY <2>1, SmallerIs
<1>6. CASE m < n
  <2>1. PartAt(s, u, m)
    BY <1>1, <1>2, <1>3, <1>6 DEF PartAt, Agree
  <2> QED
    BY <2>1, SmallerIs
<1>7. CASE n = m
  <2>1. Agree(s, u, n) /\ n < Len(u)
    BY <1>1, <1>2, <1>3, <1>7 DEF PartAt, Agree
  <2>2. n < Len(s) => s[n + 1] < u[n + 1]
    BY <1>1, <1>2, <1>3, <1>4, <1>7 DEF PartAt
  <2>3. PartAt(s, u, n)
    BY <2>1, <2>2 DEF PartAt
  <2> QED
    BY <2>3, SmallerIs
<1> QED
  BY <1>5, <1>6, <1>7

\* A strict order of a set, by what is under each member.
Ordered(S, U) ==
  /\ IsFiniteSet(S) /\ U \in [S -> SUBSET S]
  /\ \A x \in S : x \notin U[x]
  /\ \A x \in S : \A y \in U[x] : U[y] \subseteq U[x]
  /\ \A x, y \in S : x = y \/ x \in U[y] \/ y \in U[x]

Sorts(s, S, U) == Lists(s, S) /\ \A i, j \in 1..Len(s) : i < j => s[i] \in U[s[j]]

LEMMA RanksExist ==
  ASSUME NEW S, NEW U, Ordered(S, U), NEW k \in 1..Cardinality(S)
  PROVE  \E x \in S : Cardinality(U[x]) = k - 1
<1>1. \A m \in 0..Cardinality(S) - 1 : \E x \in S : Cardinality(U[x]) = m
  BY RanksAreTaken DEF Ordered
<1>2. Cardinality(S) \in Nat
  BY FS_CardinalityType DEF Ordered
<1>3. k - 1 \in 0..Cardinality(S) - 1
  BY <1>2
<1> QED
  BY <1>1, <1>3

LEMMA RanksSort ==
  ASSUME NEW S, NEW U, Ordered(S, U), NEW s, DOMAIN s = 1..Cardinality(S), s = [k \in DOMAIN s |-> s[k]],
         \A k \in 1..Cardinality(S) : s[k] \in S /\ Cardinality(U[s[k]]) = k - 1
  PROVE  Sorts(s, S, U)
<1> DEFINE n == Cardinality(S)
<1>1. n \in Nat
  BY FS_CardinalityType DEF Ordered
<1>2. /\ \A x \in S : Cardinality(U[x]) \in 0..n - 1
      /\ \A x \in S : \A y \in U[x] : Cardinality(U[y]) < Cardinality(U[x])
  BY RanksAreTaken DEF Ordered
<1>3. s \in Seq(S) /\ Len(s) = n
  <2>1. s \in [1..n -> S]
    OBVIOUS
  <2>2. s \in Seq(S)
    BY <1>1, <2>1, IsASeq
  <2> HIDE DEF n
  <2> QED
    BY <1>1, <2>1, <2>2, LenProperties
<1>4. \A k \in 1..n : s[k] \in S /\ Cardinality(U[s[k]]) = k - 1
  OBVIOUS
<1>5. \A x, y \in S : x = y \/ x \in U[y] \/ y \in U[x]
  BY DEF Ordered
<1> HIDE DEF n
<1>6. ASSUME NEW i \in 1..n, NEW j \in 1..n, i < j PROVE s[i] \in U[s[j]]
  <2> DEFINE x == s[i]
             y == s[j]
  <2>1. x \in S /\ y \in S /\ Cardinality(U[x]) = i - 1 /\ Cardinality(U[y]) = j - 1
    BY <1>4
  <2> HIDE DEF x, y
  <2>2. x # y /\ ~(Cardinality(U[y]) < Cardinality(U[x]))
    BY <1>1, <1>6, <2>1
  <2>3. y \notin U[x]
    BY <1>2, <2>1, <2>2
  <2> QED
    BY <1>5, <2>1, <2>2, <2>3 DEF x, y
<1>7. ASSUME NEW x \in S PROVE \E i \in 1..n : s[i] = x
  <2> DEFINE r == Cardinality(U[x])
  <2>1. r \in Nat /\ r + 1 \in 1..n /\ (r + 1) - 1 = r
    BY <1>1, <1>2
  <2> DEFINE y == s[r + 1]
  <2>2. y \in S /\ Cardinality(U[y]) = r
    BY <1>4, <2>1
  <2>3. ~(r < Cardinality(U[y])) /\ ~(Cardinality(U[y]) < r)
    BY <2>1, <2>2
  <2>4. y = x
    <3> HIDE DEF y
    <3>1. y \notin U[x] /\ x \notin U[y]
      BY <1>2, <2>2, <2>3
    <3> QED
      BY <1>5, <2>2, <3>1
  <2> QED
    BY <2>1, <2>4
<1>8. ASSUME NEW i \in 1..n, NEW j \in 1..n, s[i] = s[j] PROVE i = j
  BY <1>1, <1>4, <1>8
<1> QED
  BY <1>3, <1>6, <1>7, <1>8 DEF Sorts, Lists

\* Numbers, smallest first.
Ascends(s, S) == Lists(s, S) /\ \A i, j \in 1..Len(s) : i < j => s[i] < s[j]

LEMMA NumbersInOrder ==
  ASSUME NEW S \in SUBSET Nat, IsFiniteSet(S)
  PROVE  Ascends(InOrder(S, <), S)
<1> DEFINE U == [x \in S |-> {y \in S : y < x}]
           n == Cardinality(S)
           s == InOrder(S, <)
<1>1. Ordered(S, U)
  <2>1. U \in [S -> SUBSET S]
    OBVIOUS
  <2>2. \A x \in S : x \notin U[x]
    OBVIOUS
  <2>3. \A x \in S : \A y \in U[x] : U[y] \subseteq U[x]
    <3>1. ASSUME NEW x \in S, NEW y \in U[x], NEW z \in U[y] PROVE z \in U[x]
      <4>1. x \in Nat /\ y \in S /\ y \in Nat /\ y < x /\ z \in S /\ z \in Nat /\ z < y
        OBVIOUS
      <4>2. z < x
        BY <4>1
      <4> QED
        BY <4>1, <4>2
    <3> HIDE DEF U
    <3> QED
      BY <3>1
  <2>4. \A x, y \in S : x = y \/ x \in U[y] \/ y \in U[x]
    OBVIOUS
  <2> HIDE DEF U
  <2> QED
    BY <2>1, <2>2, <2>3, <2>4 DEF Ordered
<1>2. s = [k \in 1..n |-> CHOOSE x \in S : Cardinality({y \in S : y < x}) = k - 1]
  BY Zenon DEF InOrder
<1>3. \A x \in S : U[x] = {y \in S : y < x}
  OBVIOUS
<1> HIDE DEF U, s
<1>4. ASSUME NEW k \in 1..n PROVE s[k] \in S /\ Cardinality(U[s[k]]) = k - 1
  <2>1. \E x \in S : Cardinality({y \in S : y < x}) = k - 1
    <3>1. PICK x \in S : Cardinality(U[x]) = k - 1
      BY <1>1, RanksExist DEF n
    <3>2. U[x] = {y \in S : y < x}
      BY <1>3
    <3> QED
      BY <3>1, <3>2
  <2>2. s[k] = CHOOSE x \in S : Cardinality({y \in S : y < x}) = k - 1
    BY <1>2
  <2>3. s[k] \in S /\ Cardinality({y \in S : y < s[k]}) = k - 1
    BY <2>1, <2>2
  <2> QED
    BY <1>3, <2>3
<1>5. DOMAIN s = 1..n /\ s = [k \in DOMAIN s |-> s[k]]
  BY <1>2
<1>6. Sorts(s, S, U)
  BY <1>1, <1>4, <1>5, RanksSort
<1>7. \A i, j \in 1..Len(s) : i < j => s[i] < s[j]
  <2>1. \A k \in 1..Len(s) : s[k] \in S
    BY <1>6, ListsAll DEF Sorts
  <2> QED
    BY <1>3, <1>6, <2>1 DEF Sorts
<1> QED
  BY <1>6, <1>7 DEF Ascends, Sorts, s

-----------------------------------------------------------------------------
(* The lines of a list, and the words in the builder's order.                 *)

\* The lines that a file may hold, and the lists of which no reading is twice.
RawLine == [text : Seq(Int) \ {<<>>}, freq : Nat, gbk : BOOLEAN, spl : Seq(FullIds)]
NoTwins(S) == \A e, f \in S : e.text = f.text /\ e.spl = f.spl => e = f

LEMMA LineIs ==
  ASSUME NEW e \in RawLine
  PROVE  /\ e.text \in Seq(Int) /\ e.spl \in Seq(FullIds) /\ e.spl \in Seq(Int) /\ e.freq \in Nat
         /\ Len(e.text) \in Nat /\ Len(e.text) > 0 /\ Len(e.spl) \in Nat
<1>1. e.text \in Seq(Int) /\ e.text # <<>> /\ e.spl \in Seq(FullIds) /\ e.freq \in Nat
  BY DEF RawLine
<1>2. FullIds \subseteq Int
  BY DictAssumption DEF FullIds
<1>3. e.spl \in Seq(Int)
  BY <1>1, <1>2, SeqMonotonic
<1>4. Len(e.text) \in Nat \ {0}
  BY <1>1, EmptySeq
<1>5. Len(e.spl) \in Nat
  BY <1>1, LenProperties
<1> QED
  BY <1>1, <1>3, <1>4, <1>5

LEMMA HanziOrders ==
  ASSUME NEW e \in RawLine, NEW f \in RawLine
  PROVE  /\ ~ByHanzi(e, e)
         /\ e.text # f.text \/ e.spl # f.spl => ByHanzi(e, f) \/ ByHanzi(f, e)
<1>1. /\ Len(e.text) \in Nat /\ Len(f.text) \in Nat /\ e.text \in Seq(Int) /\ f.text \in Seq(Int)
      /\ e.spl \in Seq(Int) /\ f.spl \in Seq(Int)
  BY LineIs
<1>2. ~SmallerSeq(e.text, e.text) /\ ~SmallerSeq(e.spl, e.spl)
  BY <1>1, SmallerIrreflexive
<1>3. e.text # f.text => SmallerSeq(e.text, f.text) \/ SmallerSeq(f.text, e.text)
  BY <1>1, SmallerTotal
<1>4. e.spl # f.spl => SmallerSeq(e.spl, f.spl) \/ SmallerSeq(f.spl, e.spl)
  BY <1>1, SmallerTotal
<1> QED
  BY <1>1, <1>2, <1>3, <1>4 DEF ByHanzi

LEMMA HanziTransitive ==
  ASSUME NEW e \in RawLine, NEW f \in RawLine, NEW g \in RawLine, ByHanzi(e, f), ByHanzi(f, g)
  PROVE  ByHanzi(e, g)
<1> DEFINE t == e.text
           u == f.text
           v == g.text
           x == e.spl
           y == f.spl
           z == g.spl
<1>1. /\ Len(t) \in Nat /\ Len(u) \in Nat /\ Len(v) \in Nat /\ t \in Seq(Int) /\ u \in Seq(Int) /\ v \in Seq(Int)
      /\ x \in Seq(Int) /\ y \in Seq(Int) /\ z \in Seq(Int)
  BY LineIs
<1>2. SmallerSeq(t, u) /\ SmallerSeq(u, v) => SmallerSeq(t, v)
  <2> HIDE DEF t, u, v
  <2> QED
    BY <1>1, SmallerTransitive
<1>3. SmallerSeq(x, y) /\ SmallerSeq(y, z) => SmallerSeq(x, z)
  <2> HIDE DEF x, y, z
  <2> QED
    BY <1>1, SmallerTransitive
<1>4. Len(t) < Len(u) \/ (Len(t) = Len(u) /\ (SmallerSeq(t, u) \/ (t = u /\ SmallerSeq(x, y))))
  BY DEF ByHanzi
<1>5. Len(u) < Len(v) \/ (Len(u) = Len(v) /\ (SmallerSeq(u, v) \/ (u = v /\ SmallerSeq(y, z))))
  BY DEF ByHanzi
<1>6. (Len(t) < Len(v) \/ (Len(t) = Len(v) /\ (SmallerSeq(t, v) \/ (t = v /\ SmallerSeq(x, z))))) => ByHanzi(e, g)
  BY DEF ByHanzi
<1> HIDE DEF t, u, v, x, y, z
<1> QED
  BY <1>1, <1>2, <1>3, <1>4, <1>5, <1>6

LEMMA EnteredSorts ==
  ASSUME NEW S \in SUBSET RawLine, IsFiniteSet(S), NoTwins(S)
  PROVE  LET s == InOrder(S, ByHanzi) IN Lists(s, S) /\ \A i, j \in 1..Len(s) : i < j => ByHanzi(s[i], s[j])
<1> DEFINE U == [x \in S |-> {y \in S : ByHanzi(y, x)}]
           n == Cardinality(S)
           s == InOrder(S, ByHanzi)
           c(k) == CHOOSE x \in S : Cardinality({y \in S : ByHanzi(y, x)}) = k - 1
<1>1. Ordered(S, U)
  <2>1. U \in [S -> SUBSET S]
    OBVIOUS
  <2>2. \A x \in S : x \notin U[x]
    BY HanziOrders
  <2>3. \A x \in S : \A y \in U[x] : U[y] \subseteq U[x]
    <3>1. ASSUME NEW x \in S, NEW y \in U[x], NEW z \in U[y] PROVE z \in U[x]
      <4>1. x \in S /\ y \in S /\ ByHanzi(y, x) /\ z \in S /\ ByHanzi(z, y)
        OBVIOUS
      <4>2. ByHanzi(z, x)
        BY <4>1, HanziTransitive
      <4> QED
        BY <4>1, <4>2
    <3> HIDE DEF U
    <3> QED
      BY <3>1
  <2>4. \A x, y \in S : x = y \/ x \in U[y] \/ y \in U[x]
    BY HanziOrders DEF NoTwins
  <2> HIDE DEF U
  <2> QED
    BY <2>1, <2>2, <2>3, <2>4 DEF Ordered
<1>2. s = [k \in 1..n |-> c(k)]
  BY Zenon DEF InOrder
<1>3. \A x \in S : U[x] = {y \in S : ByHanzi(y, x)}
  OBVIOUS
<1> HIDE DEF U, s, c
<1>4. ASSUME NEW k \in 1..n PROVE s[k] \in S /\ Cardinality(U[s[k]]) = k - 1
  <2>1. \E x \in S : Cardinality({y \in S : ByHanzi(y, x)}) = k - 1
    <3>1. PICK x \in S : Cardinality(U[x]) = k - 1
      BY <1>1, RanksExist DEF n
    <3>2. U[x] = {y \in S : ByHanzi(y, x)}
      BY <1>3
    <3> QED
      BY <3>1, <3>2
  <2>2. s[k] = CHOOSE x \in S : Cardinality({y \in S : ByHanzi(y, x)}) = k - 1
    BY <1>2 DEF c
  <2>3. s[k] \in S /\ Cardinality({y \in S : ByHanzi(y, s[k])}) = k - 1
    BY <2>1, <2>2
  <2> QED
    BY <1>3, <2>3
<1>5. DOMAIN s = 1..n /\ s = [k \in DOMAIN s |-> s[k]]
  BY <1>2
<1>6. Sorts(s, S, U)
  BY <1>1, <1>4, <1>5, RanksSort
<1>7. \A i, j \in 1..Len(s) : i < j => ByHanzi(s[i], s[j])
  <2>1. \A k \in 1..Len(s) : s[k] \in S
    BY <1>6, ListsAll DEF Sorts
  <2> QED
    BY <1>3, <1>6, <2>1 DEF Sorts
<1> QED
  BY <1>6, <1>7 DEF Sorts, s

LEMMA FreqOrders ==
  ASSUME NEW e \in RawLine, NEW f \in RawLine
  PROVE  /\ ~ByFreq(e, e)
         /\ e.text # f.text \/ e.spl # f.spl => ByFreq(e, f) \/ ByFreq(f, e)
<1>1. e.freq \in Nat /\ f.freq \in Nat
  BY LineIs
<1> QED
  BY <1>1, HanziOrders DEF ByFreq

LEMMA FreqTransitive ==
  ASSUME NEW e \in RawLine, NEW f \in RawLine, NEW g \in RawLine, ByFreq(e, f), ByFreq(f, g)
  PROVE  ByFreq(e, g)
<1>1. e.freq \in Nat /\ f.freq \in Nat /\ g.freq \in Nat
  BY LineIs
<1>2. ByHanzi(e, f) /\ ByHanzi(f, g) => ByHanzi(e, g)
  BY HanziTransitive
<1> QED
  BY <1>1, <1>2 DEF ByFreq

LEMMA PinyinOrders ==
  ASSUME NEW e \in RawLine, NEW f \in RawLine
  PROVE  /\ ~ByPinyin(e, e)
         /\ e.text # f.text \/ e.spl # f.spl => ByPinyin(e, f) \/ ByPinyin(f, e)
<1>1. e.spl \in Seq(Int) /\ f.spl \in Seq(Int)
  BY LineIs
<1>2. ~SmallerSeq(e.spl, e.spl) /\ (e.spl # f.spl => SmallerSeq(e.spl, f.spl) \/ SmallerSeq(f.spl, e.spl))
  BY <1>1, SmallerIrreflexive, SmallerTotal
<1> QED
  BY <1>2, FreqOrders DEF ByPinyin

LEMMA PinyinTransitive ==
  ASSUME NEW e \in RawLine, NEW f \in RawLine, NEW g \in RawLine, ByPinyin(e, f), ByPinyin(f, g)
  PROVE  ByPinyin(e, g)
<1>1. e.spl \in Seq(Int) /\ f.spl \in Seq(Int) /\ g.spl \in Seq(Int)
  BY LineIs
<1>2. SmallerSeq(e.spl, f.spl) /\ SmallerSeq(f.spl, g.spl) => SmallerSeq(e.spl, g.spl)
  BY <1>1, SmallerTransitive
<1>3. ByFreq(e, f) /\ ByFreq(f, g) => ByFreq(e, g)
  BY FreqTransitive
<1> QED
  BY <1>2, <1>3 DEF ByPinyin

\* The words of a list in the order of the builder.
IsWords(words, S) ==
  /\ S \in SUBSET RawLine /\ IsFiniteSet(S) /\ NoTwins(S)
  /\ Lists(words, S)
  /\ \A i, j \in 1..Len(words) : i < j => ByHanzi(words[i], words[j])

LEMMA WordsAre ==
  ASSUME NEW words, NEW S, IsWords(words, S)
  PROVE  /\ Len(words) \in Nat /\ DOMAIN words = 1..Len(words) /\ words \in Seq(RawLine)
         /\ IsFiniteSet(1..Len(words)) /\ Cardinality(1..Len(words)) = Len(words)
         /\ \A k \in 1..Len(words) : words[k] \in S /\ words[k] \in RawLine
         /\ \A i, j \in 1..Len(words) : words[i].text = words[j].text /\ words[i].spl = words[j].spl => i = j
<1>1. Len(words) \in Nat /\ DOMAIN words = 1..Len(words) /\ \A k \in 1..Len(words) : words[k] \in S
  BY ListsAll DEF IsWords
<1>2. words \in Seq(S) /\ S \subseteq RawLine /\ \A i, j \in 1..Len(words) : words[i] = words[j] => i = j
  BY DEF IsWords, Lists
<1>3. words \in Seq(RawLine)
  BY <1>2, SeqMonotonic
<1>4. IsFiniteSet(1..Len(words)) /\ Cardinality(1..Len(words)) = Len(words)
  <2>1. 1 \in Int /\ Len(words) \in Int /\ (1 > Len(words) => Len(words) = 0)
    BY <1>1
  <2>2. IsFiniteSet(1..Len(words)) /\ Cardinality(1..Len(words)) = IF 1 > Len(words) THEN 0 ELSE Len(words) - 1 + 1
    BY <2>1, FS_Interval
  <2> QED
    BY <1>1, <2>1, <2>2
<1>5. \A i, j \in 1..Len(words) : words[i].text = words[j].text /\ words[i].spl = words[j].spl => i = j
  BY <1>1, <1>2 DEF IsWords, NoTwins
<1> QED
  BY <1>1, <1>2, <1>3, <1>4, <1>5

LEMMA ItemsSorted ==
  ASSUME NEW words, NEW W, IsWords(words, W)
  PROVE  /\ Lists(ByPinyinOrder(words), 1..Len(words))
         /\ \A i, j \in 1..Len(ByPinyinOrder(words)) : i < j => ByPinyin(words[ByPinyinOrder(words)[i]], words[ByPinyinOrder(words)[j]])
<1> DEFINE S == 1..Len(words)
           U == [x \in S |-> {y \in S : ByPinyin(words[y], words[x])}]
           n == Cardinality(S)
           s == ByPinyinOrder(words)
           c(k) == CHOOSE x \in S : Cardinality({y \in S : ByPinyin(words[y], words[x])}) = k - 1
<1>1. Ordered(S, U)
  <2>0. IsFiniteSet(S) /\ \A x \in S : words[x] \in RawLine
    BY WordsAre
  <2>1. U \in [S -> SUBSET S]
    OBVIOUS
  <2>2. \A x \in S : x \notin U[x]
    BY <2>0, PinyinOrders
  <2>3. \A x \in S : \A y \in U[x] : U[y] \subseteq U[x]
    <3>1. ASSUME NEW x \in S, NEW y \in U[x], NEW z \in U[y] PROVE z \in U[x]
      <4>1. x \in S /\ y \in S /\ ByPinyin(words[y], words[x]) /\ z \in S /\ ByPinyin(words[z], words[y])
        OBVIOUS
      <4>2. ByPinyin(words[z], words[x])
        BY <2>0, <4>1, PinyinTransitive
      <4> QED
        BY <4>1, <4>2
    <3> HIDE DEF U
    <3> QED
      BY <3>1
  <2>4. \A x, y \in S : x = y \/ x \in U[y] \/ y \in U[x]
    <3>1. \A x, y \in S : words[x].text = words[y].text /\ words[x].spl = words[y].spl => x = y
      BY WordsAre
    <3> QED
      BY <2>0, <3>1, PinyinOrders
  <2> HIDE DEF U
  <2> QED
    BY <2>0, <2>1, <2>2, <2>3, <2>4 DEF Ordered
<1>2. s = [k \in 1..n |-> c(k)]
  BY Zenon DEF InOrder, ByPinyinOrder
<1>3. \A x \in S : U[x] = {y \in S : ByPinyin(words[y], words[x])}
  OBVIOUS
<1> HIDE DEF U, s, c
<1>4. ASSUME NEW k \in 1..n PROVE s[k] \in S /\ Cardinality(U[s[k]]) = k - 1
  <2>1. \E x \in S : Cardinality({y \in S : ByPinyin(words[y], words[x])}) = k - 1
    <3>1. PICK x \in S : Cardinality(U[x]) = k - 1
      BY <1>1, RanksExist DEF n
    <3>2. U[x] = {y \in S : ByPinyin(words[y], words[x])}
      BY <1>3
    <3> QED
      BY <3>1, <3>2
  <2>2. s[k] = CHOOSE x \in S : Cardinality({y \in S : ByPinyin(words[y], words[x])}) = k - 1
    BY <1>2 DEF c
  <2>3. s[k] \in S /\ Cardinality({y \in S : ByPinyin(words[y], words[s[k]])}) = k - 1
    BY <2>1, <2>2
  <2> QED
    BY <1>3, <2>3
<1>5. DOMAIN s = 1..n /\ s = [k \in DOMAIN s |-> s[k]]
  BY <1>2
<1>6. Sorts(s, S, U)
  BY <1>1, <1>4, <1>5, RanksSort
<1>7. \A i, j \in 1..Len(s) : i < j => ByPinyin(words[s[i]], words[s[j]])
  <2>1. \A k \in 1..Len(s) : s[k] \in S
    BY <1>6, ListsAll DEF Sorts
  <2> QED
    BY <1>3, <1>6, <2>1 DEF Sorts
<1> QED
  BY <1>6, <1>7 DEF Sorts, s

-----------------------------------------------------------------------------
(* Folds whose values stay in sets, one for each step.                        *)

IsRunIn(f, I, n, base, G) ==
  /\ f = [k \in 0..n |-> f[k]] /\ f[0] = base
  /\ \A k \in 0..n : f[k] \in I[k]
  /\ \A k \in 1..n : f[k] = G[<<f[k - 1], k>>]

LEMMA RunExists ==
  ASSUME NEW n \in Nat, NEW I, NEW base \in I[0], NEW G, \A k \in 1..n : \A x \in I[k - 1] : G[<<x, k>>] \in I[k]
  PROVE  \E f : IsRunIn(f, I, n, base, G)
<1> DEFINE A == {m \in Nat : m <= n => \E f : IsRunIn(f, I, m, base, G)}
<1>1. 0 \in A
  <2> DEFINE f == [k \in 0..0 |-> base]
  <2>1. f = [k \in 0..0 |-> f[k]] /\ f[0] = base /\ (\A k \in 0..0 : f[k] \in I[k]) /\ \A k \in 1..0 : f[k] = G[<<f[k - 1], k>>]
    OBVIOUS
  <2> HIDE DEF f
  <2>2. IsRunIn(f, I, 0, base, G)
    BY <2>1 DEF IsRunIn
  <2> QED
    BY <2>2
<1>2. ASSUME NEW m \in A PROVE m + 1 \in A
  <2> SUFFICES ASSUME m + 1 <= n PROVE \E f : IsRunIn(f, I, m + 1, base, G)
    OBVIOUS
  <2>1. m \in Nat /\ m <= n
    OBVIOUS
  <2>2. PICK f : IsRunIn(f, I, m, base, G)
    BY <2>1
  <2>3. /\ f[0] = base /\ \A k \in 0..m : f[k] \in I[k]
        /\ \A k \in 1..m : f[k] = G[<<f[k - 1], k>>]
    BY <2>2 DEF IsRunIn
  <2> DEFINE g == [k \in 0..m + 1 |-> IF k = m + 1 THEN G[<<f[m], m + 1>>] ELSE f[k]]
  <2>4. g = [k \in 0..m + 1 |-> g[k]] /\ g[0] = base
    BY <2>1, <2>3
  <2>5. ASSUME NEW k \in 0..m + 1 PROVE g[k] \in I[k]
    <3>1. CASE k = m + 1
      <4>1. m + 1 \in 1..n /\ (m + 1) - 1 = m /\ m \in 0..m /\ m + 1 \in 0..m + 1
        BY <2>1
      <4>2. f[m] \in I[(m + 1) - 1]
        BY <2>3, <4>1
      <4>3. G[<<f[m], m + 1>>] \in I[m + 1]
        BY <4>1, <4>2
      <4>4. g[m + 1] = G[<<f[m], m + 1>>]
        BY <4>1
      <4> HIDE DEF g
      <4> QED
        BY <3>1, <4>3, <4>4
    <3>2. CASE k # m + 1
      <4>1. k \in 0..m
        BY <2>1, <3>2
      <4> QED
        BY <2>3, <3>2, <4>1
    <3> QED
      BY <3>1, <3>2
  <2>6. ASSUME NEW k \in 1..m + 1 PROVE g[k] = G[<<g[k - 1], k>>]
    <3>1. k - 1 \in 0..m /\ k - 1 \in 0..m + 1 /\ k - 1 # m + 1 /\ g[k - 1] = f[k - 1]
      BY <2>1
    <3>2. CASE k = m + 1
      BY <2>1, <3>1, <3>2
    <3>3. CASE k # m + 1
      BY <2>1, <2>3, <3>1, <3>3
    <3> QED
      BY <3>2, <3>3
  <2> HIDE DEF g
  <2>7. IsRunIn(g, I, m + 1, base, G)
    BY <2>4, <2>5, <2>6, Zenon DEF IsRunIn
  <2> QED
    BY <2>7
<1>3. A = Nat
  <2> HIDE DEF A
  <2>1. A \in SUBSET Nat
    BY DEF A
  <2> QED
    BY <1>1, <1>2, <2>1, Induction
<1>4. n \in A
  <2> HIDE DEF A
  <2> QED
    BY <1>3
<1> QED
  BY <1>4

LEMMA StaysIn ==
  ASSUME NEW n \in Nat, NEW I, NEW g, g[0] \in I[0], \A k \in 1..n : g[k - 1] \in I[k - 1] => g[k] \in I[k]
  PROVE  \A k \in 0..n : g[k] \in I[k]
<1> DEFINE A == {k \in Nat : k <= n => g[k] \in I[k]}
<1>1. 0 \in A
  OBVIOUS
<1>2. ASSUME NEW k \in A PROVE k + 1 \in A
  <2> SUFFICES ASSUME k + 1 <= n PROVE g[k + 1] \in I[k + 1]
    OBVIOUS
  <2>1. k \in Nat /\ k <= n /\ k + 1 \in 1..n /\ (k + 1) - 1 = k
    OBVIOUS
  <2>2. g[k] \in I[k]
    BY <2>1
  <2> QED
    BY <2>1, <2>2
<1>3. A = Nat
  <2> HIDE DEF A
  <2>1. A \in SUBSET Nat
    BY DEF A
  <2> QED
    BY <1>1, <1>2, <2>1, Induction
<1> QED
  BY <1>3

-----------------------------------------------------------------------------
(* The trie.                                                                  *)

LEMMA FrontAndLast ==
  ASSUME NEW T, NEW p \in Seq(T), NEW x \in T
  PROVE  /\ Append(p, x) \in Seq(T) /\ Append(p, x) # <<>> /\ Len(Append(p, x)) = Len(p) + 1 /\ Len(p) \in Nat
         /\ Front(Append(p, x)) = p /\ Append(p, x)[Len(p) + 1] = x
         /\ \A i \in 1..Len(p) : Append(p, x)[i] = p[i]
<1> DEFINE q == Append(p, x)
<1>1. /\ q \in Seq(T) /\ q # <<>> /\ Len(q) = Len(p) + 1
      /\ \A i \in 1..Len(p) : q[i] = p[i]
  BY AppendProperties
<1>2. q[Len(p) + 1] = x
  BY AppendProperties
<1>3. Len(p) \in Nat
  BY LenProperties
<1> HIDE DEF q
<1>4. SubSeq(q, 1, Len(p)) = SubSeq(p, 1, Len(p))
  <2>1. Agree(q, p, Len(p))
    BY <1>1, <1>3 DEF Agree
  <2> QED
    BY <1>1, <1>3, <2>1, SameStart
<1>5. SubSeq(p, 1, Len(p)) = p
  BY SubSeqFull
<1>6. Front(q) = p
  <2>1. Len(q) - 1 = Len(p)
    BY <1>1, <1>3
  <2> QED
    BY <1>4, <1>5, <2>1 DEF Front
<1> QED
  BY <1>1, <1>2, <1>3, <1>6 DEF q

LEMMA BeginIs ==
  ASSUME NEW T, NEW s \in Seq(T), NEW n \in Nat, n <= Len(s)
  PROVE  SubSeq(s, 1, n) \in Seq(T) /\ Len(SubSeq(s, 1, n)) = n /\ \A i \in 1..n : SubSeq(s, 1, n)[i] = s[i]
<1> DEFINE a == SubSeq(s, 1, n)
<1>1. \A i \in 1..n : s[i] \in T
  <2>1. Len(s) \in Nat /\ \A i \in 1..Len(s) : s[i] \in T
    BY LenProperties
  <2> QED
    BY <2>1
<1>2. /\ a \in Seq(T) /\ Len(a) = IF 1 <= n THEN n - 1 + 1 ELSE 0
      /\ \A i \in 1..n - 1 + 1 : a[i] = s[1 + i - 1]
  <2>1. 1 \in Int /\ n \in Int
    OBVIOUS
  <2> QED
    BY <1>1, <2>1, SubSeqProperties
<1>3. n - 1 + 1 = n /\ (1 <= n \/ n = 0) /\ \A i \in 1..n : 1 + i - 1 = i
  OBVIOUS
<1> HIDE DEF a
<1>4. a \in Seq(T) /\ Len(a) = n /\ \A i \in 1..n : a[i] = s[i]
  BY <1>2, <1>3
<1> QED
  BY <1>4 DEF a

LEMMA NodeIs ==
  ASSUME NEW words, NEW S, IsWords(words, S), NEW p
  PROVE  p \in NodesOf(words) <=>
           p \in Seq(FullIds) /\ \E k \in 1..Len(words) : Agree(p, words[k].spl, Len(p))
<1>1. ASSUME NEW k \in 1..Len(words)
      PROVE  words[k].spl \in Seq(FullIds) /\ Len(words[k].spl) \in Nat
  BY WordsAre, LineIs
<1>2. ASSUME NEW k \in 1..Len(words), NEW n \in 0..Len(words[k].spl), p = SubSeq(words[k].spl, 1, n)
      PROVE  p \in Seq(FullIds) /\ Agree(p, words[k].spl, Len(p))
  <2> DEFINE s == words[k].spl
  <2>1. s \in Seq(FullIds) /\ Len(s) \in Nat /\ n \in Nat /\ n <= Len(s) /\ p = SubSeq(s, 1, n)
    BY <1>1, <1>2
  <2> HIDE DEF s
  <2>2. p \in Seq(FullIds) /\ Len(p) = n /\ \A i \in 1..n : p[i] = s[i]
    BY <2>1, BeginIs
  <2> QED
    BY <2>1, <2>2 DEF Agree, s
<1>3. ASSUME p \in Seq(FullIds), NEW k \in 1..Len(words), Agree(p, words[k].spl, Len(p))
      PROVE  Len(p) \in 0..Len(words[k].spl) /\ p = SubSeq(words[k].spl, 1, Len(p))
  <2> DEFINE s == words[k].spl
             n == Len(p)
  <2>1. s \in Seq(FullIds) /\ Len(s) \in Nat /\ n \in Nat /\ n <= Len(s) /\ Agree(p, s, n)
    BY <1>1, <1>3, LenProperties DEF Agree
  <2>2. n <= n
    BY <2>1
  <2>3. SubSeq(p, 1, n) = SubSeq(s, 1, n)
    <3> HIDE DEF s
    <3> QED
      BY <1>3, <2>1, <2>2, SameStart
  <2>4. SubSeq(p, 1, n) = p
    BY <1>3, SubSeqFull
  <2> QED
    BY <2>1, <2>3, <2>4
<1>4. p \in NodesOf(words) <=> \E k \in 1..Len(words) : \E n \in 0..Len(words[k].spl) : p = SubSeq(words[k].spl, 1, n)
  BY DEF NodesOf
<1> QED
  BY <1>2, <1>3, <1>4

LEMMA NodesAre ==
  ASSUME NEW words, NEW S, IsWords(words, S)
  PROVE  /\ IsFiniteSet(NodesOf(words)) /\ NodesOf(words) \subseteq Seq(FullIds)
         /\ \A k \in 1..Len(words) : words[k].spl \in NodesOf(words)
         /\ \A p \in Seq(FullIds) : \A x \in FullIds : Append(p, x) \in NodesOf(words) => p \in NodesOf(words)
         /\ words # <<>> => <<>> \in NodesOf(words)
<1> DEFINE D == 1..Len(words)
           T(k) == {SubSeq(words[k].spl, 1, n) : n \in 0..Len(words[k].spl)}
           TT == {T(k) : k \in D}
<1>1. IsFiniteSet(D)
  BY WordsAre
<1>2. ASSUME NEW k \in D PROVE IsFiniteSet(T(k))
  <2> DEFINE s == words[k].spl
             f == [n \in 0..Len(s) |-> SubSeq(s, 1, n)]
  <2>1. Len(s) \in Nat
    BY WordsAre, LineIs
  <2>2. IsFiniteSet(0..Len(s))
    <3>1. 0 \in Int /\ Len(s) \in Int
      BY <2>1
    <3> QED
      BY <3>1, FS_Interval
  <2>3. f \in [0..Len(s) -> T(k)] /\ \A t \in T(k) : \E n \in 0..Len(s) : f[n] = t
    OBVIOUS
  <2> HIDE DEF f, T, s
  <2> QED
    BY <2>2, <2>3, ReachedIsFinite
<1>3. IsFiniteSet(TT)
  <2> DEFINE f == [k \in D |-> T(k)]
  <2>1. f \in [D -> TT] /\ \A t \in TT : \E k \in D : f[k] = t
    OBVIOUS
  <2> HIDE DEF f, TT, D
  <2> QED
    BY <1>1, <2>1, ReachedIsFinite
<1>4. IsFiniteSet(NodesOf(words))
  <2>1. \A t \in TT : IsFiniteSet(t)
    <3> HIDE DEF T, D
    <3> QED
      BY <1>2
  <2>2. NodesOf(words) = UNION TT
    BY DEF NodesOf
  <2> HIDE DEF TT
  <2> QED
    BY <1>3, <2>1, <2>2, FS_UNION
<1>5. NodesOf(words) \subseteq Seq(FullIds)
  BY NodeIs
<1>6. ASSUME NEW k \in D PROVE words[k].spl \in NodesOf(words)
  <2> DEFINE s == words[k].spl
  <2>1. s \in Seq(FullIds) /\ Len(s) \in Nat
    BY WordsAre, LineIs
  <2>2. Agree(s, s, Len(s))
    BY <2>1 DEF Agree
  <2> QED
    BY <2>1, <2>2, NodeIs
<1>7. ASSUME NEW p \in Seq(FullIds), NEW x \in FullIds, Append(p, x) \in NodesOf(words) PROVE p \in NodesOf(words)
  <2> DEFINE q == Append(p, x)
  <2>1. Len(q) = Len(p) + 1 /\ Len(p) \in Nat /\ \A i \in 1..Len(p) : q[i] = p[i]
    BY FrontAndLast
  <2>2. PICK k \in D : Agree(q, words[k].spl, Len(q))
    BY <1>7, NodeIs
  <2>3. Len(words[k].spl) \in Nat
    BY WordsAre, LineIs
  <2> HIDE DEF q
  <2>4. Agree(p, words[k].spl, Len(p))
    BY <2>1, <2>2, <2>3 DEF Agree
  <2> QED
    BY <2>4, NodeIs
<1>8. words # <<>> => <<>> \in NodesOf(words)
  <2> SUFFICES ASSUME words # <<>> PROVE <<>> \in NodesOf(words)
    OBVIOUS
  <2>1. Len(words) \in Nat \ {0}
    BY WordsAre, EmptySeq
  <2>2. 1 \in D
    BY <2>1
  <2>3. Len(words[1].spl) \in Nat
    BY <2>2, WordsAre, LineIs
  <2>4. <<>> \in Seq(FullIds) /\ Len(<<>>) = 0
    OBVIOUS
  <2>5. Agree(<<>>, words[1].spl, Len(<<>>))
    BY <2>3, <2>4 DEF Agree
  <2> QED
    BY <2>2, <2>4, <2>5, NodeIs
<1> QED
  BY <1>4, <1>5, <1>6, <1>7, <1>8

\* The ids that follow a node, and what it means to hold the words' trie.
SonIds(words, p) == {x \in FullIds : Append(p, x) \in NodesOf(words)}
IsTrie(d, words) ==
  /\ \A p \in NodesOf(words) : Lists(d.homos[p], {k \in 1..Len(words) : words[k].spl = p})
  /\ \A p \in NodesOf(words) : Ascends(d.sons[p], SonIds(words, p))
  /\ DOMAIN d.homos = NodesOf(words)

\* Behind a common beginning the smaller sequence goes on no higher.
LEMMA Behind ==
  ASSUME NEW s \in Seq(Int), NEW t \in Seq(Int), SmallerSeq(s, t), NEW p, NEW n \in Nat, Agree(p, s, n), Agree(p, t, n)
  PROVE  n < Len(t) /\ (n < Len(s) => s[n + 1] <= t[n + 1])
<1>1. PICK m \in Nat : PartAt(s, t, m)
  BY SmallerIs
<1>2. Len(s) \in Nat /\ Len(t) \in Nat /\ (\A i \in 1..Len(s) : s[i] \in Int) /\ \A i \in 1..Len(t) : t[i] \in Int
  BY LenProperties
<1>3. n <= m
  <2> SUFFICES ASSUME m < n PROVE FALSE
    BY <1>1
  <2>1. m + 1 \in 1..n /\ m < Len(s) /\ m + 1 \in 1..Len(s)
    BY <1>1, <1>2 DEF Agree
  <2>2. s[m + 1] = t[m + 1] /\ s[m + 1] \in Int
    BY <1>2, <2>1 DEF Agree
  <2> QED
    BY <1>1, <2>1, <2>2 DEF PartAt
<1>4. CASE n = m
  <2>1. n < Len(t) /\ (n < Len(s) => s[n + 1] < t[n + 1])
    BY <1>1, <1>4 DEF PartAt
  <2>2. n < Len(s) => n + 1 \in 1..Len(s) /\ n + 1 \in 1..Len(t)
    BY <1>2, <2>1
  <2>3. n < Len(s) => s[n + 1] \in Int /\ t[n + 1] \in Int
    BY <1>2, <2>2
  <2> QED
    BY <2>1, <2>3
<1>5. CASE n < m
  <2>1. Agree(s, t, m) /\ n + 1 \in 1..m /\ m <= Len(s) /\ m <= Len(t)
    BY <1>1, <1>5 DEF PartAt, Agree
  <2>2. s[n + 1] = t[n + 1] /\ n + 1 \in 1..Len(s)
    BY <1>2, <2>1 DEF Agree
  <2>3. s[n + 1] \in Int
    BY <1>2, <2>2
  <2> QED
    BY <1>2, <1>5, <2>1, <2>2, <2>3
<1> QED
  BY <1>3, <1>4, <1>5

\* The places of a row of numbers that do not fall where a new number begins.
BeginsIn(c, r, t) == {i \in r..t : i = r \/ c[i] # c[i - 1]}
Rises(c, r, t) == (\A i \in r..t : c[i] \in Nat) /\ \A i, j \in r..t : i <= j => c[i] <= c[j]
UpTo(c, r, t, m) == Min({j - 1 : j \in {j \in BeginsIn(c, r, t) : j > m}} \cup {t})

LEMMA RunBegins ==
  ASSUME NEW r \in Nat \ {0}, NEW t \in Nat, NEW c, Rises(c, r, t), NEW k \in r..t
  PROVE  \E m \in BeginsIn(c, r, t) :
           /\ c[m] = c[k] /\ m <= k
           /\ \A j \in BeginsIn(c, r, t) : c[j] = c[k] => j = m
           /\ \A i \in r..t : c[i] = c[k] => m <= i
<1> DEFINE X == {i \in r..t : c[i] = c[k]}
<1>1. X \in SUBSET Nat /\ k \in X
  OBVIOUS
<1>2. PICK m \in X : \A y \in X : m <= y
  <2> HIDE DEF X
  <2> QED
    BY <1>1, LeastExists
<1>3. m \in BeginsIn(c, r, t)
  <2> SUFFICES ASSUME m # r, c[m] = c[m - 1] PROVE FALSE
    BY DEF BeginsIn
  <2>1. m - 1 \in r..t
    OBVIOUS
  <2>2. m - 1 \in X
    BY <2>1
  <2>3. m <= m - 1
    BY <1>2, <2>2
  <2> QED
    BY <2>3
<1>4. ASSUME NEW j \in BeginsIn(c, r, t), c[j] = c[k] PROVE j = m
  <2>1. j \in r..t /\ (j = r \/ c[j] # c[j - 1]) /\ j \in X
    BY <1>4 DEF BeginsIn
  <2>2. m <= j
    BY <1>2, <2>1
  <2>3. ASSUME m < j PROVE FALSE
    <3>1. j - 1 \in r..t /\ m <= j - 1 /\ j - 1 <= j /\ j # r
      BY <2>1, <2>3
    <3>2. c[m] <= c[j - 1] /\ c[j - 1] <= c[j] /\ c[j - 1] \in Nat /\ c[j] \in Nat
      BY <2>1, <3>1 DEF Rises
    <3>3. c[m] = c[j]
      BY <1>4
    <3> QED
      BY <2>1, <3>1, <3>2, <3>3
  <2> QED
    BY <2>1, <2>2, <2>3
<1> QED
  BY <1>1, <1>2, <1>3, <1>4

LEMMA RunEnds ==
  ASSUME NEW r \in Nat \ {0}, NEW t \in Nat, NEW c, Rises(c, r, t), NEW m \in BeginsIn(c, r, t)
  PROVE  /\ UpTo(c, r, t, m) \in m..t
         /\ \A i \in r..t : c[i] = c[m] <=> i \in m..UpTo(c, r, t, m)
<1> DEFINE X == {i \in r..t : c[i] = c[m]}
           B == BeginsIn(c, r, t)
           N == {j - 1 : j \in {j \in B : j > m}} \cup {t}
<1>1. m \in r..t /\ X \in SUBSET Nat /\ m \in X /\ \A x \in X : x <= t
  BY DEF BeginsIn
<1>2. PICK e \in X : \A y \in X : y <= e
  <2> HIDE DEF X
  <2> QED
    BY <1>1, GreatestExists
<1>3. e \in m..t /\ e \in r..t /\ c[e] = c[m]
  BY <1>1, <1>2
<1>4. ASSUME NEW i \in m..e PROVE i \in X
  <2>1. i \in r..t /\ m <= i /\ i <= e
    BY <1>1, <1>3
  <2>2. c[m] <= c[i] /\ c[i] <= c[e] /\ c[i] \in Nat /\ c[m] \in Nat
    BY <1>1, <1>3, <2>1 DEF Rises
  <2> QED
    BY <1>3, <2>1, <2>2
<1>5. ASSUME NEW i \in X PROVE m <= i
  <2> SUFFICES ASSUME i < m PROVE FALSE
    BY <1>1
  <2>1. i \in r..t /\ m # r /\ c[m] # c[m - 1]
    BY <1>1 DEF BeginsIn
  <2>2. m - 1 \in r..t /\ i <= m - 1 /\ m - 1 <= m
    BY <1>1, <2>1
  <2>3. c[i] <= c[m - 1] /\ c[m - 1] <= c[m] /\ c[m - 1] \in Nat /\ c[m] \in Nat
    BY <1>1, <2>1, <2>2 DEF Rises
  <2> QED
    BY <2>1, <2>3
<1>6. e \in N /\ \A y \in N : e <= y
  <2>1. e = t \/ e + 1 \in {j \in B : j > m}
    <3> SUFFICES ASSUME e # t PROVE e + 1 \in B /\ e + 1 > m
      OBVIOUS
    <3>1. e + 1 \in r..t /\ e + 1 > m /\ (e + 1) - 1 = e
      BY <1>1, <1>3
    <3>2. e + 1 \notin X
      <4>1. ~(e + 1 <= e)
        BY <1>3
      <4> QED
        BY <1>2, <4>1
    <3> QED
      BY <1>3, <3>1, <3>2 DEF BeginsIn
  <2>2. e \in N
    <3>1. (e + 1) - 1 = e
      BY <1>3
    <3> QED
      BY <2>1, <3>1
  <2>3. ASSUME NEW j \in B, j > m PROVE e <= j - 1
    <3>1. j \in r..t /\ (j = r \/ c[j] # c[j - 1])
      BY DEF BeginsIn
    <3> SUFFICES ASSUME j <= e PROVE FALSE
      BY <1>3, <3>1
    <3>2. j \in m..e /\ j - 1 \in m..e /\ j # r
      BY <1>1, <1>3, <2>3, <3>1
    <3> QED
      BY <1>4, <3>1, <3>2
  <2> QED
    BY <1>3, <2>2, <2>3
<1>7. UpTo(c, r, t, m) = e
  <2>1. N \in SUBSET Nat
    <3>1. \A j \in B : j - 1 \in Nat
      BY DEF BeginsIn
    <3> QED
      BY <3>1
  <2>2. UpTo(c, r, t, m) = CHOOSE x \in N : \A y \in N : x <= y
    BY Zenon DEF UpTo, Min
  <2> HIDE DEF N
  <2>3. \A x \in N : (\A y \in N : x <= y) => x = e
    BY <1>6, <2>1
  <2> QED
    BY <1>6, <2>2, <2>3
<1>8. ASSUME NEW i \in r..t PROVE c[i] = c[m] <=> i \in m..e
  <2>1. i \in X => i \in m..e
    BY <1>2, <1>3, <1>5
  <2> QED
    BY <1>4, <2>1
<1> QED
  BY <1>3, <1>7, <1>8

\* Places of an interval that come before the others.
LEMMA FirstOnes ==
  ASSUME NEW a \in Nat, NEW b \in Nat, NEW H \in SUBSET (a..b), \A j \in H : a..j \subseteq H
  PROVE  IsFiniteSet(H) /\ Cardinality(H) \in Nat /\ H = a..a + Cardinality(H) - 1
<1>1. a \in Int /\ b \in Int /\ IsFiniteSet(a..b)
  BY FS_Interval
<1>2. IsFiniteSet(H) /\ Cardinality(H) \in Nat
  BY <1>1, FS_Subset, FS_CardinalityType
<1>3. CASE H = {}
  <2>1. Cardinality(H) = 0
    BY <1>3, FS_EmptySet
  <2> QED
    BY <1>2, <1>3, <2>1
<1>4. CASE H # {}
  <2>1. H \in SUBSET Nat /\ \A x \in H : x <= b
    OBVIOUS
  <2>2. PICK e \in H : \A y \in H : y <= e
    BY <1>4, <2>1, GreatestExists
  <2>3. e \in Nat /\ a <= e /\ H = a..e
    <3>1. e \in a..b /\ a..e \subseteq H
      OBVIOUS
    <3>2. \A y \in H : y \in a..e
      BY <2>2
    <3>3. H = a..e
      BY <3>1, <3>2
    <3> QED
      BY <3>1, <3>3
  <2>4. Cardinality(a..e) = e - a + 1
    <3>1. a \in Int /\ e \in Int /\ ~(a > e)
      BY <2>3
    <3>2. Cardinality(a..e) = IF a > e THEN 0 ELSE e - a + 1
      BY <3>1, FS_Interval
    <3> QED
      BY <3>1, <3>2
  <2>5. Cardinality(H) = e - a + 1 /\ a + (e - a + 1) - 1 = e
    BY <2>3, <2>4
  <2> QED
    BY <1>2, <2>3, <2>5
<1> QED
  BY <1>3, <1>4

-----------------------------------------------------------------------------
(* The scan that makes the trie.                                              *)

Spl(words, items, i) == words[items[i]].spl

\* Words in the order of their spellings.
IsScanned(words, items) ==
  /\ Lists(items, 1..Len(words))
  /\ \A i \in 1..Len(items) : Spl(words, items, i) \in Seq(FullIds) /\ Spl(words, items, i) \in Seq(Int)
                              /\ Spl(words, items, i) # <<>>
  /\ \A i, j \in 1..Len(items) : i <= j =>
       Spl(words, items, i) = Spl(words, items, j) \/ SmallerSeq(Spl(words, items, i), Spl(words, items, j))

\* The places of the items that begin with p: those that end there, then the rest.
IsPart(words, items, part, p) ==
  /\ part.from \in Nat \ {0} /\ part.rest \in Nat /\ part.to \in Nat
  /\ part.from <= part.rest /\ part.rest <= part.to + 1 /\ part.to <= Len(items)
  /\ \A i \in 1..Len(items) : Agree(p, Spl(words, items, i), Len(p)) <=> i \in part.from..part.to
  /\ \A i \in 1..Len(items) : Spl(words, items, i) = p <=> i \in part.from..part.rest - 1

\* The ids behind p, item by item.
IdsAt(words, items, part, level) == [i \in part.rest..part.to |-> Spl(words, items, i)[level]]

LEMMA RestRises ==
  ASSUME NEW words, NEW items, IsScanned(words, items), NEW p \in Seq(FullIds), NEW part,
         IsPart(words, items, part, p)
  PROVE  LET c == IdsAt(words, items, part, Len(p) + 1)
         IN  /\ Rises(c, part.rest, part.to)
             /\ SonBegins(words, items, part, Len(p) + 1) = BeginsIn(c, part.rest, part.to)
             /\ part.rest \in Nat \ {0} /\ part.to \in Nat
             /\ \A i \in part.rest..part.to :
                  /\ i \in 1..Len(items) /\ Len(p) < Len(Spl(words, items, i)) /\ c[i] \in FullIds
                  /\ Agree(p, Spl(words, items, i), Len(p)) /\ c[i] = Spl(words, items, i)[Len(p) + 1]
<1> DEFINE n == Len(p)
           l == n + 1
           c == IdsAt(words, items, part, l)
           r == part.rest
           t == part.to
           s(i) == Spl(words, items, i)
<1>1. /\ n \in Nat /\ l \in Nat /\ r \in Nat \ {0} /\ t \in Nat /\ Len(items) \in Nat
      /\ \A i \in r..t : i \in 1..Len(items) /\ i \in part.from..t /\ i \notin part.from..r - 1
  <2>1. n \in Nat /\ Len(items) \in Nat
    BY LenProperties, ListsAll DEF IsScanned
  <2> HIDE DEF n
  <2> QED
    BY <2>1 DEF IsPart
<1>2. /\ \A i \in 1..Len(items) : s(i) \in Seq(FullIds) /\ s(i) \in Seq(Int)
      /\ \A i, j \in 1..Len(items) : i <= j => s(i) = s(j) \/ SmallerSeq(s(i), s(j))
  BY DEF IsScanned
<1>3. ASSUME NEW i \in r..t PROVE Agree(p, s(i), n) /\ s(i) # p
  <2>1. i \in 1..Len(items) /\ i \in part.from..t /\ i \notin part.from..r - 1
    BY <1>1
  <2> QED
    BY <2>1 DEF IsPart
<1> HIDE DEF s, r, t, n
<1>4. ASSUME NEW i \in r..t PROVE n < Len(s(i)) /\ s(i)[l] \in FullIds /\ Len(s(i)) \in Nat
  <2>1. s(i) \in Seq(FullIds) /\ Agree(p, s(i), n) /\ s(i) # p
    BY <1>1, <1>2, <1>3
  <2> DEFINE u == s(i)
  <2> HIDE DEF u
  <2>2. u \in Seq(FullIds) /\ Agree(p, u, n) /\ u # p
    BY <2>1 DEF u
  <2>3. Len(u) \in Nat /\ n <= Len(u) /\ \A j \in 1..Len(u) : u[j] \in FullIds
    BY <2>2, LenProperties DEF Agree
  <2>4. Len(u) # n
    <3> SUFFICES ASSUME Len(u) = n PROVE p = u
      BY <2>2
    <3> QED
      BY <2>2, AgreeWhole DEF n
  <2>5. n < Len(u) /\ l \in 1..Len(u)
    BY <1>1, <2>3, <2>4
  <2> QED
    BY <2>3, <2>5 DEF u
<1>5. \A i \in r..t : c[i] = s(i)[l]
  BY DEF IdsAt, s, r, t
<1> HIDE DEF c
<1>6. FullIds \subseteq Nat
  BY DictAssumption DEF FullIds
<1>7. ASSUME NEW i \in r..t, NEW j \in r..t, i <= j PROVE c[i] <= c[j]
  <2>1. CASE s(i) = s(j)
    <3>1. c[i] = c[j]
      BY <1>5, <2>1
    <3>2. c[i] \in Nat
      BY <1>4, <1>5, <1>6
    <3> QED
      BY <3>1, <3>2
  <2>2. CASE SmallerSeq(s(i), s(j))
    <3> DEFINE u == s(i)
               v == s(j)
    <3>1. u \in Seq(Int) /\ v \in Seq(Int) /\ SmallerSeq(u, v) /\ Agree(p, u, n) /\ Agree(p, v, n) /\ n < Len(u)
      BY <1>1, <1>2, <1>3, <1>4, <2>2
    <3> HIDE DEF u, v
    <3>2. u[n + 1] <= v[n + 1]
      BY <1>1, <3>1, Behind
    <3> QED
      BY <1>5, <3>2 DEF u, v
  <2> QED
    BY <1>1, <1>2, <1>7, <2>1, <2>2
<1>8. Rises(c, r, t)
  BY <1>4, <1>5, <1>6, <1>7 DEF Rises
<1>9. SonBegins(words, items, part, l) = BeginsIn(c, r, t)
  <2>1. SonBegins(words, items, part, l) = {i \in r..t : i = r \/ s(i)[l] # s(i - 1)[l]}
    BY DEF SonBegins, Spl, s, r, t
  <2>2. \A i \in r..t : i # r => i - 1 \in r..t
    BY <1>1
  <2>3. \A i \in r..t : i = r \/ s(i)[l] # s(i - 1)[l] <=> i = r \/ c[i] # c[i - 1]
    BY <1>5, <2>2
  <2> QED
    BY <2>1, <2>3 DEF BeginsIn
<1> QED
  BY <1>1, <1>3, <1>4, <1>5, <1>8, <1>9 DEF c, s, r, t, n, l

\* One more id: the son's part.
LEMMA SonPartIs ==
  ASSUME NEW words, NEW items, IsScanned(words, items), NEW p \in Seq(FullIds), NEW part,
         IsPart(words, items, part, p), NEW x \in FullIds, NEW k \in 1..Len(items),
         Agree(Append(p, x), Spl(words, items, k), Len(p) + 1)
  PROVE  IsPart(words, items, SonPart(words, items, part, Len(p) + 1, x), Append(p, x))
<1> DEFINE n == Len(p)
           l == n + 1
           c == IdsAt(words, items, part, l)
           r == part.rest
           t == part.to
           s(i) == Spl(words, items, i)
           q == Append(p, x)
           B == BeginsIn(c, r, t)
           m == CHOOSE i \in B : s(i)[l] = x
           e == UpTo(c, r, t, m)
           H == {i \in m..e : Len(s(i)) = l}
           son == SonPart(words, items, part, l, x)
<1>1. /\ Rises(c, r, t) /\ SonBegins(words, items, part, l) = B /\ r \in Nat \ {0} /\ t \in Nat
      /\ \A i \in r..t : /\ i \in 1..Len(items) /\ n < Len(s(i)) /\ c[i] \in FullIds
                         /\ Agree(p, s(i), n) /\ c[i] = s(i)[l]
  BY RestRises
<1>2. q \in Seq(FullIds) /\ Len(q) = l /\ n \in Nat /\ l \in Nat /\ q[l] = x /\ \A i \in 1..n : q[i] = p[i]
  BY FrontAndLast
<1>3. /\ Len(items) \in Nat /\ t <= Len(items)
      /\ \A i \in 1..Len(items) : s(i) \in Seq(FullIds) /\ s(i) \in Seq(Int) /\ Len(s(i)) \in Nat
      /\ \A i, j \in 1..Len(items) : i <= j => s(i) = s(j) \/ SmallerSeq(s(i), s(j))
  <2>1. Len(items) \in Nat
    BY ListsAll DEF IsScanned
  <2>2. \A i \in 1..Len(items) : s(i) \in Seq(FullIds) /\ s(i) \in Seq(Int)
    BY DEF IsScanned
  <2> HIDE DEF s
  <2>3. \A i \in 1..Len(items) : Len(s(i)) \in Nat
    BY <2>2, LenProperties
  <2> QED
    BY <2>1, <2>2, <2>3 DEF IsScanned, IsPart, s
<1>4. \A i \in 1..Len(items) : Agree(p, s(i), n) /\ s(i) # p <=> i \in r..t
  <2>1. /\ part.from \in Nat /\ r \in Nat /\ t \in Nat /\ part.from <= r
        /\ \A i \in 1..Len(items) : Agree(p, s(i), n) <=> i \in part.from..t
        /\ \A i \in 1..Len(items) : s(i) = p <=> i \in part.from..r - 1
    BY DEF IsPart
  <2> HIDE DEF s, r, t, n
  <2> QED
    BY <2>1
<1> HIDE DEF n, c, r, t, s, q
<1>5. ASSUME NEW i \in 1..Len(items) PROVE Agree(q, s(i), l) <=> i \in r..t /\ c[i] = x
  <2>1. ASSUME Agree(q, s(i), l) PROVE Agree(p, s(i), n) /\ n < Len(s(i)) /\ s(i)[l] = x
    <3>1. l <= Len(s(i)) /\ Len(s(i)) \in Nat /\ \A j \in 1..l : q[j] = s(i)[j]
      BY <1>3, <2>1 DEF Agree
    <3>2. n < Len(s(i)) /\ n <= Len(s(i)) /\ l \in 1..l /\ n <= Len(p) /\ \A j \in 1..n : j \in 1..l
      BY <1>2, <3>1 DEF n
    <3> QED
      BY <1>2, <3>1, <3>2 DEF Agree
  <2>2. Agree(p, s(i), n) /\ n < Len(s(i)) => s(i) # p
    BY <1>2 DEF n
  <2>3. i \in r..t /\ c[i] = x => Agree(q, s(i), l)
    <3> SUFFICES ASSUME i \in r..t, c[i] = x PROVE Agree(q, s(i), l)
      OBVIOUS
    <3>1. Agree(p, s(i), n) /\ n < Len(s(i)) /\ s(i)[l] = x /\ Len(s(i)) \in Nat
      BY <1>1, <1>3
    <3> QED
      BY <1>2, <3>1 DEF Agree
  <2> QED
    BY <1>1, <1>4, <2>1, <2>2, <2>3
<1>6. k \in r..t /\ c[k] = x
  BY <1>5 DEF q, s, l, n
<1>7. /\ m \in B /\ c[m] = x /\ m \in r..t
  <2>1. PICK y \in B : c[y] = x
    BY <1>1, <1>6, RunBegins
  <2>2. \A i \in B : i \in r..t /\ c[i] = s(i)[l]
    BY <1>1 DEF BeginsIn
  <2>3. \E i \in B : s(i)[l] = x
    BY <2>1, <2>2
  <2> HIDE DEF B
  <2>4. m \in B /\ s(m)[l] = x
    BY <2>3
  <2> QED
    BY <2>2, <2>4
<1>8. e \in m..t /\ \A i \in r..t : c[i] = x <=> i \in m..e
  <2> HIDE DEF m, e
  <2>1. UpTo(c, r, t, m) \in m..t /\ \A i \in r..t : c[i] = c[m] <=> i \in m..UpTo(c, r, t, m)
    BY <1>1, <1>7, RunEnds
  <2> QED
    BY <1>7, <2>1 DEF e
<1>9. son = [from |-> m, rest |-> m + Cardinality(H), to |-> e]
  <2>1. SonBegins(words, items, part, l) = B
    BY <1>1
  <2>2. son = LET begins == SonBegins(words, items, part, l)
                  from   == CHOOSE i \in begins : words[items[i]].spl[l] = x
                  to     == Min({j - 1 : j \in {j \in begins : j > from}} \cup {part.to})
                  homos  == {i \in from..to : Len(words[items[i]].spl) = l}
              IN  [from |-> from, rest |-> from + Cardinality(homos), to |-> to]
    BY Zenon DEF SonPart
  <2> HIDE DEF B
  <2> QED
    BY <2>1, <2>2, Zenon DEF UpTo, Spl, s, t, B
<1> HIDE DEF m, e, B
<1>10. m \in Nat \ {0} /\ e \in Nat /\ m <= e /\ e <= t /\ r <= m
  BY <1>1, <1>7, <1>8
<1>11. ASSUME NEW i \in 1..Len(items) PROVE Agree(q, s(i), l) <=> i \in m..e
  <2>1. i \in m..e => i \in r..t
    BY <1>1, <1>10
  <2> QED
    BY <1>5, <1>8, <2>1
<1>12. ASSUME NEW i \in 1..Len(items) PROVE s(i) = q <=> i \in H
  <2>1. ASSUME s(i) = q PROVE Agree(q, s(i), l) /\ Len(s(i)) = l
    BY <1>2, <2>1 DEF Agree
  <2>2. ASSUME Agree(q, s(i), l), Len(s(i)) = l PROVE s(i) = q
    <3> DEFINE u == s(i)
    <3>1. u \in Seq(FullIds) /\ Len(q) = Len(u) /\ Agree(q, u, Len(q))
      BY <1>2, <1>3, <2>2
    <3> HIDE DEF u
    <3>2. q = u
      BY <1>2, <3>1, AgreeWhole
    <3> QED
      BY <3>2 DEF u
  <2> QED
    BY <1>11, <2>1, <2>2
<1>13. ASSUME NEW j \in H, NEW i \in m..j PROVE i \in H
  <2>1. i \in m..e /\ i \in 1..Len(items) /\ j \in 1..Len(items) /\ i <= j /\ j \in m..e
    BY <1>1, <1>3, <1>10
  <2>2. s(j) = q
    BY <1>12, <2>1
  <2>3. Agree(q, s(i), l) /\ Agree(q, s(j), l)
    BY <1>11, <2>1
  <2>4. ~SmallerSeq(s(i), s(j))
    <3> SUFFICES ASSUME SmallerSeq(s(i), s(j)) PROVE FALSE
      OBVIOUS
    <3> DEFINE u == s(i)
               v == s(j)
    <3>1. u \in Seq(Int) /\ v \in Seq(Int) /\ SmallerSeq(u, v) /\ Agree(q, u, l) /\ Agree(q, v, l)
      BY <1>3, <2>1, <2>3
    <3>2. Len(v) = l
      BY <1>2, <2>2
    <3> HIDE DEF u, v
    <3>3. l < Len(v)
      BY <1>2, <3>1, Behind
    <3> QED
      BY <1>2, <3>2, <3>3
  <2>5. s(i) = q
    BY <1>3, <2>1, <2>2, <2>4
  <2> QED
    BY <1>12, <2>1, <2>5
<1>14. H = m..m + Cardinality(H) - 1 /\ Cardinality(H) \in Nat
  <2>1. m \in Nat /\ e \in Nat /\ H \in SUBSET (m..e) /\ \A j \in H : m..j \subseteq H
    BY <1>10, <1>13
  <2> HIDE DEF H
  <2> QED
    BY <2>1, FirstOnes
<1> DEFINE h == Cardinality(H)
<1>15. h <= e + 1 - m
  <2>1. \A i \in H : i <= e
    OBVIOUS
  <2> HIDE DEF H
  <2>2. h # 0 => m + h - 1 \in H
    BY <1>10, <1>14
  <2> QED
    BY <1>10, <1>14, <2>1, <2>2
<1>16. \A i \in 1..Len(items) : s(i) = q <=> i \in m..m + h - 1
  BY <1>12, <1>14
<1> HIDE DEF H, h
<1>17. son.from = m /\ son.rest = m + h /\ son.to = e
  <2> HIDE DEF son
  <2> QED
    BY <1>9 DEF h
<1>18. h \in Nat
  BY <1>14 DEF h
<1> HIDE DEF son, l
<1>19. /\ m <= m + h /\ m + h <= e + 1 /\ e <= Len(items) /\ m + h \in Nat
  <2>1. Len(items) \in Nat /\ t <= Len(items) /\ t \in Nat
    BY <1>1, <1>3
  <2>2. m \in Nat /\ e \in Nat /\ e <= t /\ h <= e + 1 - m
    BY <1>10, <1>15
  <2> QED
    BY <1>18, <2>1, <2>2
<1>20. IsPart(words, items, son, q)
  <2>1. \A i \in 1..Len(items) : Agree(q, s(i), Len(q)) <=> i \in son.from..son.to
    BY <1>2, <1>11, <1>17
  <2>2. \A i \in 1..Len(items) : s(i) = q <=> i \in son.from..son.rest - 1
    <3>1. son.from..son.rest - 1 = m..m + h - 1
      BY <1>10, <1>17, <1>18
    <3> QED
      BY <1>16, <3>1, Zenon
  <2>3. /\ son.from \in Nat \ {0} /\ son.rest \in Nat /\ son.to \in Nat
        /\ son.from <= son.rest /\ son.rest <= son.to + 1 /\ son.to <= Len(items)
    BY <1>10, <1>17, <1>19
  <2> QED
    BY <2>1, <2>2, <2>3 DEF IsPart, s
<1> QED
  BY <1>20 DEF son, q, l, n

PartRec == [from : Nat, rest : Nat, to : Nat]

LEMMA PartRoot ==
  ASSUME NEW words, NEW items, IsScanned(words, items)
  PROVE  IsPart(words, items, [from |-> 1, rest |-> 1, to |-> Len(items)], <<>>)
<1> DEFINE r == [from |-> 1, rest |-> 1, to |-> Len(items)]
<1>1. r.from = 1 /\ r.rest = 1 /\ r.to = Len(items) /\ Len(items) \in Nat
  BY ListsAll DEF IsScanned
<1> HIDE DEF r
<1>2. ASSUME NEW i \in 1..Len(items) PROVE Agree(<<>>, Spl(words, items, i), Len(<<>>))
  <2> DEFINE u == Spl(words, items, i)
  <2>1. u \in Seq(FullIds)
    BY DEF IsScanned
  <2> HIDE DEF u
  <2>2. Len(u) \in Nat
    BY <2>1, LenProperties
  <2>3. Len(<<>>) = 0
    OBVIOUS
  <2>4. Agree(<<>>, u, 0)
    BY <2>2, <2>3 DEF Agree
  <2> QED
    BY <2>3, <2>4 DEF u
<1>3. \A i \in 1..Len(items) : Spl(words, items, i) # <<>>
  BY DEF IsScanned
<1>4. IsPart(words, items, r, <<>>)
  BY <1>1, <1>2, <1>3 DEF IsPart
<1> QED
  BY <1>4 DEF r

LEMMA PartIsOf ==
  ASSUME NEW words, NEW items, IsScanned(words, items), NEW p \in Seq(FullIds), NEW k \in 1..Len(items),
         Agree(p, Spl(words, items, k), Len(p))
  PROVE  IsPart(words, items, PartOf(words, items, p), p)
<1> DEFINE n == Len(p)
           s == [j \in 1..n |-> j]
           base == [from |-> 1, rest |-> 1, to |-> Len(items)]
           Pre(j) == SubSeq(p, 1, j)
           Op(x, j) == SonPart(words, items, x, j, p[j])
           I == [j \in 0..n |-> {x \in PartRec : IsPart(words, items, x, Pre(j))}]
           G == [y \in PartRec \X (1..n) |-> Op(y[1], y[2])]
           Is(f) == f = [j \in 0..n |-> IF j = 0 THEN base ELSE Op(f[j - 1], s[j])]
<1>1. n \in Nat /\ \A j \in 1..n : p[j] \in FullIds
  BY LenProperties
<1>2. \A j \in 0..n : \A x : x \in I[j] <=> x \in PartRec /\ IsPart(words, items, x, Pre(j))
  OBVIOUS
<1>3. base \in I[0]
  <2>1. Pre(0) = <<>> /\ 0 \in 0..n
    BY <1>1
  <2>2. base \in PartRec
    <3>1. Len(items) \in Nat
      BY ListsAll DEF IsScanned
    <3> QED
      BY <3>1 DEF PartRec
  <2>3. IsPart(words, items, base, <<>>)
    BY PartRoot
  <2> HIDE DEF base, Pre, I
  <2> QED
    BY <1>2, <2>1, <2>2, <2>3
<1>4. ASSUME NEW j \in 1..n, NEW x \in I[j - 1] PROVE Op(x, j) \in I[j] /\ x \in PartRec
  <2> DEFINE m == j - 1
             q == Pre(m)
             z == Op(x, j)
  <2>1. m \in 0..n /\ j \in 0..n /\ m \in Nat /\ m + 1 = j /\ m <= Len(p) /\ j <= Len(p) /\ j \in Nat /\ p[j] \in FullIds
    BY <1>1
  <2>2. x \in PartRec /\ IsPart(words, items, x, q)
    <3> HIDE DEF I, Pre
    <3> QED
      BY <1>2, <2>1
  <2>3. q \in Seq(FullIds) /\ Len(q) = m /\ \A i \in 1..m : q[i] = p[i]
    BY <2>1, BeginIs
  <2>4. Pre(j) \in Seq(FullIds) /\ Len(Pre(j)) = j /\ \A i \in 1..j : Pre(j)[i] = p[i]
    BY <2>1, BeginIs
  <2> HIDE DEF Pre, I, q, n
  <2>5. Pre(j) = Append(q, p[j])
    <3> DEFINE a == Append(q, p[j])
               b == Pre(j)
    <3>1. /\ a \in Seq(FullIds) /\ Len(a) = m + 1 /\ a[m + 1] = p[j]
          /\ \A i \in 1..m : a[i] = q[i]
      BY <2>1, <2>3, FrontAndLast
    <3>2. b \in Seq(FullIds) /\ Len(b) = j /\ \A i \in 1..j : b[i] = p[i]
      BY <2>4
    <3> HIDE DEF a, b, m
    <3>3. Len(a) = Len(b) /\ Agree(a, b, Len(a))
      BY <2>1, <2>3, <3>1, <3>2 DEF Agree
    <3>4. a = b
      BY <3>1, <3>2, <3>3, AgreeWhole
    <3> QED
      BY <3>4 DEF a, b
  <2>6. Agree(Append(q, p[j]), Spl(words, items, k), m + 1)
    <3>1. Len(p) <= Len(Spl(words, items, k)) /\ \A i \in 1..Len(p) : p[i] = Spl(words, items, k)[i]
      BY DEF Agree
    <3> DEFINE u == Spl(words, items, k)
    <3>2. Len(u) \in Nat
      <4>1. u \in Seq(FullIds)
        BY DEF IsScanned
      <4> QED
        BY <4>1, LenProperties
    <3> HIDE DEF u
    <3>3. Len(p) <= Len(u) /\ Len(u) \in Nat /\ \A i \in 1..Len(p) : p[i] = u[i]
      BY <3>1, <3>2 DEF u
    <3>4. Agree(Pre(j), u, j)
      BY <1>1, <2>1, <2>4, <3>3 DEF Agree, n
    <3> QED
      BY <2>1, <2>5, <3>4 DEF u
  <2>7. IsPart(words, items, SonPart(words, items, x, m + 1, p[j]), Append(q, p[j]))
    <3>1. Agree(Append(q, p[j]), Spl(words, items, k), Len(q) + 1) /\ p[j] \in FullIds /\ Len(q) = m
      BY <2>1, <2>3, <2>6
    <3> HIDE DEF m
    <3> QED
      BY <2>2, <2>3, <3>1, SonPartIs
  <2>8. IsPart(words, items, z, Pre(j))
    BY <2>1, <2>5, <2>7
  <2>9. z \in PartRec
    <3>1. z.from \in Nat /\ z.rest \in Nat /\ z.to \in Nat
      <4> HIDE DEF z
      <4> QED
        BY <2>8 DEF IsPart
    <3>2. \E a, b, c : z = [from |-> a, rest |-> b, to |-> c]
      BY Zenon DEF SonPart
    <3> HIDE DEF z
    <3>3. PICK a, b, c : z = [from |-> a, rest |-> b, to |-> c]
      BY <3>2
    <3>4. a \in Nat /\ b \in Nat /\ c \in Nat
      BY <3>1, <3>3
    <3> QED
      BY <3>3, <3>4 DEF PartRec
  <2> HIDE DEF z
  <2> QED
    BY <1>2, <2>1, <2>2, <2>8, <2>9 DEF z
<1>5. \A x \in PartRec : \A j \in 1..n : G[<<x, j>>] = Op(x, j) /\ s[j] = j
  <2> HIDE DEF Op, n
  <2> QED
    OBVIOUS
<1>6. Pre(n) = p
  BY SubSeqFull
<1> HIDE DEF Op, I, G, n, base, s, Pre
<1>7. \E f : Is(f)
  <2>1. \A j \in 1..n : \A x \in I[j - 1] : G[<<x, j>>] \in I[j]
    BY <1>4, <1>5
  <2>2. PICK f : IsRunIn(f, I, n, base, G)
    BY <1>1, <1>3, <2>1, RunExists
  <2>3. ASSUME NEW j \in 0..n PROVE f[j] = IF j = 0 THEN base ELSE Op(f[j - 1], s[j])
    <3>1. CASE j = 0
      BY <2>2, <3>1 DEF IsRunIn
    <3>2. CASE j # 0
      <4>1. j \in 1..n /\ j - 1 \in 0..n
        BY <1>1, <3>2
      <4>2. f[j - 1] \in I[j - 1] /\ f[j] = G[<<f[j - 1], j>>]
        BY <2>2, <4>1 DEF IsRunIn
      <4>3. f[j - 1] \in PartRec
        BY <1>4, <4>1, <4>2
      <4> QED
        BY <1>5, <3>2, <4>1, <4>2, <4>3
    <3> QED
      BY <3>1, <3>2
  <2>4. f = [j \in 0..n |-> f[j]]
    BY <2>2 DEF IsRunIn
  <2>5. [j \in 0..n |-> f[j]] = [j \in 0..n |-> IF j = 0 THEN base ELSE Op(f[j - 1], s[j])]
    BY <2>3
  <2>6. Is(f)
    BY <2>4, <2>5
  <2> HIDE DEF Is
  <2> QED
    BY <2>6
<1> DEFINE g == CHOOSE f : Is(f)
<1>8. Is(g)
  <2> HIDE DEF Is
  <2> QED
    BY <1>7
<1>9. PartOf(words, items, p) = g[n]
  <2>1. Len(s) = n
    BY <1>1 DEF s
  <2> DEFINE gg == CHOOSE f : f = [j \in 0..Len(s) |-> IF j = 0 THEN base ELSE Op(f[j - 1], s[j])]
  <2>2. PartOf(words, items, p) = gg[Len(s)]
    BY Zenon DEF PartOf, Step, s, Op, base, n
  <2>3. gg = g
    BY <2>1
  <2> HIDE DEF g, gg
  <2> QED
    BY <2>1, <2>2, <2>3
<1> HIDE DEF g
<1>10. g[0] = base /\ \A j \in 1..n : g[j] = Op(g[j - 1], j)
  <2>1. 0 \in 0..n /\ \A j \in 1..n : j \in 0..n /\ j # 0 /\ s[j] = j
    BY <1>1 DEF s
  <2> QED
    BY <1>8, <2>1
<1>11. \A j \in 0..n : g[j] \in I[j]
  <2>1. \A j \in 1..n : g[j - 1] \in I[j - 1] => g[j] \in I[j]
    BY <1>4, <1>10
  <2>2. g[0] \in I[0]
    BY <1>3, <1>10
  <2> QED
    BY <1>1, <2>1, <2>2, StaysIn
<1>12. IsPart(words, items, g[n], p)
  <2>1. n \in 0..n
    BY <1>1
  <2> QED
    BY <1>2, <1>6, <1>11, <2>1
<1> QED
  BY <1>9, <1>12

\* The scan begins with the words in the order of their spellings.
LEMMA ItemsScanned ==
  ASSUME NEW words, NEW S, IsWords(words, S), \A k \in 1..Len(words) : words[k].spl # <<>>
  PROVE  IsScanned(words, ByPinyinOrder(words))
<1> DEFINE items == ByPinyinOrder(words)
           D == 1..Len(words)
<1>1. Lists(items, D) /\ \A i, j \in 1..Len(items) : i < j => ByPinyin(words[items[i]], words[items[j]])
  BY ItemsSorted
<1> HIDE DEF items
<1>2. \A i \in 1..Len(items) : items[i] \in D
  BY <1>1, ListsAll
<1>3. ASSUME NEW i \in 1..Len(items)
      PROVE  Spl(words, items, i) \in Seq(FullIds) /\ Spl(words, items, i) \in Seq(Int) /\ Spl(words, items, i) # <<>>
  <2>1. items[i] \in D
    BY <1>2
  <2>2. words[items[i]] \in RawLine
    BY <2>1, WordsAre
  <2> QED
    BY <2>1, <2>2, LineIs DEF Spl
<1>4. ASSUME NEW i \in 1..Len(items), NEW j \in 1..Len(items), i <= j
      PROVE  Spl(words, items, i) = Spl(words, items, j) \/ SmallerSeq(Spl(words, items, i), Spl(words, items, j))
  <2>1. CASE i = j
    BY <2>1
  <2>2. CASE i < j
    BY <1>1, <2>2 DEF ByPinyin, Spl
  <2>3. i \in Int /\ j \in Int
    BY <1>1, ListsAll
  <2> QED
    BY <1>4, <2>1, <2>2, <2>3
<1>5. IsScanned(words, items)
  BY <1>1, <1>3, <1>4 DEF IsScanned
<1> QED
  BY <1>5 DEF items

\* The words of a node are those of its spelling.
LEMMA HomosListed ==
  ASSUME NEW words, NEW items, IsScanned(words, items), NEW p, NEW part, IsPart(words, items, part, p)
  PROVE  Lists(HomosOf(items, part), {k \in 1..Len(words) : words[k].spl = p})
<1> DEFINE a == part.from
           b == part.rest - 1
           K == {k \in 1..Len(words) : words[k].spl = p}
           t == HomosOf(items, part)
<1>1. /\ a \in Nat \ {0} /\ b \in Int /\ a <= b + 1 /\ b <= Len(items)
      /\ \A i \in 1..Len(items) : Spl(words, items, i) = p <=> i \in a..b
  BY ListsAll DEF IsPart, IsScanned
<1>2. /\ Len(items) \in Nat /\ (\A i \in 1..Len(items) : items[i] \in 1..Len(words))
      /\ \A k \in 1..Len(words) : \E i \in 1..Len(items) : items[i] = k
      /\ \A i, j \in 1..Len(items) : items[i] = items[j] => i = j
  BY ListsAll DEF IsScanned, Lists
<1>3. t = SubSeq(items, a, b)
  BY DEF HomosOf
<1> HIDE DEF a, b, t
<1>4. \A i \in a..b : i \in 1..Len(items) /\ items[i] \in K
  <2>1. \A i \in a..b : i \in 1..Len(items)
    BY <1>1, <1>2
  <2> QED
    BY <1>1, <1>2, <2>1 DEF Spl
<1>5. /\ t \in Seq(K) /\ Len(t) = b - a + 1
      /\ \A i \in 1..Len(t) : t[i] = items[a + i - 1]
  <2>1. \A i \in a..b : items[i] \in K
    BY <1>4
  <2> HIDE DEF K
  <2>2. a \in Int /\ b \in Int
    BY <1>1
  <2>3. /\ t \in Seq(K) /\ Len(t) = IF a <= b THEN b - a + 1 ELSE 0
        /\ \A i \in 1..b - a + 1 : t[i] = items[a + i - 1]
    BY <1>3, <2>1, <2>2, SubSeqProperties
  <2>4. Len(t) = b - a + 1
    BY <1>1, <2>2, <2>3
  <2> QED
    BY <2>3, <2>4
<1>6. ASSUME NEW k \in K PROVE \E i \in 1..Len(t) : t[i] = k
  <2>1. PICK i \in 1..Len(items) : items[i] = k
    BY <1>2
  <2>2. i \in a..b
    BY <1>1, <2>1 DEF Spl
  <2>3. i - a + 1 \in 1..Len(t) /\ a + (i - a + 1) - 1 = i
    BY <1>1, <1>5, <2>2
  <2>4. t[i - a + 1] = items[i]
    BY <1>5, <2>3
  <2> QED
    BY <2>1, <2>3, <2>4
<1>7. ASSUME NEW i \in 1..Len(t), NEW j \in 1..Len(t), t[i] = t[j] PROVE i = j
  <2>1. a + i - 1 \in a..b /\ a + j - 1 \in a..b
    BY <1>1, <1>5
  <2>2. items[a + i - 1] = items[a + j - 1]
    BY <1>5, <1>7
  <2>3. a + i - 1 = a + j - 1
    BY <1>2, <1>4, <2>1, <2>2
  <2> QED
    BY <1>1, <1>5, <2>3
<1> QED
  BY <1>5, <1>6, <1>7 DEF Lists, t

\* The sons of a node are the ids that follow it, smallest first.
LEMMA SonsAscend ==
  ASSUME NEW words, NEW S, IsWords(words, S), NEW items, IsScanned(words, items), NEW p \in Seq(FullIds), NEW part,
         IsPart(words, items, part, p)
  PROVE  Ascends(SonsOf(words, items, part, Len(p) + 1), SonIds(words, p))
<1> DEFINE n == Len(p)
           l == n + 1
           c == IdsAt(words, items, part, l)
           r == part.rest
           t == part.to
           s(i) == Spl(words, items, i)
           B == SonBegins(words, items, part, l)
           b == InOrder(B, <)
           X == SonIds(words, p)
           o == SonsOf(words, items, part, l)
<1>1. /\ Rises(c, r, t) /\ B = BeginsIn(c, r, t) /\ r \in Nat \ {0} /\ t \in Nat
      /\ \A i \in r..t : /\ i \in 1..Len(items) /\ n < Len(s(i)) /\ c[i] \in FullIds
                         /\ Agree(p, s(i), n) /\ c[i] = s(i)[l]
  BY RestRises
<1>2. /\ Len(items) \in Nat /\ (\A i \in 1..Len(items) : items[i] \in 1..Len(words))
      /\ \A k \in 1..Len(words) : \E i \in 1..Len(items) : items[i] = k
  BY ListsAll DEF IsScanned, Lists
<1>3. n \in Nat /\ l \in Nat /\ FullIds \subseteq Nat
  BY LenProperties, DictAssumption DEF FullIds
<1>4. \A i \in 1..Len(items) : s(i) = words[items[i]].spl /\ s(i) \in Seq(FullIds)
  BY DEF IsScanned, Spl
<1>5. \A i \in 1..Len(items) : Agree(p, s(i), n) /\ s(i) # p => i \in r..t
  <2>1. /\ part.from \in Nat /\ r \in Nat /\ t \in Nat
        /\ \A i \in 1..Len(items) : Agree(p, s(i), n) <=> i \in part.from..t
        /\ \A i \in 1..Len(items) : s(i) = p <=> i \in part.from..r - 1
    BY DEF IsPart
  <2> HIDE DEF s, r, t, n
  <2> QED
    BY <1>2, <2>1
<1>6. o = [k \in 1..Len(b) |-> words[items[b[k]]].spl[l]]
  BY Zenon DEF SonsOf
<1>7. B \in SUBSET (r..t) /\ B \in SUBSET Nat /\ IsFiniteSet(B)
  <2>1. B \in SUBSET (r..t)
    BY <1>1 DEF BeginsIn
  <2>2. IsFiniteSet(r..t)
    <3>1. r \in Int /\ t \in Int
      BY <1>1
    <3> QED
      BY <3>1, FS_Interval
  <2> HIDE DEF B, r, t
  <2> QED
    BY <1>1, <2>1, <2>2, FS_Subset
<1> HIDE DEF B, c, r, t, s, n, o, X
<1>8. Ascends(b, B)
  BY <1>7, NumbersInOrder
<1> HIDE DEF b
<1>9. /\ Len(b) \in Nat /\ (\A k \in 1..Len(b) : b[k] \in B) /\ (\A i \in B : \E k \in 1..Len(b) : b[k] = i)
      /\ \A i, j \in 1..Len(b) : i < j => b[i] < b[j]
  BY <1>8, ListsAll DEF Ascends, Lists
<1>10. ASSUME NEW k \in 1..Len(b) PROVE o[k] = c[b[k]] /\ o[k] \in X /\ o[k] \in Nat
  <2> DEFINE i == b[k]
             q == Append(p, c[i])
             u == s(i)
  <2>1. i \in r..t /\ i \in 1..Len(items) /\ n < Len(u) /\ c[i] \in FullIds /\ Agree(p, u, n) /\ c[i] = u[l]
    BY <1>1, <1>7, <1>9
  <2>2. u = words[items[i]].spl /\ u \in Seq(FullIds) /\ Len(u) \in Nat /\ items[i] \in 1..Len(words)
    <3>1. u = words[items[i]].spl /\ u \in Seq(FullIds) /\ items[i] \in 1..Len(words)
      BY <1>2, <1>4, <2>1
    <3> HIDE DEF u
    <3> QED
      BY <3>1, LenProperties
  <2>3. o[k] = c[i]
    BY <1>6, <2>1, <2>2
  <2>4. q \in Seq(FullIds) /\ Len(q) = l /\ q[l] = c[i] /\ \A j \in 1..n : q[j] = p[j]
    BY <2>1, FrontAndLast DEF n
  <2> HIDE DEF u, q, i
  <2>5. Agree(q, u, l)
    <3>1. \A j \in 1..n : p[j] = u[j]
      BY <2>1 DEF Agree
    <3>2. l <= Len(u)
      BY <1>3, <2>1, <2>2
    <3>3. \A j \in 1..l : q[j] = u[j]
      <4>1. \A j \in 1..l : j \in 1..n \/ j = l
        BY <1>3
      <4> QED
        BY <2>1, <2>4, <3>1, <4>1
    <3> QED
      BY <1>3, <2>4, <3>2, <3>3 DEF Agree
  <2>6. q \in NodesOf(words)
    BY <2>2, <2>4, <2>5, NodeIs
  <2>7. c[i] \in X
    BY <2>1, <2>6 DEF SonIds, X, q
  <2> QED
    BY <1>3, <2>1, <2>3, <2>7 DEF i
<1>11. ASSUME NEW i \in B, NEW j \in B, i < j PROVE c[i] < c[j]
  <2>1. i \in r..t /\ j \in r..t /\ i <= j /\ i \in Nat /\ j \in Nat
    BY <1>1, <1>7, <1>11
  <2>2. c[i] <= c[j] /\ c[i] \in Nat /\ c[j] \in Nat
    BY <1>1, <2>1 DEF Rises
  <2>3. c[i] # c[j]
    <3> SUFFICES ASSUME c[i] = c[j] PROVE FALSE
      OBVIOUS
    <3>1. Rises(c, r, t) /\ r \in Nat \ {0} /\ t \in Nat /\ i \in r..t
      BY <1>1, <2>1
    <3>2. PICK m \in BeginsIn(c, r, t) : \A y \in BeginsIn(c, r, t) : c[y] = c[i] => y = m
      BY <3>1, RunBegins
    <3>3. i = m /\ j = m
      BY <1>1, <3>2
    <3> QED
      BY <1>11, <2>1, <3>3
  <2> QED
    BY <2>2, <2>3
<1>12. Len(o) = Len(b) /\ o \in Seq(X)
  <2>1. o = [k \in 1..Len(b) |-> o[k]]
    BY <1>6
  <2>2. o \in [1..Len(b) -> X]
    BY <1>10, <2>1
  <2> QED
    BY <1>9, <2>1, <2>2, SeqDef
<1>13. \A i, j \in 1..Len(o) : i < j => o[i] < o[j]
  BY <1>9, <1>10, <1>11, <1>12
<1>14. \A i, j \in 1..Len(o) : o[i] = o[j] => i = j
  <2>1. \A i \in 1..Len(o) : o[i] \in Nat /\ i \in Nat
    BY <1>9, <1>10, <1>12
  <2> QED
    BY <1>13, <2>1
<1>15. ASSUME NEW x \in X PROVE \E k \in 1..Len(o) : o[k] = x
  <2> DEFINE q == Append(p, x)
  <2>1. x \in FullIds /\ q \in NodesOf(words)
    BY DEF X, SonIds
  <2>2. Len(q) = l /\ q[l] = x /\ \A j \in 1..n : q[j] = p[j]
    BY <2>1, FrontAndLast DEF n
  <2> HIDE DEF q
  <2>3. PICK k \in 1..Len(words) : Agree(q, words[k].spl, l)
    BY <2>1, <2>2, NodeIs
  <2>4. PICK i \in 1..Len(items) : items[i] = k
    BY <1>2
  <2> DEFINE u == s(i)
  <2>5. u \in Seq(FullIds) /\ Agree(q, u, l)
    BY <1>4, <2>3, <2>4
  <2> HIDE DEF u
  <2>6. Len(u) \in Nat /\ l <= Len(u) /\ \A j \in 1..l : q[j] = u[j]
    BY <2>5, LenProperties DEF Agree
  <2>7. Agree(p, u, n) /\ u # p /\ u[l] = x
    <3>1. n <= n /\ n <= Len(u) /\ Len(u) # n /\ l \in 1..l /\ \A j \in 1..n : j \in 1..l
      BY <1>3, <2>6
    <3> QED
      BY <2>2, <2>6, <3>1 DEF Agree, n
  <2>8. i \in r..t
    BY <1>5, <2>7 DEF u
  <2>9. c[i] = x
    BY <1>1, <2>7, <2>8 DEF u
  <2>10. PICK m \in BeginsIn(c, r, t) : c[m] = c[i]
    <3>1. Rises(c, r, t) /\ r \in Nat \ {0} /\ t \in Nat /\ i \in r..t
      BY <1>1, <2>8
    <3> QED
      BY <3>1, RunBegins
  <2>11. PICK j \in 1..Len(b) : b[j] = m
    BY <1>1, <1>9, <2>10
  <2> QED
    BY <1>10, <1>12, <2>9, <2>10, <2>11
<1>16. Ascends(o, X)
  BY <1>12, <1>13, <1>14, <1>15 DEF Ascends, Lists
<1> QED
  BY <1>16 DEF o, X, l, n

\* The arranged dictionary is the trie of its words.
LEMMA ArrangedIsTrie ==
  ASSUME NEW words, NEW S, IsWords(words, S), \A k \in 1..Len(words) : words[k].spl # <<>>
  PROVE  IsTrie(Arrange(words, NodesOf(words), ByPinyinOrder(words)), words)
<1> DEFINE nodes == NodesOf(words)
           items == ByPinyinOrder(words)
           d == Arrange(words, nodes, items)
           part(p) == PartOf(words, items, p)
<1>1. /\ d.homos = [p \in nodes |-> HomosOf(items, part(p))]
      /\ d.sons = [p \in nodes |-> SonsOf(words, items, part(p), Len(p) + 1)]
  BY DEF Arrange
<1>2. IsScanned(words, items)
  BY ItemsScanned
<1>3. ASSUME NEW p \in nodes PROVE p \in Seq(FullIds) /\ IsPart(words, items, part(p), p)
  <2>1. p \in Seq(FullIds)
    BY NodesAre
  <2>2. PICK k \in 1..Len(words) : Agree(p, words[k].spl, Len(p))
    BY NodeIs
  <2>3. PICK i \in 1..Len(items) : items[i] = k
    BY <1>2 DEF IsScanned, Lists
  <2>4. Agree(p, Spl(words, items, i), Len(p))
    BY <2>2, <2>3 DEF Spl
  <2> HIDE DEF items
  <2> QED
    BY <1>2, <2>1, <2>4, PartIsOf
<1> HIDE DEF items
<1>4. ASSUME NEW p \in nodes PROVE Lists(d.homos[p], {k \in 1..Len(words) : words[k].spl = p})
  BY <1>1, <1>2, <1>3, HomosListed
<1>5. ASSUME NEW p \in nodes PROVE Ascends(d.sons[p], SonIds(words, p))
  BY <1>1, <1>2, <1>3, SonsAscend
<1>6. IsTrie(d, words)
  <2> HIDE DEF d
  <2>1. DOMAIN d.homos = nodes
    BY <1>1
  <2> QED
    BY <1>4, <1>5, <2>1 DEF IsTrie
<1> QED
  BY <1>6 DEF d, items

-----------------------------------------------------------------------------
(* Walking: the sons of a node, and the nodes of a level.                     *)

\* Numbers that follow one another, in order.
LEMMA Consecutive ==
  ASSUME NEW S \in SUBSET Nat, NEW s, Ascends(s, S), \A i, j \in S : i..j \subseteq S
  PROVE  \A j \in 1..Len(s) : s[j] = s[1] + j - 1
<1> DEFINE n == Len(s)
           A == {j \in Nat : j + 1 <= n => s[j + 1] = s[1] + j}
<1>1. n \in Nat /\ \A k \in 1..n : s[k] \in S /\ s[k] \in Nat
  BY ListsAll DEF Ascends
<1>2. (\A x \in S : \E k \in 1..n : s[k] = x) /\ \A i, j \in 1..n : i < j => s[i] < s[j]
  BY DEF Ascends, Lists
<1> HIDE DEF n
<1>3. 0 \in A
  <2>1. 1 <= n => s[1] = s[1] + 0
    BY <1>1
  <2> QED
    BY <2>1
<1>4. ASSUME NEW j \in A PROVE j + 1 \in A
  <2> SUFFICES ASSUME j + 1 + 1 <= n PROVE s[j + 1 + 1] = s[1] + (j + 1)
    OBVIOUS
  <2> DEFINE u == j + 1
             v == j + 1 + 1
  <2>1. u \in 1..n /\ v \in 1..n /\ v = u + 1 /\ u \in Nat /\ 1 \in 1..n
    BY <1>1
  <2>2. s[u] = s[1] + j /\ s[u] \in Nat /\ s[1] \in Nat /\ s[v] \in Nat /\ s[u] < s[v]
    <3>1. u < v
      BY <2>1
    <3>2. s[u] = s[1] + j
      BY <2>1, <1>1
    <3> HIDE DEF u, v
    <3> QED
      BY <1>1, <1>2, <2>1, <3>1, <3>2
  <2>3. s[u] + 1 \in S
    <3>1. s[u] \in S /\ s[v] \in S
      BY <1>1, <2>1
    <3>2. s[u] + 1 \in s[u]..s[v]
      BY <2>2
    <3> QED
      BY <3>1, <3>2
  <2>4. PICK m \in 1..n : s[m] = s[u] + 1
    BY <1>2, <2>3
  <2> HIDE DEF u, v
  <2>5. m > u
    <3>1. CASE m < u
      <4>1. s[m] < s[u]
        BY <1>2, <2>1, <3>1
      <4> QED
        BY <2>2, <2>4, <4>1
    <3>2. CASE m = u
      BY <2>2, <2>4, <3>2
    <3> QED
      BY <1>1, <2>1, <3>1, <3>2
  <2>6. ~(m > v)
    <3>1. CASE m > v
      <4>1. s[v] < s[m]
        BY <1>2, <2>1, <3>1
      <4> QED
        BY <2>2, <2>4, <4>1
    <3> QED
      BY <3>1
  <2>7. m = v
    BY <1>1, <2>1, <2>5, <2>6
  <2>8. s[v] = s[1] + (j + 1)
    BY <2>2, <2>4, <2>7
  <2> QED
    BY <2>8 DEF v
<1>5. A = Nat
  <2> HIDE DEF A
  <2>1. A \in SUBSET Nat
    BY DEF A
  <2> QED
    BY <1>3, <1>4, <2>1, Induction
<1>6. ASSUME NEW j \in 1..n PROVE s[j] = s[1] + j - 1
  <2>1. j - 1 \in Nat /\ (j - 1) + 1 = j /\ j <= n /\ 1 \in 1..n /\ s[1] \in Nat
    BY <1>1
  <2>2. j - 1 \in A
    <3> HIDE DEF A
    <3> QED
      BY <1>5, <2>1
  <2>3. s[j] = s[1] + (j - 1)
    BY <2>1, <2>2
  <2> QED
    BY <2>1, <2>3
<1> QED
  BY <1>6 DEF n

\* An id stands for full ids that follow one another.
LEMMA IdStandsFor ==
  ASSUME NEW id \in Ids
  PROVE  /\ Range0(id)[1] \in FullIds /\ Range0(id)[1] \in Nat /\ Range0(id)[2] \in Nat /\ Range0(id)[2] > 0
         /\ Range0(id)[1] + Range0(id)[2] - 1 \in FullIds
         /\ \A x : x \in FullIds /\ InRange(x, id) <=> x \in Range0(id)[1]..Range0(id)[1] + Range0(id)[2] - 1
<1> DEFINE a == Range0(id)[1]
           n == Range0(id)[2]
<1>1. a \in Nat /\ n \in Nat /\ n > 0 /\ a..a + n - 1 \subseteq FullIds
  <2>1. CASE id \in HalfIds
    <3>1. a = HalfRange[id][1] /\ n = HalfRange[id][2]
      BY <2>1 DEF Range0, IsHalfId
    <3> HIDE DEF a, n
    <3> QED
      BY <2>1, <3>1, DictAssumption DEF HalfIds, FullIds
  <2>2. CASE id \notin HalfIds
    <3>1. id \in FullIds /\ a = id /\ n = 1 /\ id \in Nat
      BY <2>2, DictAssumption DEF Range0, IsHalfId, Ids, FullIds
    <3> HIDE DEF a, n
    <3>2. a..a + n - 1 = {id}
      BY <3>1
    <3> QED
      BY <3>1, <3>2
  <2> QED
    BY <2>1, <2>2
<1>2. InRange(0, id) <=> a <= 0 /\ 0 < a + n
  BY DEF InRange
<1>3. ASSUME NEW x PROVE InRange(x, id) <=> a <= x /\ x < a + n
  BY DEF InRange
<1>4. FullIds \subseteq Nat
  BY DictAssumption DEF FullIds
<1> HIDE DEF a, n
<1>5. a \in FullIds /\ a + n - 1 \in FullIds
  <2>1. a \in a..a + n - 1 /\ a + n - 1 \in a..a + n - 1
    BY <1>1
  <2> QED
    BY <1>1, <2>1
<1>6. ASSUME NEW x PROVE x \in FullIds /\ InRange(x, id) <=> x \in a..a + n - 1
  <2>1. ASSUME x \in FullIds, InRange(x, id) PROVE x \in a..a + n - 1
    BY <1>1, <1>3, <1>4, <2>1
  <2>2. ASSUME x \in a..a + n - 1 PROVE x \in FullIds /\ InRange(x, id)
    BY <1>1, <1>3, <2>2
  <2> QED
    BY <2>1, <2>2
<1> QED
  BY <1>1, <1>5, <1>6 DEF a, n

\* The sons of a node that an id stands for lie side by side.
Children(words, p, id) == {Append(p, x) : x \in {x \in SonIds(words, p) : InRange(x, id)}}
ChildSeq(d, p, id) == [j \in 1..Len(SonsFor(d, p, id)) |-> Son(d, p, SonsFor(d, p, id)[j])]

LEMMA ChildrenAre ==
  ASSUME NEW words, NEW d, IsTrie(d, words), NEW S, IsWords(words, S), NEW p \in NodesOf(words), NEW id \in Ids
  PROVE  /\ Lists(ChildSeq(d, p, id), Children(words, p, id))
         /\ SonsFor(d, p, id) \in Seq(Nat)
         /\ \A j \in 1..Len(SonsFor(d, p, id)) : SonsFor(d, p, id)[j] = SonsFor(d, p, id)[1] + j - 1
<1> DEFINE a == d.sons[p]
           X == SonIds(words, p)
           K == {k \in 1..Len(a) : InRange(a[k], id)}
           s == SonsFor(d, p, id)
           c == ChildSeq(d, p, id)
<1>1. /\ Lists(a, X) /\ \A i, j \in 1..Len(a) : i < j => a[i] < a[j]
  BY DEF IsTrie, Ascends
<1>2. X \subseteq FullIds /\ FullIds \subseteq Nat /\ p \in Seq(FullIds)
  BY NodesAre, DictAssumption DEF SonIds, FullIds
<1>3. /\ Len(a) \in Nat /\ (\A k \in 1..Len(a) : a[k] \in X)
      /\ (\A x \in X : \E k \in 1..Len(a) : a[k] = x) /\ \A i, j \in 1..Len(a) : a[i] = a[j] => i = j
  BY <1>1, ListsAll DEF Lists
<1>4. K \in SUBSET Nat /\ IsFiniteSet(K)
  <2>1. IsFiniteSet(1..Len(a))
    <3>1. 1 \in Int /\ Len(a) \in Int
      BY <1>3
    <3> QED
      BY <3>1, FS_Interval
  <2>2. K \in SUBSET (1..Len(a))
    OBVIOUS
  <2>3. 1..Len(a) \subseteq Nat
    OBVIOUS
  <2> HIDE DEF K, a
  <2> QED
    BY <2>1, <2>2, <2>3, FS_Subset
<1>5. s = InOrder(K, <)
  BY DEF SonsFor
<1>6. Ascends(s, K)
  <2> HIDE DEF K, s
  <2> QED
    BY <1>4, <1>5, NumbersInOrder
<1>7. \A j \in 1..Len(s) : s[j] = s[1] + j - 1
  <2>1. ASSUME NEW i \in K, NEW j \in K PROVE i..j \subseteq K
    <3>1. i \in 1..Len(a) /\ j \in 1..Len(a) /\ InRange(a[i], id) /\ InRange(a[j], id)
      OBVIOUS
    <3>2. ASSUME NEW k \in i..j PROVE k \in 1..Len(a) /\ InRange(a[k], id)
      <4>1. k \in 1..Len(a) /\ (k = i \/ k = j \/ (i < k /\ k < j))
        BY <1>3, <3>1
      <4>2. CASE k = i \/ k = j
        BY <3>1, <4>1, <4>2
      <4>3. CASE i < k /\ k < j
        <5>1. a[i] < a[k] /\ a[k] < a[j]
          BY <1>1, <3>1, <4>1, <4>3
        <5>2. a[i] \in Nat /\ a[k] \in Nat /\ a[j] \in Nat
          BY <1>2, <1>3, <3>1, <4>1
        <5>3. Range0(id)[1] \in Nat /\ Range0(id)[2] \in Nat
          BY IdStandsFor
        <5> DEFINE u == a[i]
                   v == a[k]
                   w == a[j]
                   b == Range0(id)[1]
                   e == Range0(id)[2]
        <5>4. b <= u /\ u < v /\ v < w /\ w < b + e
          BY <3>1, <5>1 DEF InRange
        <5>5. u \in Nat /\ v \in Nat /\ w \in Nat /\ b \in Nat /\ e \in Nat
          BY <5>2, <5>3
        <5> HIDE DEF u, v, w, b, e
        <5>6. b <= v /\ v < b + e
          BY <5>4, <5>5
        <5>7. InRange(a[k], id)
          BY <5>6 DEF InRange, v, b, e
        <5> QED
          BY <4>1, <5>7
      <4> QED
        BY <4>1, <4>2, <4>3
    <3> QED
      BY <3>2
  <2> HIDE DEF K, s
  <2> QED
    BY <1>4, <1>6, <2>1, Consecutive
<1>8. s \in Seq(Nat) /\ Len(s) \in Nat /\ (\A j \in 1..Len(s) : s[j] \in K) /\ s \in Seq(K)
  <2> HIDE DEF s, K
  <2>1. Lists(s, K)
    BY <1>6 DEF Ascends
  <2>2. s \in Seq(K)
    BY <2>1 DEF Lists
  <2> QED
    BY <1>4, <2>1, <2>2, ListsAll, SeqMonotonic
<1>9. c = [j \in 1..Len(s) |-> Append(p, a[s[j]])]
  BY DEF ChildSeq, Son
<1>10. (\A k \in K : \E j \in 1..Len(s) : s[j] = k) /\ \A i, j \in 1..Len(s) : s[i] = s[j] => i = j
  BY <1>6 DEF Ascends, Lists
<1>11. \A k \in K : k \in 1..Len(a) /\ InRange(a[k], id)
  OBVIOUS
<1>12. \A k \in 1..Len(a) : InRange(a[k], id) => k \in K
  OBVIOUS
<1> HIDE DEF a, K, s, c
<1> DEFINE C == Children(words, p, id)
<1>13. ASSUME NEW j \in 1..Len(s) PROVE Append(p, a[s[j]]) \in C
  <2>1. s[j] \in 1..Len(a) /\ InRange(a[s[j]], id)
    BY <1>8, <1>11
  <2>2. a[s[j]] \in X
    BY <1>3, <2>1
  <2> QED
    BY <2>1, <2>2 DEF Children
<1>14. c \in Seq(C) /\ Len(c) = Len(s) /\ \A j \in 1..Len(s) : c[j] = Append(p, a[s[j]])
  <2>1. c \in [1..Len(s) -> C]
    <3> HIDE DEF C
    <3> QED
      BY <1>9, <1>13
  <2> HIDE DEF C
  <2>2. c \in Seq(C)
    BY <1>8, <2>1, IsASeq
  <2> QED
    BY <1>8, <1>9, <2>1, <2>2, LenProperties
<1>15. ASSUME NEW q \in C PROVE \E j \in 1..Len(c) : c[j] = q
  <2>1. PICK x \in X : InRange(x, id) /\ q = Append(p, x)
    BY DEF Children
  <2>2. PICK k \in 1..Len(a) : a[k] = x
    BY <1>3
  <2>3. PICK j \in 1..Len(s) : s[j] = k
    BY <1>10, <1>12, <2>1, <2>2
  <2> HIDE DEF X
  <2> QED
    BY <1>14, <2>1, <2>2, <2>3
<1>16. ASSUME NEW i \in 1..Len(c), NEW j \in 1..Len(c), c[i] = c[j] PROVE i = j
  <2> DEFINE x == a[s[i]]
             y == a[s[j]]
  <2>1. i \in 1..Len(s) /\ j \in 1..Len(s) /\ s[i] \in 1..Len(a) /\ s[j] \in 1..Len(a)
    BY <1>8, <1>11, <1>14
  <2>2. Append(p, x) = Append(p, y) /\ x \in FullIds /\ y \in FullIds
    BY <1>2, <1>3, <1>14, <1>16, <2>1
  <2> HIDE DEF x, y
  <2>3. x = y
    BY <1>2, <2>2, AppendInjective
  <2> QED
    BY <1>3, <1>10, <2>1, <2>3 DEF x, y
<1>17. Lists(c, C)
  BY <1>14, <1>15, <1>16 DEF Lists
<1> QED
  BY <1>7, <1>8, <1>17 DEF c, s

\* The sons of the root are the full ids, and their places are numbered alike.
LEMMA RootIs ==
  ASSUME NEW d, Ascends(d.sons[<<>>], FullIds)
  PROVE  /\ Len(d.sons[<<>>]) \in Nat
         /\ \A j \in 1..Len(d.sons[<<>>]) : d.sons[<<>>][j] = d.sons[<<>>][1] + j - 1
         /\ \A j \in 1..Len(d.sons[<<>>]) : d.sons[<<>>][j] \in FullIds
         /\ \A x \in FullIds : x \in Nat /\ \E k \in 1..Len(d.sons[<<>>]) : d.sons[<<>>][k] = x
<1> DEFINE a == d.sons[<<>>]
<1>1. FullIds \in SUBSET Nat /\ \A i, j \in FullIds : i..j \subseteq FullIds
  BY DictAssumption DEF FullIds
<1>2. Lists(a, FullIds)
  BY DEF Ascends
<1>3. \A j \in 1..Len(a) : a[j] = a[1] + j - 1
  <2> HIDE DEF a
  <2> QED
    BY <1>1, Consecutive DEF a
<1>4. Len(a) \in Nat /\ \A j \in 1..Len(a) : a[j] \in FullIds
  BY <1>2, ListsAll
<1>5. \A x \in FullIds : \E k \in 1..Len(a) : a[k] = x
  BY <1>2 DEF Lists
<1> QED
  BY <1>1, <1>3, <1>4, <1>5

LEMMA PlaceOf ==
  ASSUME NEW d, Ascends(d.sons[<<>>], FullIds), NEW x \in Nat, x \in FullIds \/ x - 1 \in FullIds
  PROVE  /\ d.sons[<<>>][1] \in Nat /\ Le0Index(d, x) = x - d.sons[<<>>][1] + 1
         /\ Len(d.sons[<<>>]) \in Nat
         /\ x \in FullIds => Le0Index(d, x) \in 1..Len(d.sons[<<>>])
<1> DEFINE a == d.sons[<<>>]
           n == Len(a)
           l == Le0Index(d, x)
           next == {k \in 1..n : a[k] > x}
<1>1. /\ n \in Nat /\ (\A j \in 1..n : a[j] = a[1] + j - 1) /\ (\A j \in 1..n : a[j] \in FullIds)
      /\ \A y \in FullIds : y \in Nat /\ \E k \in 1..n : a[k] = y
  BY RootIs
<1>2. DOMAIN a = 1..n
  <2>1. Lists(a, FullIds)
    BY DEF Ascends
  <2> HIDE DEF a
  <2> QED
    BY <2>1, ListsAll DEF n
<1>3. l = IF x \in ToSet(a) THEN CHOOSE k \in 1..n : a[k] = x
          ELSE IF next = {} THEN n + 1 ELSE Cardinality({k \in 1..n : a[k] <= x})
  BY DEF Le0Index
<1>4. x \in ToSet(a) <=> x \in FullIds
  BY <1>1, <1>2 DEF ToSet
<1> HIDE DEF l, a, n
<1>5. a[1] \in Nat /\ n > 0
  <2>1. PICK y \in FullIds : TRUE
    OBVIOUS
  <2>2. PICK k \in 1..n : a[k] = y
    BY <1>1
  <2>3. 1 \in 1..n
    BY <1>1
  <2> QED
    BY <1>1, <2>3
<1>6. CASE x \in FullIds
  <2>1. l = CHOOSE k \in 1..n : a[k] = x
    BY <1>3, <1>4, <1>6
  <2>2. \E k \in 1..n : a[k] = x
    BY <1>1, <1>6
  <2>3. l \in 1..n /\ a[l] = x
    BY <2>1, <2>2
  <2>4. a[l] = a[1] + l - 1
    BY <1>1, <2>3
  <2>5. l \in Nat /\ l = x - a[1] + 1
    BY <1>1, <1>5, <2>3, <2>4
  <2> QED
    BY <1>1, <1>5, <2>3, <2>5 DEF a, l, n
<1>7. CASE x \notin FullIds
  <2>1. x - 1 \in FullIds /\ x - 1 \in Nat
    BY <1>1, <1>7
  <2>2. PICK k \in 1..n : a[k] = x - 1
    BY <1>1, <2>1
  <2>3. k = n
    <3>1. SUFFICES ASSUME k # n PROVE FALSE
      OBVIOUS
    <3>2. k + 1 \in 1..n /\ k \in Nat
      BY <1>1, <3>1
    <3>3. a[k + 1] = a[1] + (k + 1) - 1 /\ a[k] = a[1] + k - 1 /\ a[k + 1] \in FullIds
      BY <1>1, <3>2
    <3>4. a[k + 1] = x
      BY <1>5, <2>2, <3>2, <3>3
    <3> QED
      BY <1>7, <3>3, <3>4
  <2>4. \A j \in 1..n : ~(a[j] > x)
    <3>1. ASSUME NEW j \in 1..n PROVE ~(a[j] > x)
      <4>1. a[j] = a[1] + j - 1 /\ a[n] = a[1] + n - 1 /\ j <= n /\ j \in Nat
        <5>1. n \in 1..n /\ j <= n /\ j \in Nat
          BY <1>1, <2>2, <2>3
        <5> QED
          BY <1>1, <5>1
      <4>2. a[n] = x - 1
        BY <2>2, <2>3
      <4> QED
        BY <1>1, <1>5, <4>1, <4>2
    <3> QED
      BY <3>1
  <2>5. l = n + 1
    <3>1. next = {}
      BY <2>4
    <3> QED
      BY <1>3, <1>4, <1>7, <3>1
  <2>6. x - 1 = a[1] + n - 1
    BY <1>1, <2>2, <2>3
  <2>7. l = x - a[1] + 1
    BY <1>1, <1>5, <2>5, <2>6
  <2> QED
    BY <1>1, <1>5, <1>7, <2>7 DEF a, l, n
<1> QED
  BY <1>6, <1>7

LEMMA RootPlaces ==
  ASSUME NEW d, Ascends(d.sons[<<>>], FullIds), NEW id \in Ids
  PROVE  LET r == RootSons(d, id)
             a == d.sons[<<>>]
             n == Range0(id)[2]
         IN  /\ r \in Seq(Nat) /\ Len(r) = n /\ n \in Nat /\ n > 0
             /\ \A k \in 1..n : r[k] = r[1] + k - 1 /\ r[k] \in 1..Len(a) /\ a[r[k]] = Range0(id)[1] + k - 1
<1> DEFINE r == RootSons(d, id)
           a == d.sons[<<>>]
           n == Range0(id)[2]
           b == Range0(id)[1]
           m == a[1]
           from == Le0Index(d, b)
           to == Le0Index(d, b + n)
<1>1. b \in FullIds /\ b \in Nat /\ n \in Nat /\ n > 0 /\ b + n - 1 \in FullIds
  BY IdStandsFor
<1>2. m \in Nat /\ from = b - m + 1 /\ from \in 1..Len(a) /\ Len(a) \in Nat
  <2> HIDE DEF b
  <2> QED
    BY <1>1, PlaceOf
<1>3. to = b - m + 1 + n
  <2> DEFINE x == b + n
  <2>1. x \in Nat /\ x - 1 \in FullIds
    <3>1. b + n - 1 = (b + n) - 1
      BY <1>1
    <3> QED
      BY <1>1, <3>1
  <2> HIDE DEF x
  <2>2. Le0Index(d, x) = x - d.sons[<<>>][1] + 1
    BY <2>1, PlaceOf
  <2>3. to = (b + n) - m + 1
    BY <2>2 DEF x
  <2> HIDE DEF b, n, m, to
  <2> QED
    BY <1>1, <1>2, <2>3
<1>4. r = [k \in 1..to - from |-> from + k - 1]
  BY DEF RootSons
<1>5. (\A j \in 1..Len(a) : a[j] = m + j - 1) /\ \A y \in FullIds : y \in Nat /\ \E k \in 1..Len(a) : a[k] = y
  BY RootIs
<1> HIDE DEF r, a, n, b, m, from, to
<1>6. to - from = n /\ from \in Nat
  BY <1>1, <1>2, <1>3
<1>7. r \in Seq(Nat) /\ Len(r) = n /\ \A k \in 1..n : r[k] = from + k - 1
  <2>1. r = [k \in 1..n |-> from + k - 1]
    BY <1>4, <1>6
  <2>2. \A k \in 1..n : from + k - 1 \in Nat
    BY <1>2, <1>6
  <2>3. r \in [1..n -> Nat]
    BY <2>1, <2>2
  <2>4. r \in Seq(Nat)
    BY <1>1, <2>3, IsASeq
  <2> QED
    BY <1>1, <2>1, <2>3, <2>4, LenProperties
<1>8. from + n - 1 <= Len(a)
  <2>1. PICK k \in 1..Len(a) : a[k] = b + n - 1
    BY <1>1, <1>5
  <2>2. a[k] = m + k - 1 /\ k \in Nat /\ k <= Len(a)
    BY <1>2, <1>5
  <2> QED
    BY <1>1, <1>2, <2>1, <2>2
<1>9. ASSUME NEW k \in 1..n PROVE r[k] = r[1] + k - 1 /\ r[k] \in 1..Len(a) /\ a[r[k]] = b + k - 1
  <2>1. r[k] = from + k - 1 /\ r[1] = from + 1 - 1 /\ k \in Nat /\ k <= n
    <3>1. 1 \in 1..n
      BY <1>1
    <3> QED
      BY <1>1, <1>7, <3>1
  <2>2. r[k] \in 1..Len(a)
    BY <1>1, <1>2, <1>6, <1>8, <2>1
  <2>3. a[r[k]] = m + r[k] - 1
    BY <1>5, <2>2
  <2>4. a[r[k]] = b + k - 1
    BY <1>1, <1>2, <2>1, <2>3
  <2>5. r[k] = r[1] + k - 1
    BY <1>2, <1>6, <2>1
  <2> QED
    BY <2>2, <2>4, <2>5
<1> QED
  BY <1>1, <1>7, <1>9 DEF r, a, n, b

LEMMA FirstNodesAre ==
  ASSUME NEW words, NEW d, IsTrie(d, words), <<>> \in NodesOf(words), SonIds(words, <<>>) = FullIds, NEW id \in Ids
  PROVE  /\ Lists(FirstNodes(d, id), Children(words, <<>>, id))
         /\ Len(FirstNodes(d, id)) = Range0(id)[2]
         /\ \A j \in 1..Range0(id)[2] : FirstNodes(d, id)[j] = <<Range0(id)[1] + j - 1>>
<1> DEFINE r == RootSons(d, id)
           a == d.sons[<<>>]
           n == Range0(id)[2]
           b == Range0(id)[1]
           c == FirstNodes(d, id)
           C == Children(words, <<>>, id)
<1>1. Ascends(a, FullIds)
  BY DEF IsTrie
<1>2. n \in Nat /\ n > 0 /\ b \in Nat /\ \A x : x \in FullIds /\ InRange(x, id) <=> x \in b..b + n - 1
  BY IdStandsFor
<1>3. Len(r) = n /\ \A k \in 1..n : r[k] \in 1..Len(a) /\ a[r[k]] = b + k - 1
  BY <1>1, RootPlaces
<1>4. c = [j \in 1..n |-> <<b + j - 1>>]
  <2>1. c = [j \in 1..Len(r) |-> Append(<<>>, a[r[j]])]
    BY DEF FirstNodes, Son
  <2>2. \A j \in 1..n : Append(<<>>, a[r[j]]) = <<b + j - 1>>
    <3> HIDE DEF r, a, n, b
    <3>1. ASSUME NEW x PROVE Append(<<>>, x) = <<x>>
      OBVIOUS
    <3> QED
      BY <1>3, <3>1
  <2> HIDE DEF r, a, n, b, c
  <2> QED
    BY <1>3, <2>1, <2>2
<1>5. \A q : q \in C <=> \E x \in b..b + n - 1 : q = <<x>>
  <2>1. C = {Append(<<>>, x) : x \in {x \in FullIds : InRange(x, id)}}
    BY DEF Children
  <2>2. \A x : Append(<<>>, x) = <<x>>
    OBVIOUS
  <2> HIDE DEF n, b, C
  <2> QED
    BY <1>2, <2>1, <2>2
<1> HIDE DEF r, a, n, b, c, C
<1>6. \A j \in 1..n : b + j - 1 \in b..b + n - 1
  BY <1>2
<1>7. c \in Seq(C) /\ Len(c) = n /\ \A j \in 1..n : c[j] = <<b + j - 1>>
  <2>1. \A j \in 1..n : <<b + j - 1>> \in C
    BY <1>5, <1>6
  <2>2. c \in [1..n -> C]
    BY <1>4, <2>1
  <2>3. c \in Seq(C)
    BY <1>2, <2>2, IsASeq
  <2>4. Len(c) = n
    BY <1>2, <2>2, <2>3, LenProperties
  <2> QED
    BY <1>4, <2>3, <2>4
<1>8. ASSUME NEW q \in C PROVE \E j \in 1..Len(c) : c[j] = q
  <2>1. PICK x \in b..b + n - 1 : q = <<x>>
    BY <1>5
  <2> DEFINE j == x - b + 1
  <2>2. j \in 1..n /\ b + j - 1 = x
    BY <1>2
  <2> HIDE DEF j
  <2> QED
    BY <1>7, <2>1, <2>2
<1>9. ASSUME NEW i \in 1..Len(c), NEW j \in 1..Len(c), c[i] = c[j] PROVE i = j
  <2>1. <<b + i - 1>> = <<b + j - 1>>
    BY <1>7, <1>9
  <2>2. b + i - 1 = b + j - 1
    BY <2>1
  <2> QED
    BY <1>2, <1>7, <2>2
<1>10. Lists(c, C)
  BY <1>7, <1>8, <1>9 DEF Lists
<1> QED
  BY <1>7, <1>10 DEF c, C, n, b

\* The nodes below those of P that an id leads to.
Below(words, P, id) == {r \in NodesOf(words) : \E p \in P : r \in Children(words, p, id)}

LEMMA ChildIs ==
  ASSUME NEW words, NEW S, IsWords(words, S), NEW p \in NodesOf(words), NEW id, NEW r \in Children(words, p, id)
  PROVE  /\ r \in NodesOf(words) /\ Front(r) = p /\ Len(r) = Len(p) + 1 /\ Len(p) \in Nat
         /\ InRange(r[Len(p) + 1], id) /\ \A i \in 1..Len(p) : r[i] = p[i]
<1>1. PICK x \in SonIds(words, p) : InRange(x, id) /\ r = Append(p, x)
  BY DEF Children
<1>2. x \in FullIds /\ r \in NodesOf(words) /\ p \in Seq(FullIds)
  BY <1>1, NodesAre DEF SonIds
<1> QED
  BY <1>1, <1>2, FrontAndLast

LEMMA NextNodesAre ==
  ASSUME NEW words, NEW d, IsTrie(d, words), NEW S, IsWords(words, S), NEW id \in Ids,
         NEW P \in SUBSET NodesOf(words), NEW nodes, Lists(nodes, P)
  PROVE  Lists(NextNodes(d, nodes, id), Below(words, P, id))
<1> DEFINE T == NodesOf(words)
           m == Len(nodes)
           s == [n \in 1..m |-> ChildSeq(d, nodes[n], id)]
           B == [n \in 1..m |-> Children(words, nodes[n], id)]
<1>1. m \in Nat /\ (\A n \in 1..m : nodes[n] \in P /\ nodes[n] \in T)
  BY ListsAll
<1>2. NextNodes(d, nodes, id) = Concat(s)
  BY DEF NextNodes, ChildSeq
<1>3. ASSUME NEW n \in 1..m PROVE Lists(ChildSeq(d, nodes[n], id), Children(words, nodes[n], id))
  BY <1>1, ChildrenAre
<1>4. ASSUME NEW n \in 1..m PROVE Children(words, nodes[n], id) \subseteq T
  BY <1>1, ChildIs
<1>5. s \in Seq(Seq(T)) /\ Len(s) = m
  <2>1. ASSUME NEW n \in 1..m PROVE ChildSeq(d, nodes[n], id) \in Seq(T)
    <3>1. ChildSeq(d, nodes[n], id) \in Seq(Children(words, nodes[n], id))
      BY <1>3 DEF Lists
    <3> QED
      BY <1>4, <3>1, SeqMonotonic
  <2>2. s \in [1..m -> Seq(T)]
    <3> HIDE DEF T, m
    <3> QED
      BY <2>1
  <2>3. s \in Seq(Seq(T))
    <3> HIDE DEF s, T, m
    <3> QED
      BY <1>1, <2>2, IsASeq
  <2> HIDE DEF s, T, m
  <2> QED
    BY <1>1, <2>2, <2>3, LenProperties
<1>6. \A n \in 1..Len(s) : B[n] \subseteq T /\ Lists(s[n], B[n])
  BY <1>3, <1>4, <1>5
<1>7. \A i, j \in 1..Len(s) : i # j => B[i] \cap B[j] = {}
  <2>1. ASSUME NEW i \in 1..m, NEW j \in 1..m, i # j, NEW r \in B[i], r \in B[j] PROVE FALSE
    <3>1. r \in Children(words, nodes[i], id) /\ r \in Children(words, nodes[j], id)
      BY <2>1
    <3>2. Front(r) = nodes[i] /\ Front(r) = nodes[j]
      BY <1>1, <3>1, ChildIs
    <3> QED
      BY <2>1, <3>2 DEF Lists
  <2> HIDE DEF B
  <2> QED
    BY <1>5, <2>1
<1>8. Below(words, P, id) = {x \in T : \E n \in 1..Len(s) : x \in B[n]}
  <2>1. \A p \in P : \E n \in 1..m : nodes[n] = p
    BY DEF Lists
  <2>2. \A n \in 1..m : B[n] = Children(words, nodes[n], id)
    OBVIOUS
  <2>3. ASSUME NEW x \in T PROVE (\E p \in P : x \in Children(words, p, id)) <=> \E n \in 1..m : x \in B[n]
    <3> HIDE DEF B, m
    <3> QED
      BY <1>1, <2>1, <2>2
  <2>4. Below(words, P, id) = {x \in T : \E p \in P : x \in Children(words, p, id)}
    BY DEF Below
  <2> HIDE DEF B, m, T, s
  <2> QED
    BY <1>5, <2>3, <2>4
<1> HIDE DEF s, B, T
<1>9. Parts(s, B, T)
  BY <1>6, <1>7 DEF Parts
<1>10. Lists(Concat(s), Joined(B, Len(s), T))
  BY <1>5, <1>9, ConcatLists
<1>11. Joined(B, Len(s), T) = Below(words, P, id)
  BY <1>8 DEF Joined
<1> QED
  BY <1>2, <1>10, <1>11

\* The nodes that the first k ids of q lead to.
Level(words, q, k) == {p \in NodesOf(words) : Len(p) = k /\ \A i \in 1..k : InRange(p[i], q[i])}

LEMMA LevelNext ==
  ASSUME NEW words, NEW S, IsWords(words, S), NEW q, NEW k \in Nat
  PROVE  Level(words, q, k + 1) = Below(words, Level(words, q, k), q[k + 1])
<1>1. ASSUME NEW r \in Level(words, q, k + 1) PROVE r \in Below(words, Level(words, q, k), q[k + 1])
  <2>1. r \in NodesOf(words) /\ r \in Seq(FullIds) /\ Len(r) = k + 1 /\ \A i \in 1..k + 1 : InRange(r[i], q[i])
    BY NodesAre DEF Level
  <2>2. r # <<>>
    <3>1. Len(<<>>) = 0
      OBVIOUS
    <3> QED
      BY <2>1, <3>1
  <2>3. PICK p \in Seq(FullIds), x \in FullIds : r = Append(p, x)
    BY <2>1, <2>2, SequenceEmptyOrAppend
  <2>4. Len(r) = Len(p) + 1 /\ Len(p) \in Nat /\ r[Len(p) + 1] = x /\ \A i \in 1..Len(p) : r[i] = p[i]
    BY <2>3, FrontAndLast
  <2>5. p \in NodesOf(words)
    BY <2>1, <2>3, NodesAre
  <2>6. Len(p) = k
    BY <2>1, <2>4
  <2>7. p \in Level(words, q, k)
    <3>1. \A i \in 1..k : i \in 1..k + 1
      OBVIOUS
    <3> QED
      BY <2>1, <2>4, <2>5, <2>6, <3>1 DEF Level
  <2>8. x \in SonIds(words, p) /\ InRange(x, q[k + 1])
    <3>1. k + 1 \in 1..k + 1
      OBVIOUS
    <3> QED
      BY <2>1, <2>3, <2>4, <2>6, <3>1 DEF SonIds
  <2> QED
    BY <2>1, <2>3, <2>7, <2>8 DEF Below, Children
<1>2. ASSUME NEW r \in Below(words, Level(words, q, k), q[k + 1]) PROVE r \in Level(words, q, k + 1)
  <2>1. PICK p \in Level(words, q, k) : r \in Children(words, p, q[k + 1])
    BY DEF Below
  <2>2. p \in NodesOf(words) /\ Len(p) = k /\ \A i \in 1..k : InRange(p[i], q[i])
    BY DEF Level
  <2>3. r \in NodesOf(words) /\ Len(r) = k + 1 /\ InRange(r[k + 1], q[k + 1]) /\ \A i \in 1..k : r[i] = p[i]
    BY <2>1, <2>2, ChildIs
  <2>4. ASSUME NEW i \in 1..k + 1 PROVE InRange(r[i], q[i])
    <3>1. i \in 1..k \/ i = k + 1
      OBVIOUS
    <3> QED
      BY <2>2, <2>3, <3>1
  <2> QED
    BY <2>3, <2>4 DEF Level
<1> QED
  BY <1>1, <1>2

LEMMA LevelOne ==
  ASSUME NEW words, NEW S, IsWords(words, S), <<>> \in NodesOf(words), NEW q
  PROVE  Level(words, q, 0) = {<<>>} /\ Level(words, q, 1) = Children(words, <<>>, q[1])
<1>1. Level(words, q, 0) = {<<>>}
  <2>1. ASSUME NEW p \in Level(words, q, 0) PROVE p = <<>>
    <3>1. p \in Seq(FullIds) /\ Len(p) = 0
      BY NodesAre DEF Level
    <3> QED
      BY <3>1, EmptySeq
  <2>2. <<>> \in Level(words, q, 0)
    BY DEF Level
  <2> QED
    BY <2>1, <2>2
<1>2. Level(words, q, 1) = Below(words, Level(words, q, 0), q[1])
  <2>1. Level(words, q, 0 + 1) = Below(words, Level(words, q, 0), q[0 + 1])
    BY LevelNext
  <2>2. 0 + 1 = 1
    OBVIOUS
  <2> QED
    BY <2>1, <2>2
<1>3. Below(words, {<<>>}, q[1]) = Children(words, <<>>, q[1])
  <2>1. Children(words, <<>>, q[1]) \subseteq NodesOf(words)
    BY ChildIs
  <2> QED
    BY <2>1 DEF Below
<1> QED
  BY <1>1, <1>2, <1>3

-----------------------------------------------------------------------------
(* get_lpis.                                                                  *)

LEMMA OneListed == ASSUME NEW x PROVE Lists(<<x>>, {x})
<1>1. <<x>> \in Seq({x}) /\ Len(<<x>>) = 1 /\ <<x>>[1] = x
  OBVIOUS
<1>2. 1 \in 1..1 /\ \A i \in 1..1 : i = 1
  OBVIOUS
<1> QED
  BY <1>1, <1>2 DEF Lists

LEMMA FirstIsAll ==
  ASSUME NEW T, NEW s \in Seq(T), NEW n \in Nat, Len(s) <= n
  PROVE  First(s, n) = s
<1>1. Len(s) \in Nat
  BY LenProperties
<1>2. Min({n, Len(s)}) = Len(s)
  BY <1>1, MinOfTwo
<1> QED
  BY <1>2, SubSeqFull DEF First

LEMMA FirstIsOne ==
  ASSUME NEW T, NEW s \in Seq(T), Len(s) > 0
  PROVE  First(s, 1) = <<s[1]>>
<1>1. Len(s) \in Nat /\ 1 \in Nat /\ 1 <= Len(s)
  BY LenProperties
<1>2. Min({1, Len(s)}) = 1
  BY <1>1, MinOfTwo
<1> DEFINE t == SubSeq(s, 1, 1)
           u == <<s[1]>>
<1>3. t \in Seq(T) /\ Len(t) = 1 /\ \A i \in 1..1 : t[i] = s[i]
  BY <1>1, BeginIs
<1>4. u \in Seq(T) /\ Len(u) = 1 /\ u[1] = s[1]
  <2>1. s[1] \in T
    <3>1. 1 \in 1..Len(s)
      BY <1>1
    <3> QED
      BY <3>1, LenProperties
  <2> QED
    BY <2>1
<1>5. First(s, 1) = t
  BY <1>2 DEF First
<1> HIDE DEF t
<1>6. t = u
  <2> HIDE DEF u
  <2>1. \A i \in 1..Len(t) : t[i] = u[i]
    <3>1. 1 \in 1..1 /\ \A i \in 1..1 : i = 1
      OBVIOUS
    <3> QED
      BY <1>3, <1>4, <3>1
  <2> QED
    BY <1>3, <1>4, <2>1, SeqEqual
<1> QED
  BY <1>5, <1>6

\* The words at some nodes.
WordsAt(words, P) == {k \in 1..Len(words) : words[k].spl \in P}

LEMMA HomosAre ==
  ASSUME NEW words, NEW d, IsTrie(d, words), NEW S, IsWords(words, S),
         NEW P \in SUBSET NodesOf(words), NEW nodes, Lists(nodes, P)
  PROVE  Lists(Concat([n \in 1..Len(nodes) |-> d.homos[nodes[n]]]), WordsAt(words, P))
<1> DEFINE T == 1..Len(words)
           m == Len(nodes)
           s == [n \in 1..m |-> d.homos[nodes[n]]]
           B == [n \in 1..m |-> {k \in T : words[k].spl = nodes[n]}]
<1>1. m \in Nat /\ (\A n \in 1..m : nodes[n] \in P /\ nodes[n] \in NodesOf(words))
  BY ListsAll
<1>2. ASSUME NEW n \in 1..m PROVE Lists(d.homos[nodes[n]], {k \in T : words[k].spl = nodes[n]})
  BY <1>1 DEF IsTrie
<1>3. s \in Seq(Seq(T)) /\ Len(s) = m
  <2>1. ASSUME NEW n \in 1..m PROVE d.homos[nodes[n]] \in Seq(T)
    <3>1. d.homos[nodes[n]] \in Seq({k \in T : words[k].spl = nodes[n]})
      BY <1>2 DEF Lists
    <3>2. {k \in T : words[k].spl = nodes[n]} \subseteq T
      OBVIOUS
    <3> HIDE DEF T
    <3> QED
      BY <3>1, <3>2, SeqMonotonic
  <2>2. s \in [1..m -> Seq(T)]
    <3> HIDE DEF T, m
    <3> QED
      BY <2>1
  <2>3. s \in Seq(Seq(T))
    <3> HIDE DEF s, T, m
    <3> QED
      BY <1>1, <2>2, IsASeq
  <2> HIDE DEF s, T, m
  <2> QED
    BY <1>1, <2>2, <2>3, LenProperties
<1>4. \A k \in 1..Len(s) : B[k] \subseteq T /\ Lists(s[k], B[k])
  BY <1>2, <1>3
<1>5. \A i, j \in 1..Len(s) : i # j => B[i] \cap B[j] = {}
  <2>1. ASSUME NEW i \in 1..m, NEW j \in 1..m, i # j, NEW r \in B[i], r \in B[j] PROVE FALSE
    <3>1. nodes[i] = nodes[j]
      BY <2>1
    <3> QED
      BY <2>1, <3>1 DEF Lists
  <2> HIDE DEF B
  <2> QED
    BY <1>3, <2>1
<1>6. WordsAt(words, P) = {x \in T : \E n \in 1..Len(s) : x \in B[n]}
  <2>1. \A p \in P : \E n \in 1..m : nodes[n] = p
    BY DEF Lists
  <2>2. ASSUME NEW x \in T PROVE words[x].spl \in P <=> \E n \in 1..m : x \in B[n]
    <3>1. \A n \in 1..m : x \in B[n] <=> words[x].spl = nodes[n]
      OBVIOUS
    <3> HIDE DEF B, m, T
    <3> QED
      BY <1>1, <2>1, <3>1
  <2>3. WordsAt(words, P) = {x \in T : words[x].spl \in P}
    BY DEF WordsAt
  <2> HIDE DEF B, m, T, s
  <2> QED
    BY <1>3, <2>2, <2>3
<1> HIDE DEF s, B, T
<1>7. Parts(s, B, T)
  BY <1>4, <1>5 DEF Parts
<1>8. Lists(Concat(s), Joined(B, Len(s), T))
  BY <1>3, <1>7, ConcatLists
<1>9. Joined(B, Len(s), T) = WordsAt(words, P)
  BY <1>6 DEF Joined
<1> QED
  BY <1>8, <1>9 DEF s

\* A trie of words in which every full id begins a word.
IsFullTrie(d, words, S) ==
  IsTrie(d, words) /\ IsWords(words, S) /\ <<>> \in NodesOf(words) /\ SonIds(words, <<>>) = FullIds

\* The buffer of get_lpis has room for each level.
HasBuffer(words, q) == \A k \in 1..Len(q) : Cardinality(Level(words, q, k)) <= MaxExtendBuf

LEMMA LpisNodesAre ==
  ASSUME NEW words, NEW d, NEW S, IsFullTrie(d, words, S), NEW q \in Seq(Ids), HasBuffer(words, q)
  PROVE  /\ Lists(LpisNodes(d, q), Level(words, q, Len(q)))
         /\ Len(q) = 1 => LpisNodes(d, q) = FirstNodes(d, q[1])
<1> USE DEF IsFullTrie
<1> DEFINE n == Len(q)
           T == NodesOf(words)
           base == <<<<>>>>
           Walk(x, k) == IF k = 1 THEN FirstNodes(d, q[1]) ELSE NextNodes(d, x, q[k])
           Op(x, k) == First(Walk(x, k), MaxExtendBuf)
           I == [k \in 0..n |-> {x \in Seq(T) : Lists(x, Level(words, q, k))}]
           G == [p \in Seq(T) \X (1..n) |-> Op(p[1], p[2])]
           s == [k \in 1..n |-> k]
           Is(f) == f = [k \in 0..n |-> IF k = 0 THEN base ELSE Op(f[k - 1], s[k])]
<1>1. n \in Nat /\ \A k \in 1..n : q[k] \in Ids
  BY LenProperties
<1>2. \A k \in 0..n : \A x : x \in I[k] <=> x \in Seq(T) /\ Lists(x, Level(words, q, k))
  OBVIOUS
<1>3. base \in I[0]
  <2>1. base \in Seq(T) /\ Lists(base, {<<>>})
    BY OneListed
  <2>2. Level(words, q, 0) = {<<>>} /\ 0 \in 0..n
    BY <1>1, LevelOne
  <2> HIDE DEF base, T, n
  <2> QED
    BY <2>1, <2>2
<1>4. ASSUME NEW k \in 1..n, NEW x \in I[k - 1] PROVE Op(x, k) \in I[k] /\ x \in Seq(T) /\ Op(x, k) = Walk(x, k)
  <2>1. k - 1 \in 0..n /\ k \in 0..n /\ k - 1 \in Nat /\ (k - 1) + 1 = k /\ q[k] \in Ids
    BY <1>1
  <2>2. x \in Seq(T) /\ Lists(x, Level(words, q, k - 1))
    <3> HIDE DEF I
    <3> QED
      BY <1>2, <2>1
  <2> DEFINE P == Level(words, q, k - 1)
             Q == Level(words, q, k)
  <2>3. P \in SUBSET T /\ Q \in SUBSET T
    BY DEF Level
  <2>4. Lists(Walk(x, k), Q)
    <3>1. CASE k = 1
      <4>1. Q = Children(words, <<>>, q[1])
        BY <3>1, LevelOne
      <4>2. Lists(FirstNodes(d, q[1]), Children(words, <<>>, q[1]))
        BY <2>1, <3>1, FirstNodesAre
      <4> QED
        BY <3>1, <4>1, <4>2
    <3>2. CASE k # 1
      <4>1. Q = Below(words, P, q[k])
        <5>1. Level(words, q, (k - 1) + 1) = Below(words, Level(words, q, k - 1), q[(k - 1) + 1])
          BY <2>1, LevelNext
        <5> QED
          BY <2>1, <5>1
      <4> HIDE DEF P, Q
      <4>2. Lists(x, P) /\ q[k] \in Ids
        BY <2>1, <2>2 DEF P
      <4>3. Lists(NextNodes(d, x, q[k]), Below(words, P, q[k]))
        BY <2>3, <4>2, NextNodesAre
      <4> QED
        BY <3>2, <4>1, <4>3
    <3> QED
      BY <3>1, <3>2
  <2>6. Op(x, k) = Walk(x, k)
    <3>1. Cardinality(Q) <= MaxExtendBuf
      BY DEF HasBuffer
    <3> HIDE DEF Walk, Q
    <3>2. Walk(x, k) \in Seq(Q) /\ Len(Walk(x, k)) <= MaxExtendBuf
      BY <2>4, <3>1, ListsAll DEF Lists
    <3> QED
      BY <3>2, FirstIsAll, DictAssumption
  <2> HIDE DEF Walk, Op, Q, P, T
  <2>5. Op(x, k) \in Seq(T)
    <3>1. Op(x, k) \in Seq(Q)
      BY <2>4, <2>6 DEF Lists
    <3> QED
      BY <2>3, <3>1, SeqMonotonic
  <2> HIDE DEF I
  <2> QED
    BY <1>2, <2>1, <2>2, <2>4, <2>5, <2>6 DEF Q
<1>5. \A x \in Seq(T) : \A k \in 1..n : G[<<x, k>>] = Op(x, k) /\ s[k] = k
  <2> HIDE DEF Op, T, n
  <2> QED
    OBVIOUS
<1> HIDE DEF Walk, Op, I, G, T, n, base, s
<1>6. \E f : Is(f)
  <2>1. \A k \in 1..n : \A x \in I[k - 1] : G[<<x, k>>] \in I[k]
    BY <1>4, <1>5
  <2>2. PICK f : IsRunIn(f, I, n, base, G)
    BY <1>1, <1>3, <2>1, RunExists
  <2>3. ASSUME NEW k \in 0..n PROVE f[k] = IF k = 0 THEN base ELSE Op(f[k - 1], s[k])
    <3>1. CASE k = 0
      BY <2>2, <3>1 DEF IsRunIn
    <3>2. CASE k # 0
      <4>1. k \in 1..n /\ k - 1 \in 0..n
        BY <1>1, <3>2
      <4>2. f[k - 1] \in I[k - 1] /\ f[k] = G[<<f[k - 1], k>>]
        BY <2>2, <4>1 DEF IsRunIn
      <4>3. f[k - 1] \in Seq(T)
        BY <1>4, <4>1, <4>2
      <4> QED
        BY <1>5, <3>2, <4>1, <4>2, <4>3
    <3> QED
      BY <3>1, <3>2
  <2>4. f = [k \in 0..n |-> f[k]]
    BY <2>2 DEF IsRunIn
  <2>5. [k \in 0..n |-> f[k]] = [k \in 0..n |-> IF k = 0 THEN base ELSE Op(f[k - 1], s[k])]
    BY <2>3
  <2>6. Is(f)
    BY <2>4, <2>5
  <2> HIDE DEF Is
  <2> QED
    BY <2>6
<1> DEFINE g == CHOOSE f : Is(f)
<1>7. Is(g)
  <2> HIDE DEF Is
  <2> QED
    BY <1>6
<1>8. LpisNodes(d, q) = g[n]
  <2>1. Len(s) = n
    BY <1>1 DEF s
  <2> DEFINE gg == CHOOSE f : f = [k \in 0..Len(s) |-> IF k = 0 THEN base ELSE Op(f[k - 1], s[k])]
  <2>2. LpisNodes(d, q) = gg[Len(s)]
    BY Zenon DEF LpisNodes, Step, s, Op, Walk, base, n
  <2>3. gg = g
    BY <2>1
  <2> HIDE DEF g, gg
  <2> QED
    BY <2>1, <2>2, <2>3
<1> HIDE DEF g
<1>9. g[0] = base /\ \A k \in 1..n : g[k] = Op(g[k - 1], k)
  <2>1. 0 \in 0..n /\ \A k \in 1..n : k \in 0..n /\ k # 0 /\ s[k] = k
    BY <1>1 DEF s
  <2> QED
    BY <1>7, <2>1
<1>10. \A k \in 0..n : g[k] \in I[k]
  <2>1. \A k \in 1..n : g[k - 1] \in I[k - 1] => g[k] \in I[k]
    BY <1>4, <1>9
  <2>2. g[0] \in I[0]
    BY <1>3, <1>9
  <2> QED
    BY <1>1, <2>1, <2>2, StaysIn
<1>11. Lists(g[n], Level(words, q, n))
  <2>1. n \in 0..n
    BY <1>1
  <2> QED
    BY <1>2, <1>10, <2>1
<1>12. n = 1 => g[n] = FirstNodes(d, q[1])
  <2> SUFFICES ASSUME n = 1 PROVE g[1] = FirstNodes(d, q[1])
    OBVIOUS
  <2>1. 1 \in 1..n
    OBVIOUS
  <2>2. g[1] = Op(g[1 - 1], 1) /\ g[1 - 1] \in I[1 - 1]
    BY <1>1, <1>9, <1>10, <2>1
  <2>3. g[1] = Walk(g[1 - 1], 1)
    BY <1>4, <2>1, <2>2
  <2> QED
    BY <2>3 DEF Walk
<1> QED
  BY <1>8, <1>11, <1>12 DEF n

\* What is wanted is at the nodes that the ids lead to; a half id that is a
\* spelling by itself, alone, leads to the first of them.
Alone(q) == Len(q) = 1 /\ q[1] \in YunmuHalf
EndNodes(words, q) == IF Alone(q) THEN {<<Range0(q[1])[1]>>} ELSE Level(words, q, Len(q))

LEMMA WantedIs ==
  ASSUME NEW words, NEW d, NEW S, IsFullTrie(d, words, S), NEW q \in Seq(Ids), Len(q) > 0
  PROVE  /\ Wanted(words, q) = WordsAt(words, EndNodes(words, q))
         /\ EndNodes(words, q) \in SUBSET NodesOf(words)
<1> DEFINE a == Range0(q[1])[1]
           N == 1..Len(words)
<1>1. \A k \in N : words[k].spl \in NodesOf(words) /\ words[k].spl \in Seq(FullIds)
  BY NodesAre DEF IsFullTrie
<1>2. Len(q) \in Nat /\ 1 \in 1..Len(q) /\ q[1] \in Ids
  <2>1. Len(q) \in Nat /\ \A k \in 1..Len(q) : q[k] \in Ids
    BY LenProperties
  <2>2. 1 \in 1..Len(q)
    BY <2>1
  <2> QED
    BY <2>1, <2>2
<1>3. CASE Alone(q)
  <2>1. a \in FullIds /\ a \in Nat
    BY <1>2, IdStandsFor
  <2>2. Range0(a) = <<a, 1>>
    BY <2>1, DictAssumption DEF Range0, IsHalfId, HalfIds, FullIds
  <2>3. ASSUME NEW k \in N PROVE Matching(<<a>>, words[k].spl) <=> words[k].spl = <<a>>
    <3> DEFINE p == words[k].spl
    <3>1. p \in Seq(FullIds) /\ Len(p) \in Nat /\ \A i \in 1..Len(p) : p[i] \in Nat
      <4>1. p \in Seq(FullIds)
        BY <1>1
      <4>2. FullIds \subseteq Nat
        BY DictAssumption DEF FullIds
      <4> HIDE DEF p
      <4>3. Len(p) \in Nat /\ \A i \in 1..Len(p) : p[i] \in FullIds
        BY <4>1, LenProperties
      <4> QED
        BY <4>1, <4>2, <4>3
    <3> HIDE DEF p, a
    <3>2. Len(<<a>>) = 1 /\ <<a>>[1] = a /\ <<a>> \in Seq(FullIds)
      BY <2>1
    <3>3. ASSUME Matching(<<a>>, p) PROVE p = <<a>>
      <4>1. Len(p) = 1 /\ InRange(p[1], a)
        <5>1. Len(p) = 1 /\ \A i \in 1..1 : InRange(p[i], <<a>>[i])
          BY <3>2, <3>3, Zenon DEF Matching
        <5>2. 1 \in 1..1
          OBVIOUS
        <5> QED
          BY <3>2, <5>1, <5>2
      <4>2. a <= p[1] /\ p[1] < a + 1
        BY <2>2, <4>1 DEF InRange
      <4>3. p[1] = a
        BY <2>1, <3>1, <4>1, <4>2
      <4>4. \A i \in 1..Len(p) : p[i] = <<a>>[i]
        <5>1. \A i \in 1..Len(p) : i = 1
          BY <4>1
        <5> QED
          BY <3>2, <4>3, <5>1
      <4> QED
        BY <3>1, <3>2, <4>1, <4>4, SeqEqual
    <3>4. ASSUME p = <<a>> PROVE Matching(<<a>>, p)
      <4>1. Len(p) = 1 /\ p[1] = a
        BY <3>2, <3>4
      <4>2. InRange(a, a)
        BY <2>1, <2>2 DEF InRange
      <4>3. \A i \in 1..1 : InRange(p[i], <<a>>[i])
        <5>1. \A i \in 1..1 : i = 1
          OBVIOUS
        <5> QED
          BY <3>2, <4>1, <4>2, <5>1
      <4> QED
        BY <3>2, <4>1, <4>3 DEF Matching
    <3> QED
      BY <3>3, <3>4 DEF p
  <2>4. Wanted(words, q) = {k \in N : Matching(<<a>>, words[k].spl)}
    BY <1>3 DEF Wanted, Alone
  <2>5. EndNodes(words, q) = {<<a>>}
    BY <1>3 DEF EndNodes
  <2>6. <<a>> \in NodesOf(words)
    <3>1. a \in SonIds(words, <<>>)
      BY <2>1 DEF IsFullTrie
    <3>2. Append(<<>>, a) \in NodesOf(words)
      BY <3>1 DEF SonIds
    <3> HIDE DEF a
    <3> QED
      BY <3>2
  <2> HIDE DEF a
  <2> QED
    BY <2>3, <2>4, <2>5, <2>6 DEF WordsAt
<1>4. CASE ~Alone(q)
  <2>1. Wanted(words, q) = {k \in N : Matching(q, words[k].spl)}
    BY <1>4 DEF Wanted, Alone
  <2>2. EndNodes(words, q) = Level(words, q, Len(q))
    BY <1>4 DEF EndNodes
  <2>3. ASSUME NEW k \in N PROVE Matching(q, words[k].spl) <=> words[k].spl \in Level(words, q, Len(q))
    BY <1>1 DEF Matching, Level
  <2>4. Level(words, q, Len(q)) \in SUBSET NodesOf(words)
    BY DEF Level
  <2> QED
    BY <2>1, <2>2, <2>3, <2>4 DEF WordsAt
<1> QED
  BY <1>3, <1>4

\* The words at the nodes where a walk has ended.
WordsOf(d, q, nodes) ==
  LET used == IF Alone(q) THEN First(nodes, 1) ELSE nodes
  IN  First(Concat([n \in 1..Len(used) |-> d.homos[used[n]]]), MaxLpi)

LEMMA WordsFound ==
  ASSUME NEW words, NEW d, NEW S, IsFullTrie(d, words, S), NEW q \in Seq(Ids), Len(q) > 0,
         Cardinality(Wanted(words, q)) <= MaxLpi,
         NEW nodes, Lists(nodes, Level(words, q, Len(q))), Len(q) = 1 => nodes = FirstNodes(d, q[1])
  PROVE  Lists(WordsOf(d, q, nodes), Wanted(words, q))
<1> DEFINE used == IF Alone(q) THEN First(nodes, 1) ELSE nodes
           E == EndNodes(words, q)
           c == Concat([n \in 1..Len(used) |-> d.homos[used[n]]])
<1>1. Lists(nodes, Level(words, q, Len(q))) /\ (Len(q) = 1 => nodes = FirstNodes(d, q[1]))
  OBVIOUS
<1>2. Wanted(words, q) = WordsAt(words, E) /\ E \in SUBSET NodesOf(words)
  BY WantedIs
<1>3. Lists(used, E)
  <2>1. CASE Alone(q)
    <3>1. Len(q) = 1 /\ 1 \in 1..Len(q)
      BY <2>1 DEF Alone
    <3>2. q[1] \in Ids
      BY <3>1, LenProperties
    <3> DEFINE n == Range0(q[1])[2]
               a == Range0(q[1])[1]
    <3>3. Len(nodes) = n /\ (\A j \in 1..n : nodes[j] = <<a + j - 1>>) /\ n \in Nat /\ n > 0 /\ a \in Nat
      BY <1>1, <3>1, <3>2, FirstNodesAre, IdStandsFor DEF IsFullTrie
    <3> HIDE DEF n, a
    <3>4. 1 \in 1..n /\ a + 1 - 1 = a
      BY <3>3
    <3>5. nodes[1] = <<a>>
      BY <3>3, <3>4
    <3>6. nodes \in Seq(Level(words, q, Len(q)))
      BY <1>1 DEF Lists
    <3>7. First(nodes, 1) = <<nodes[1]>>
      BY <3>3, <3>6, FirstIsOne
    <3>8. used = <<<<a>>>> /\ E = {<<a>>}
      BY <2>1, <3>5, <3>7 DEF EndNodes, a
    <3> QED
      BY <3>8, OneListed
  <2>2. CASE ~Alone(q)
    BY <1>1, <2>2 DEF EndNodes
  <2> QED
    BY <2>1, <2>2
<1>4. Lists(c, WordsAt(words, E))
  <2> HIDE DEF used, E
  <2> QED
    BY <1>2, <1>3, HomosAre DEF IsFullTrie
<1>5. WordsOf(d, q, nodes) = First(c, MaxLpi)
  BY DEF WordsOf
<1> HIDE DEF c, E
<1>6. First(c, MaxLpi) = c
  <2>1. Len(c) <= MaxLpi
    BY <1>2, <1>4, ListsAll
  <2>2. c \in Seq(WordsAt(words, E)) /\ MaxLpi \in Nat
    BY <1>4, DictAssumption DEF Lists
  <2> QED
    BY <2>1, <2>2, FirstIsAll
<1> QED
  BY <1>2, <1>4, <1>5, <1>6

LEMMA LookupFinds ==
  ASSUME NEW words, NEW d, NEW S, IsFullTrie(d, words, S), NEW q \in Seq(Ids), Len(q) > 0,
         HasBuffer(words, q), Cardinality(Wanted(words, q)) <= MaxLpi
  PROVE  Lists(TrieLpis(d, q, MaxLpi), Wanted(words, q))
<1> DEFINE nodes == LpisNodes(d, q)
<1>1. Lists(nodes, Level(words, q, Len(q))) /\ (Len(q) = 1 => nodes = FirstNodes(d, q[1]))
  BY LpisNodesAre
<1>2. TrieLpis(d, q, MaxLpi) = WordsOf(d, q, nodes)
  BY DEF TrieLpis, WordsOf, Alone
<1> HIDE DEF nodes
<1>3. Lists(WordsOf(d, q, nodes), Wanted(words, q))
  BY <1>1, WordsFound
<1> QED
  BY <1>2, <1>3

-----------------------------------------------------------------------------
(* extend_dict.                                                               *)

LEMMA ConcatAppend ==
  ASSUME NEW T, NEW s \in Seq(Seq(T)), NEW t \in Seq(T)
  PROVE  Concat(Append(s, t)) = Concat(s) \o t
<1> DEFINE r == Append(s, t)
           n == Len(s)
<1>1. /\ r \in Seq(Seq(T)) /\ Len(r) = n + 1 /\ n \in Nat
      /\ (\A i \in 1..n : r[i] = s[i]) /\ r[n + 1] = t
  <2>1. t \in Seq(T) /\ n \in Nat
    BY LenProperties
  <2> DEFINE X == Seq(T)
  <2>2. s \in Seq(X) /\ t \in X
    OBVIOUS
  <2> HIDE DEF X
  <2>3. r \in Seq(X) /\ Len(r) = n + 1 /\ (\A i \in 1..n : r[i] = s[i]) /\ r[n + 1] = t
    BY <2>2, AppendProperties
  <2> QED
    BY <2>1, <2>3 DEF X
<1> HIDE DEF r
<1>2. PICK f : IsConcat(f, r, T) /\ Concat(r) = f[Len(r)]
  BY <1>1, ConcatFold
<1>3. n + 1 \in 1..Len(r) /\ (n + 1) - 1 = n /\ n \in 0..Len(r)
  BY <1>1
<1>4. f[n + 1] = f[(n + 1) - 1] \o r[n + 1]
  BY <1>2, <1>3 DEF IsConcat
<1>5. Concat([j \in 1..n |-> r[j]]) = f[n]
  BY <1>1, <1>2, <1>3, ConcatBegins
<1>6. [j \in 1..n |-> r[j]] = s
  <2>1. s = [j \in 1..n |-> s[j]]
    BY LenProperties
  <2>2. [j \in 1..n |-> r[j]] = [j \in 1..n |-> s[j]]
    BY <1>1
  <2> QED
    BY <2>1, <2>2
<1>7. Concat(r) = Concat(s) \o t
  BY <1>1, <1>2, <1>3, <1>4, <1>5, <1>6
<1> QED
  BY <1>7 DEF r

\* The nodes of one mark, and marks whose nodes are there.
MarkNodes(d, mark) == [j \in 1..mark.num |-> Son(d, mark.of, mark.from + j - 1)]
NodesFor(d, marks) == [k \in 1..Len(marks) |-> MarkNodes(d, marks[k])]
MarkSet(words) == [of : NodesOf(words), from : Nat, num : Nat]
GoodMarks(d, words, marks) ==
  marks \in Seq(MarkSet(words)) /\ \A k \in 1..Len(marks) : MarkNodes(d, marks[k]) \in Seq(NodesOf(words))

LEMMA MarkedIs == ASSUME NEW d, NEW marks PROVE MarkedNodes(d, marks) = Concat(NodesFor(d, marks))
  BY DEF MarkedNodes, NodesFor, MarkNodes

LEMMA MarkedAppend ==
  ASSUME NEW d, NEW words, NEW marks, GoodMarks(d, words, marks),
         NEW mark \in MarkSet(words), MarkNodes(d, mark) \in Seq(NodesOf(words))
  PROVE  /\ MarkedNodes(d, Append(marks, mark)) = MarkedNodes(d, marks) \o MarkNodes(d, mark)
         /\ GoodMarks(d, words, Append(marks, mark)) /\ Append(marks, mark) # <<>>
<1> DEFINE T == NodesOf(words)
           M == MarkSet(words)
           n == Len(marks)
           all == Append(marks, mark)
           s == NodesFor(d, marks)
           t == MarkNodes(d, mark)
           r == NodesFor(d, all)
<1>1. marks \in Seq(M) /\ mark \in M /\ n \in Nat /\ (\A k \in 1..n : MarkNodes(d, marks[k]) \in Seq(T)) /\ t \in Seq(T)
  BY LenProperties DEF GoodMarks
<1>2. all \in Seq(M) /\ all # <<>> /\ Len(all) = n + 1 /\ (\A i \in 1..n : all[i] = marks[i]) /\ all[n + 1] = mark
  <2> HIDE DEF M
  <2> QED
    BY <1>1, AppendProperties
<1> HIDE DEF all
<1>3. GoodMarks(d, words, all)
  <2>1. ASSUME NEW k \in 1..n + 1 PROVE MarkNodes(d, all[k]) \in Seq(T)
    <3>1. k \in 1..n \/ k = n + 1
      BY <1>1
    <3> HIDE DEF T
    <3> QED
      BY <1>1, <1>2, <3>1
  <2> QED
    BY <1>2, <2>1 DEF GoodMarks
<1>4. s \in Seq(Seq(T)) /\ Len(s) = n /\ s = [k \in 1..n |-> MarkNodes(d, marks[k])]
  <2>1. s = [k \in 1..n |-> MarkNodes(d, marks[k])]
    BY DEF NodesFor
  <2> HIDE DEF s, T
  <2>2. s \in [1..n -> Seq(T)]
    BY <1>1, <2>1
  <2>3. s \in Seq(Seq(T))
    BY <1>1, <2>2, IsASeq
  <2> QED
    BY <1>1, <2>1, <2>2, <2>3, LenProperties
<1>5. r = Append(s, t)
  <2> DEFINE X == Seq(T)
             u == Append(s, t)
  <2>1. s \in Seq(X) /\ t \in X
    BY <1>1, <1>4
  <2> HIDE DEF X, s, t
  <2>2. u \in Seq(X) /\ Len(u) = n + 1 /\ (\A i \in 1..n : u[i] = s[i]) /\ u[n + 1] = t
    BY <1>4, <2>1, AppendProperties
  <2> HIDE DEF u
  <2>3. u = [k \in 1..n + 1 |-> u[k]]
    BY <2>2, LenProperties
  <2>4. r = [k \in 1..n + 1 |-> MarkNodes(d, all[k])]
    BY <1>2 DEF NodesFor
  <2>5. ASSUME NEW k \in 1..n + 1 PROVE MarkNodes(d, all[k]) = u[k]
    <3>1. k \in 1..n \/ k = n + 1
      BY <1>1
    <3>2. CASE k \in 1..n
      <4>1. u[k] = s[k] /\ s[k] = MarkNodes(d, marks[k]) /\ all[k] = marks[k]
        BY <1>2, <1>4, <2>2, <3>2
      <4> QED
        BY <4>1
    <3>3. CASE k = n + 1
      BY <1>2, <2>2, <3>3 DEF t
    <3> QED
      BY <3>1, <3>2, <3>3
  <2> QED
    BY <2>3, <2>4, <2>5 DEF u
<1>6. Concat(r) = Concat(s) \o t
  <2> HIDE DEF s, t, r, T
  <2> QED
    BY <1>1, <1>4, <1>5, ConcatAppend
<1> QED
  BY <1>2, <1>3, <1>6, MarkedIs DEF all

\* What the visits of the nodes of P leave behind.
VisitStates(words) ==
  [marks : Seq(MarkSet(words)), lpis : Seq(Nat), found : Nat, markPos : Nat, stonePos : Nat]
Visited(d, words, id, P, x, marks, stones) ==
  /\ x \in VisitStates(words) /\ x.stonePos = stones /\ x.markPos <= marks
  /\ GoodMarks(d, words, x.marks)
  /\ Lists(MarkedNodes(d, x.marks), Below(words, P, id))
  /\ Lists(x.lpis, WordsAt(words, Below(words, P, id)))
  /\ x.marks = <<>> <=> Below(words, P, id) = {}

LEMMA SameEnd == ASSUME NEW a \in Nat, NEW b \in Nat, 1..a = 1..b PROVE a = b
<1>1. ASSUME a > 0 PROVE a <= b
  <2>1. a \in 1..a
    BY <1>1
  <2>2. a \in 1..b
    BY <2>1
  <2> QED
    BY <2>2
<1>2. ASSUME b > 0 PROVE b <= a
  <2>1. b \in 1..b
    BY <1>2
  <2>2. b \in 1..a
    BY <2>1
  <2> QED
    BY <2>2
<1> QED
  BY <1>1, <1>2

LEMMA HereIs ==
  ASSUME NEW words, NEW d, NEW S, IsFullTrie(d, words, S), NEW id \in Ids, NEW node \in NodesOf(words)
  PROVE  LET sons == SonsFor(d, node, id)
             here == Concat([i \in 1..Len(sons) |-> d.homos[Son(d, node, sons[i])]])
             mark == [of |-> node, from |-> sons[1], num |-> Len(sons)]
         IN  /\ Lists(here, WordsAt(words, Children(words, node, id)))
             /\ Children(words, node, id) \in SUBSET NodesOf(words)
             /\ sons = <<>> <=> Children(words, node, id) = {}
             /\ sons # <<>> => /\ mark \in MarkSet(words)
                               /\ MarkNodes(d, mark) \in Seq(NodesOf(words))
                               /\ Lists(MarkNodes(d, mark), Children(words, node, id))
<1> DEFINE sons == SonsFor(d, node, id)
           n == Len(sons)
           here == Concat([i \in 1..n |-> d.homos[Son(d, node, sons[i])]])
           mark == [of |-> node, from |-> sons[1], num |-> n]
           c == ChildSeq(d, node, id)
           C == Children(words, node, id)
<1>1. Lists(c, C) /\ sons \in Seq(Nat) /\ \A j \in 1..n : sons[j] = sons[1] + j - 1
  BY ChildrenAre DEF IsFullTrie
<1>2. C \in SUBSET NodesOf(words)
  BY ChildIs DEF IsFullTrie
<1>3. n \in Nat /\ (\A j \in 1..n : sons[j] \in Nat) /\ (sons = <<>> <=> n = 0)
  <2>1. n \in Nat /\ \A j \in 1..n : sons[j] \in Nat
    BY <1>1, LenProperties
  <2> HIDE DEF sons
  <2> QED
    BY <1>1, <2>1, EmptySeq DEF n
<1>4. c = [j \in 1..n |-> Son(d, node, sons[j])]
  BY DEF ChildSeq
<1>5. Len(c) = n
  <2>1. DOMAIN c = 1..Len(c) /\ Len(c) \in Nat
    BY <1>1, ListsAll
  <2>2. DOMAIN c = 1..n
    BY <1>4
  <2> HIDE DEF c, n
  <2>3. 1..Len(c) = 1..n
    BY <2>1, <2>2
  <2> QED
    BY <1>3, <2>1, <2>3, SameEnd
<1> HIDE DEF sons, n, c, C
<1>6. Lists(here, WordsAt(words, C))
  <2>1. Lists(Concat([i \in 1..Len(c) |-> d.homos[c[i]]]), WordsAt(words, C))
    BY <1>1, <1>2, HomosAre DEF IsFullTrie
  <2>2. [i \in 1..Len(c) |-> d.homos[c[i]]] = [i \in 1..n |-> d.homos[Son(d, node, sons[i])]]
    <3>1. \A i \in 1..n : c[i] = Son(d, node, sons[i])
      BY <1>4
    <3> QED
      BY <1>5, <3>1
  <2> QED
    BY <2>1, <2>2
<1>7. sons = <<>> <=> C = {}
  <2>1. c = <<>> <=> C = {}
    BY <1>1, ListsAll
  <2>2. Len(c) = 0 <=> c = <<>>
    <3>1. c \in Seq(C)
      BY <1>1 DEF Lists
    <3> QED
      BY <3>1, EmptySeq
  <2> QED
    BY <1>3, <1>5, <2>1, <2>2
<1>8. ASSUME sons # <<>> PROVE mark \in MarkSet(words) /\ MarkNodes(d, mark) = c
  <2>1. 1 \in 1..n /\ sons[1] \in Nat
    <3>1. 1 \in 1..n
      BY <1>3, <1>8
    <3> QED
      BY <1>3, <3>1
  <2>2. mark \in MarkSet(words)
    BY <1>3, <2>1 DEF MarkSet
  <2>3. MarkNodes(d, mark) = [j \in 1..n |-> Son(d, node, sons[1] + j - 1)]
    BY DEF MarkNodes
  <2> QED
    BY <1>1, <1>4, <2>2, <2>3
<1>9. c \in Seq(NodesOf(words))
  <2>1. c \in Seq(C)
    BY <1>1 DEF Lists
  <2> QED
    BY <1>2, <2>1, SeqMonotonic
<1> QED
  BY <1>1, <1>2, <1>6, <1>7, <1>8, <1>9 DEF sons, n, C

LEMMA VisitStep ==
  ASSUME NEW words, NEW d, NEW S, IsFullTrie(d, words, S), NEW id \in Ids,
         NEW P \in SUBSET NodesOf(words), NEW node \in NodesOf(words) \ P, NEW x, NEW marks \in Nat, NEW stones \in Nat,
         Visited(d, words, id, P, x, marks, stones), stones < MaxStones, marks < MaxMarks,
         Cardinality(WordsAt(words, Below(words, P \cup {node}, id))) <= MaxLpi
  PROVE  Visited(d, words, id, P \cup {node}, Visit(d, x, node, id), marks + 1, stones)
<1> DEFINE sons == SonsFor(d, node, id)
           here == Concat([i \in 1..Len(sons) |-> d.homos[Son(d, node, sons[i])]])
           mark == [of |-> node, from |-> sons[1], num |-> Len(sons)]
           C == Children(words, node, id)
           A == Below(words, P, id)
           B == Below(words, P \cup {node}, id)
           y == Visit(d, x, node, id)
<1>1. /\ Lists(here, WordsAt(words, C)) /\ C \in SUBSET NodesOf(words) /\ (sons = <<>> <=> C = {})
      /\ sons # <<>> => /\ mark \in MarkSet(words) /\ MarkNodes(d, mark) \in Seq(NodesOf(words))
                        /\ Lists(MarkNodes(d, mark), C)
  BY HereIs
<1>2. B = A \cup C
  BY <1>1 DEF Below
<1>3. A \cap C = {}
  <2>1. ASSUME NEW r \in A, r \in C PROVE FALSE
    <3>1. PICK p \in P : r \in Children(words, p, id)
      BY DEF Below
    <3>2. Front(r) = p /\ Front(r) = node
      BY <2>1, <3>1, ChildIs DEF IsFullTrie
    <3> QED
      BY <3>2
  <2> QED
    BY <2>1
<1>4. WordsAt(words, B) = WordsAt(words, A) \cup WordsAt(words, C) /\ WordsAt(words, A) \cap WordsAt(words, C) = {}
  BY <1>2, <1>3 DEF WordsAt
<1>5. /\ x \in VisitStates(words) /\ x.stonePos = stones /\ x.markPos <= marks /\ GoodMarks(d, words, x.marks)
      /\ Lists(MarkedNodes(d, x.marks), A) /\ Lists(x.lpis, WordsAt(words, A)) /\ (x.marks = <<>> <=> A = {})
  BY DEF Visited
<1>6. /\ x.markPos \in Nat /\ x.found \in Nat /\ x.marks \in Seq(MarkSet(words)) /\ x.lpis \in Seq(Nat)
      /\ x = [marks |-> x.marks, lpis |-> x.lpis, found |-> x.found, markPos |-> x.markPos, stonePos |-> x.stonePos]
  BY <1>5 DEF VisitStates
<1>7. CASE sons = <<>>
  <2>1. y = x /\ B = A
    BY <1>1, <1>2, <1>7 DEF Visit
  <2>2. x.markPos <= marks + 1
    BY <1>5, <1>6
  <2> HIDE DEF y, A, B
  <2> QED
    BY <1>5, <2>1, <2>2 DEF Visited, y, A, B
<1>8. CASE sons # <<>>
  <2> DEFINE lpis == First(x.lpis \o here, MaxLpi)
             z == [marks |-> Append(x.marks, mark), lpis |-> lpis, found |-> x.found + 1,
                   markPos |-> x.markPos + 1, stonePos |-> x.stonePos]
  <2>1. y = z
    <3>1. MayMark(x)
      <4>1. MaxMarks \in Nat
        BY DictAssumption
      <4> QED
        BY <1>5, <1>6, <4>1 DEF MayMark
    <3>2. y = [x EXCEPT !.lpis = First(@ \o here, MaxLpi), !.found = @ + 1,
                 !.marks = IF MayMark(x) THEN Append(@, mark) ELSE @, !.markPos = IF MayMark(x) THEN @ + 1 ELSE @]
      <4>1. y = IF sons = <<>> THEN x
                ELSE [x EXCEPT !.lpis = First(@ \o here, MaxLpi), !.found = @ + 1,
                        !.marks = IF MayMark(x) THEN Append(@, mark) ELSE @,
                        !.markPos = IF MayMark(x) THEN @ + 1 ELSE @]
        BY Zenon DEF Visit
      <4> HIDE DEF y, sons, here, mark
      <4> QED
        BY <1>8, <4>1, Zenon
    <3> HIDE DEF here, mark, y
    <3> QED
      BY <1>6, <3>1, <3>2
  <2>2. Lists(x.lpis \o here, WordsAt(words, B))
    <3> HIDE DEF here, A, B, C
    <3> QED
      BY <1>1, <1>4, <1>5, ListsBoth
  <2>3. lpis = x.lpis \o here
    <3> DEFINE s == x.lpis \o here
    <3>1. Lists(s, WordsAt(words, B))
      BY <2>2
    <3> HIDE DEF s
    <3>2. Len(s) <= MaxLpi /\ MaxLpi \in Nat
      BY <3>1, ListsAll, DictAssumption
    <3>3. s \in Seq(WordsAt(words, B))
      BY <3>1 DEF Lists
    <3>4. First(s, MaxLpi) = s
      BY <3>2, <3>3, FirstIsAll
    <3> QED
      BY <3>4 DEF s
  <2>4. Lists(lpis, WordsAt(words, B)) /\ lpis \in Seq(Nat)
    <3>1. WordsAt(words, B) \subseteq Nat
      BY WordsAre DEF WordsAt, IsFullTrie
    <3> HIDE DEF lpis, B
    <3>2. Lists(lpis, WordsAt(words, B))
      BY <2>2, <2>3
    <3> QED
      BY <3>1, <3>2, SeqMonotonic DEF Lists
  <2> HIDE DEF lpis, mark
  <2>5. /\ MarkedNodes(d, Append(x.marks, mark)) = MarkedNodes(d, x.marks) \o MarkNodes(d, mark)
        /\ GoodMarks(d, words, Append(x.marks, mark)) /\ Append(x.marks, mark) # <<>>
    BY <1>1, <1>5, <1>8, MarkedAppend
  <2>6. Lists(MarkedNodes(d, Append(x.marks, mark)), B)
    <3> DEFINE u == MarkedNodes(d, x.marks)
               v == MarkNodes(d, mark)
    <3>1. Lists(u, A) /\ Lists(v, C)
      BY <1>1, <1>5, <1>8
    <3> HIDE DEF u, v, A, B, C
    <3>2. Lists(u \o v, A \cup C)
      BY <1>3, <3>1, ListsBoth
    <3> QED
      BY <1>2, <2>5, <3>2 DEF u, v
  <2>7. B # {}
    BY <1>1, <1>2, <1>8
  <2>8. z \in VisitStates(words)
    <3>1. Append(x.marks, mark) \in Seq(MarkSet(words)) /\ x.markPos + 1 \in Nat /\ x.found + 1 \in Nat /\ x.stonePos \in Nat
      BY <1>5, <1>6, <2>5 DEF GoodMarks
    <3> QED
      BY <2>4, <3>1 DEF VisitStates
  <2>9. z.stonePos = stones /\ z.markPos <= marks + 1 /\ z.marks = Append(x.marks, mark) /\ z.lpis = lpis
    BY <1>5, <1>6
  <2> HIDE DEF z, y, B
  <2> QED
    BY <2>1, <2>4, <2>5, <2>6, <2>7, <2>8, <2>9 DEF Visited, y, B
<1> QED
  BY <1>7, <1>8

\* A mile stone whose marks stand for the nodes of L and whose words are W.
Stones(words) == [depth : Nat, marks : Seq(MarkSet(words)), lpis : Seq(Nat), markPos : Nat, stonePos : Nat]
Stone(d, words, m, L, W, marks, stones) ==
  /\ m \in Stones(words) /\ m.depth # 0 /\ m.markPos <= marks /\ m.stonePos <= stones
  /\ GoodMarks(d, words, m.marks) /\ Lists(MarkedNodes(d, m.marks), L) /\ Lists(m.lpis, W)
  /\ m.marks = <<>> <=> L = {}

LEMMA NoMarks ==
  ASSUME NEW d, NEW words
  PROVE  GoodMarks(d, words, <<>>) /\ Lists(MarkedNodes(d, <<>>), {}) /\ Lists(<<>>, {})
<1>1. Lists(<<>>, {})
  BY DEF Lists
<1>2. GoodMarks(d, words, <<>>)
  <2> DEFINE M == MarkSet(words)
  <2>1. <<>> \in Seq(M) /\ Len(<<>>) = 0
    OBVIOUS
  <2> QED
    BY <2>1 DEF GoodMarks
<1>3. NodesFor(d, <<>>) = <<>>
  <2>1. Len(NodesFor(d, <<>>)) = 0 /\ NodesFor(d, <<>>) \in Seq({})
    BY DEF NodesFor
  <2> QED
    BY <2>1, EmptySeq
<1>4. MarkedNodes(d, <<>>) = <<>>
  BY <1>3, MarkedIs, ConcatNone
<1> QED
  BY <1>1, <1>2, <1>4

LEMMA VisitTypes ==
  ASSUME NEW d, NEW words, NEW id, NEW P, NEW x, NEW marks, NEW stones, Visited(d, words, id, P, x, marks, stones)
  PROVE  x \in VisitStates(words)
  BY DEF Visited

LEMMA ExtendBehind ==
  ASSUME NEW words, NEW d, NEW S, IsFullTrie(d, words, S), NEW id \in Ids, NEW P \in SUBSET NodesOf(words),
         NEW m, m.markPos \in Nat, m.stonePos \in Nat, m.depth \in Nat, Lists(MarkedNodes(d, m.marks), P),
         m.stonePos < MaxStones, m.markPos + Cardinality(P) <= MaxMarks,
         Cardinality(WordsAt(words, Below(words, P, id))) <= MaxLpi
  PROVE  Stone(d, words, Extend1(d, m, id), Below(words, P, id), WordsAt(words, Below(words, P, id)),
               m.markPos + Cardinality(P), m.stonePos + 1)
<1> DEFINE v == MarkedNodes(d, m.marks)
           n == Len(v)
           mp == m.markPos
           sp == m.stonePos
           T == VisitStates(words)
           base == [marks |-> <<>>, lpis |-> <<>>, found |-> 0, markPos |-> mp, stonePos |-> sp]
           Op(x, node) == Visit(d, x, node, id)
           Seen == [k \in 0..n |-> {v[j] : j \in 1..k}]
           I == [k \in 0..n |-> {x \in T : Visited(d, words, id, Seen[k], x, mp + k, sp)}]
           G == [p \in T \X (1..n) |-> Op(p[1], v[p[2]])]
           Is(f) == f = [k \in 0..n |-> IF k = 0 THEN base ELSE Op(f[k - 1], v[k])]
<1>1. n \in Nat /\ n = Cardinality(P) /\ (\A k \in 1..n : v[k] \in P) /\ (\A p \in P : \E k \in 1..n : v[k] = p)
      /\ \A i, j \in 1..n : v[i] = v[j] => i = j
  BY ListsAll DEF Lists
<1>2. mp \in Nat /\ sp \in Nat /\ sp < MaxStones /\ mp + n <= MaxMarks /\ MaxMarks \in Nat
  BY <1>1, DictAssumption
<1> HIDE DEF v, n, mp, sp
<1>3. Seen[0] = {} /\ Seen[n] = P /\ \A k \in 1..n : Seen[k] = Seen[k - 1] \cup {v[k]} /\ v[k] \notin Seen[k - 1] /\ Seen[k] \subseteq P
  <2>1. Seen[0] = {}
    BY <1>1
  <2>2. Seen[n] = P
    BY <1>1
  <2>3. ASSUME NEW k \in 1..n
        PROVE  Seen[k] = Seen[k - 1] \cup {v[k]} /\ v[k] \notin Seen[k - 1] /\ Seen[k] \subseteq P
    <3>1. k \in 0..n /\ k - 1 \in 0..n /\ 1..k = (1..k - 1) \cup {k} /\ k \notin 1..k - 1 /\ 1..k \subseteq 1..n
      BY <1>1
    <3>2. Seen[k] = {v[j] : j \in 1..k} /\ Seen[k - 1] = {v[j] : j \in 1..k - 1}
      BY <3>1
    <3> HIDE DEF Seen
    <3> QED
      BY <1>1, <3>1, <3>2
  <2> QED
    BY <2>1, <2>2, <2>3
<1> HIDE DEF Seen
<1>4. \A k \in 0..n : \A x : x \in I[k] <=> Visited(d, words, id, Seen[k], x, mp + k, sp)
  BY VisitTypes
<1>5. base \in I[0]
  <2>1. base \in T
    <3>1. <<>> \in Seq(MarkSet(words)) /\ <<>> \in Seq(Nat)
      OBVIOUS
    <3> QED
      BY <1>2, <3>1 DEF VisitStates
  <2>2. Below(words, {}, id) = {} /\ WordsAt(words, {}) = {}
    BY DEF Below, WordsAt
  <2>3. base.marks = <<>> /\ base.lpis = <<>> /\ base.markPos = mp /\ base.stonePos = sp
    OBVIOUS
  <2> HIDE DEF base, T
  <2>4. mp <= mp + 0 /\ 0 \in 0..n
    BY <1>1, <1>2
  <2>5. Visited(d, words, id, {}, base, mp + 0, sp)
    BY <2>1, <2>2, <2>3, <2>4, NoMarks DEF Visited, T
  <2> QED
    <3>1. Visited(d, words, id, Seen[0], base, mp + 0, sp)
      BY <1>3, <2>5
    <3> HIDE DEF I
    <3> QED
      BY <1>4, <2>4, <3>1
<1>6. ASSUME NEW k \in 1..n, NEW x \in I[k - 1] PROVE Op(x, v[k]) \in I[k] /\ x \in T
  <2>1. k - 1 \in 0..n /\ k \in 0..n /\ mp + (k - 1) \in Nat /\ mp + (k - 1) < MaxMarks /\ (mp + (k - 1)) + 1 = mp + k
    BY <1>1, <1>2
  <2> DEFINE A == Seen[k - 1]
             node == v[k]
             c == mp + (k - 1)
             W == WordsAt(words, Below(words, A \cup {node}, id))
  <2>2. Visited(d, words, id, A, x, c, sp)
    BY <1>4, <2>1
  <2>3. A \in SUBSET NodesOf(words) /\ node \in NodesOf(words) \ A
    BY <1>3
  <2>4. Cardinality(W) <= MaxLpi
    <3> DEFINE V == WordsAt(words, Below(words, P, id))
    <3>1. W \subseteq V
      BY <1>3 DEF Below, WordsAt
    <3>2. IsFiniteSet(V)
      <4>1. Len(words) \in Nat
        BY WordsAre DEF IsFullTrie
      <4>2. V \subseteq 1..Len(words)
        BY DEF WordsAt
      <4>3. IsFiniteSet(1..Len(words))
        BY WordsAre DEF IsFullTrie
      <4> HIDE DEF V
      <4> QED
        BY <4>2, <4>3, FS_Subset
    <3> HIDE DEF V, W
    <3>3. Cardinality(W) <= Cardinality(V) /\ IsFiniteSet(W)
      BY <3>1, <3>2, FS_Subset
    <3>4. Cardinality(V) \in Nat /\ Cardinality(W) \in Nat /\ MaxLpi \in Nat /\ Cardinality(V) <= MaxLpi
      BY <3>2, <3>3, FS_CardinalityType, DictAssumption DEF V
    <3> QED
      BY <3>3, <3>4
  <2>5. c \in Nat /\ c < MaxMarks /\ c + 1 = mp + k
    BY <2>1
  <2> HIDE DEF A, node, c
  <2>6. Visited(d, words, id, A \cup {node}, Visit(d, x, node, id), c + 1, sp)
    BY <1>2, <2>2, <2>3, <2>4, <2>5, VisitStep
  <2> HIDE DEF Op, I
  <2>7. Visited(d, words, id, Seen[k], Op(x, v[k]), mp + k, sp)
    BY <1>3, <2>5, <2>6 DEF A, node, Op
  <2> QED
    BY <1>4, <2>1, <2>2, <2>7, VisitTypes DEF T
<1>7. \A x \in T : \A k \in 1..n : G[<<x, k>>] = Op(x, v[k])
  <2> HIDE DEF Op, T, n
  <2> QED
    OBVIOUS
<1> HIDE DEF Op, I, G, T, base
<1>8. \E f : Is(f)
  <2>1. \A k \in 1..n : \A x \in I[k - 1] : G[<<x, k>>] \in I[k]
    BY <1>6, <1>7
  <2>2. PICK f : IsRunIn(f, I, n, base, G)
    BY <1>1, <1>5, <2>1, RunExists
  <2>3. ASSUME NEW k \in 0..n PROVE f[k] = IF k = 0 THEN base ELSE Op(f[k - 1], v[k])
    <3>1. CASE k = 0
      BY <2>2, <3>1 DEF IsRunIn
    <3>2. CASE k # 0
      <4>1. k \in 1..n /\ k - 1 \in 0..n
        BY <1>1, <3>2
      <4>2. f[k - 1] \in I[k - 1] /\ f[k] = G[<<f[k - 1], k>>]
        BY <2>2, <4>1 DEF IsRunIn
      <4>3. f[k - 1] \in T
        BY <1>6, <4>1, <4>2
      <4> QED
        BY <1>7, <3>2, <4>1, <4>2, <4>3
    <3> QED
      BY <3>1, <3>2
  <2>4. f = [k \in 0..n |-> f[k]]
    BY <2>2 DEF IsRunIn
  <2>5. [k \in 0..n |-> f[k]] = [k \in 0..n |-> IF k = 0 THEN base ELSE Op(f[k - 1], v[k])]
    BY <2>3
  <2>6. Is(f)
    BY <2>4, <2>5
  <2> HIDE DEF Is
  <2> QED
    BY <2>6
<1> DEFINE g == CHOOSE f : Is(f)
<1>9. Is(g)
  <2> HIDE DEF Is
  <2> QED
    BY <1>8
<1> DEFINE last == g[n]
           r == Extend1(d, m, id)
<1>10. r = [depth |-> m.depth + 1, marks |-> last.marks, lpis |-> last.lpis, markPos |-> last.markPos,
            stonePos |-> IF last.found > 0 THEN last.stonePos + 1 ELSE last.stonePos]
  BY Zenon DEF Extend1, Step, v, n, Op, base, mp, sp
<1> HIDE DEF g
<1>11. g[0] = base /\ \A k \in 1..n : g[k] = Op(g[k - 1], v[k])
  <2>1. 0 \in 0..n /\ \A k \in 1..n : k \in 0..n /\ k # 0
    BY <1>1
  <2> QED
    BY <1>9, <2>1
<1>12. \A k \in 0..n : g[k] \in I[k]
  <2>1. \A k \in 1..n : g[k - 1] \in I[k - 1] => g[k] \in I[k]
    BY <1>6, <1>11
  <2>2. g[0] \in I[0]
    BY <1>5, <1>11
  <2> QED
    BY <1>1, <2>1, <2>2, StaysIn
<1>13. Visited(d, words, id, P, last, mp + n, sp)
  <2>1. n \in 0..n
    BY <1>1
  <2> QED
    BY <1>3, <1>4, <1>12, <2>1
<1> HIDE DEF last
<1>14. last.markPos \in Nat /\ last.found \in Nat
  BY <1>13 DEF Visited, VisitStates
<1>15. /\ r.depth \in Nat \ {0} /\ r.marks = last.marks /\ r.lpis = last.lpis /\ r.markPos = last.markPos
       /\ r.stonePos \in {last.stonePos, last.stonePos + 1}
  BY <1>10
<1>16. r.stonePos \in Nat /\ r.stonePos <= sp + 1
  BY <1>2, <1>13, <1>15 DEF Visited
<1> HIDE DEF r
<1>18. r \in Stones(words) /\ r.depth # 0
  <2>1. last.marks \in Seq(MarkSet(words)) /\ last.lpis \in Seq(Nat)
    BY <1>13 DEF Visited, VisitStates
  <2>2. m.depth + 1 \in Nat \ {0}
    OBVIOUS
  <2> DEFINE sq == IF last.found > 0 THEN last.stonePos + 1 ELSE last.stonePos
  <2>3. sq \in Nat /\ r = [depth |-> m.depth + 1, marks |-> last.marks, lpis |-> last.lpis, markPos |-> last.markPos, stonePos |-> sq]
    BY <1>2, <1>10, <1>13 DEF Visited, r
  <2> HIDE DEF sq, r
  <2> QED
    BY <1>14, <2>1, <2>2, <2>3 DEF Stones
<1>17. Stone(d, words, r, Below(words, P, id), WordsAt(words, Below(words, P, id)), mp + n, sp + 1)
  BY <1>13, <1>14, <1>15, <1>16, <1>18 DEF Stone, Visited
<1> QED
  BY <1>1, <1>17 DEF r, mp, sp

LEMMA OneMark ==
  ASSUME NEW words, NEW d, NEW mark \in MarkSet(words), MarkNodes(d, mark) \in Seq(NodesOf(words))
  PROVE  MarkedNodes(d, <<mark>>) = MarkNodes(d, mark) /\ GoodMarks(d, words, <<mark>>)
<1>1. MarkedNodes(d, <<>>) = <<>> /\ GoodMarks(d, words, <<>>)
  <2>1. Lists(MarkedNodes(d, <<>>), {}) /\ GoodMarks(d, words, <<>>)
    BY NoMarks
  <2> QED
    BY <2>1, ListsAll
<1> DEFINE all == Append(<<>>, mark)
<1>2. MarkedNodes(d, all) = MarkedNodes(d, <<>>) \o MarkNodes(d, mark) /\ GoodMarks(d, words, all)
  BY <1>1, MarkedAppend
<1>3. all = <<mark>>
  OBVIOUS
<1>4. \A s \in Seq(NodesOf(words)) : <<>> \o s = s
  OBVIOUS
<1> HIDE DEF all
<1> QED
  BY <1>1, <1>2, <1>3, <1>4

LEMMA ExtendFirst ==
  ASSUME NEW words, NEW d, NEW S, IsFullTrie(d, words, S), NEW id \in Ids, 1 < MaxStones, 0 < MaxMarks,
         Cardinality(Wanted(words, <<id>>)) <= MaxLpi
  PROVE  Stone(d, words, Extend0(d, Root, id), Children(words, <<>>, id), Wanted(words, <<id>>), 1, 2)
<1> DEFINE q == <<id>>
           places == RootSons(d, id)
           a == d.sons[<<>>]
           n == Range0(id)[2]
           used == IF id \in YunmuHalf THEN First(places, 1) ELSE places
           nodes == FirstNodes(d, id)
           reached == IF Alone(q) THEN First(nodes, 1) ELSE nodes
           mark == [of |-> <<>>, from |-> places[1], num |-> n]
           C == Children(words, <<>>, id)
           r == Extend0(d, Root, id)
<1>1. /\ places \in Seq(Nat) /\ Len(places) = n /\ n \in Nat /\ n > 0
      /\ \A k \in 1..n : places[k] = places[1] + k - 1 /\ a[places[k]] = Range0(id)[1] + k - 1
  <2>1. Ascends(d.sons[<<>>], FullIds)
    BY DEF IsFullTrie, IsTrie
  <2> QED
    BY <2>1, RootPlaces
<1>2. nodes = [j \in 1..n |-> Son(d, <<>>, places[j])] /\ Lists(nodes, C)
  BY <1>1, FirstNodesAre DEF FirstNodes, IsFullTrie
<1>3. q \in Seq(Ids) /\ Len(q) = 1 /\ q[1] = id /\ (Alone(q) <=> id \in YunmuHalf)
  BY DEF Alone
<1>4. /\ WordsOf(d, q, nodes) = First(Concat([k \in 1..Len(reached) |-> d.homos[reached[k]]]), MaxLpi)
      /\ nodes = FirstNodes(d, q[1]) /\ C = Level(words, q, 1)
  <2>1. C = Level(words, q, 1)
    BY <1>3, LevelOne DEF IsFullTrie
  <2> QED
    BY <1>3, <2>1, Zenon DEF WordsOf
<1>5. 1 \in 1..n /\ places[1] \in Nat
  <2> HIDE DEF places, n
  <2>1. 1 \in 1..n
    BY <1>1
  <2> QED
    BY <1>1, <2>1
<1> HIDE DEF places, n, nodes, a
<1>6. nodes \in Seq(C) /\ Len(nodes) = n
  <2>1. nodes \in Seq(C)
    BY <1>2 DEF Lists
  <2>2. DOMAIN nodes = 1..n /\ DOMAIN nodes = 1..Len(nodes) /\ Len(nodes) \in Nat
    BY <1>2, ListsAll
  <2> QED
    BY <1>1, <2>1, <2>2, SameEnd
<1>7. [k \in 1..Len(reached) |-> d.homos[reached[k]]] = [k \in 1..Len(used) |-> d.homos[Son(d, <<>>, used[k])]]
  <2>1. CASE id \in YunmuHalf
    <3>1. used = <<places[1]>> /\ reached = <<nodes[1]>>
      BY <1>1, <1>3, <1>6, <2>1, FirstIsOne
    <3>2. nodes[1] = Son(d, <<>>, places[1])
      BY <1>2, <1>5
    <3> HIDE DEF used, reached
    <3> QED
      BY <3>1, <3>2
  <2>2. CASE id \notin YunmuHalf
    <3>1. used = places /\ reached = nodes
      BY <1>3, <2>2
    <3>2. \A k \in 1..n : nodes[k] = Son(d, <<>>, places[k])
      BY <1>2
    <3> HIDE DEF used, reached
    <3> QED
      BY <1>1, <1>6, <3>1, <3>2
  <2> QED
    BY <2>1, <2>2
<1>8. WordsOf(d, q, nodes) = First(Concat([k \in 1..Len(used) |-> d.homos[Son(d, <<>>, used[k])]]), MaxLpi)
  BY <1>4, <1>7, Zenon
<1>9. Lists(WordsOf(d, q, nodes), Wanted(words, q))
  <2>1. Len(q) > 0 /\ Lists(nodes, Level(words, q, Len(q)))
    BY <1>2, <1>3, <1>4
  <2> QED
    BY <1>3, <1>4, <2>1, WordsFound
<1> DEFINE stone == MayMark(Root) /\ \E k \in 1..Len(places) : d.sons[<<>>][places[k]] = Range0(id)[1]
           l == WordsOf(d, q, nodes)
<1>10. stone
  <2>1. MayMark(Root)
    BY DictAssumption DEF MayMark, Root
  <2>2. 1 \in 1..Len(places)
    BY <1>1, <1>5
  <2>3. d.sons[<<>>][places[1]] = Range0(id)[1]
    <3> DEFINE b == Range0(id)[1]
    <3>1. a[places[1]] = b + 1 - 1 /\ b \in Nat
      BY <1>1, <1>5, IdStandsFor
    <3> HIDE DEF b
    <3>2. a[places[1]] = b
      BY <3>1
    <3> QED
      BY <3>2 DEF b, a
  <2> QED
    BY <2>1, <2>2, <2>3
<1>12. r = [marks |-> <<mark>>, lpis |-> l, depth |-> 1, markPos |-> 1, stonePos |-> 2]
  <2> DEFINE more == IF stone THEN 1 ELSE 0
             list == First(Concat([k \in 1..Len(used) |-> d.homos[Son(d, <<>>, used[k])]]), MaxLpi)
             marks == IF stone THEN <<[of |-> <<>>, from |-> places[1], num |-> Range0(id)[2]]>> ELSE <<>>
  <2>1. r = [depth |-> 1, markPos |-> Root.markPos + more, stonePos |-> Root.stonePos + more, lpis |-> list, marks |-> marks]
    BY Zenon DEF Extend0, places
  <2>2. list = l
    BY <1>8
  <2>3. marks = <<mark>>
    <3> HIDE DEF stone
    <3> QED
      BY <1>10 DEF n
  <2>4. Root.markPos + more = 1 /\ Root.stonePos + more = 2
    <3>1. more = 1
      <4> HIDE DEF stone
      <4> QED
        BY <1>10
    <3> HIDE DEF more
    <3> QED
      BY <3>1 DEF Root
  <2> HIDE DEF r, list, marks, more, l, mark
  <2> QED
    BY <2>1, <2>2, <2>3, <2>4
<1>13. mark \in MarkSet(words) /\ MarkNodes(d, mark) = nodes
  <2>1. <<>> \in NodesOf(words)
    BY DEF IsFullTrie
  <2>2. mark \in MarkSet(words)
    BY <1>1, <1>5, <2>1 DEF MarkSet
  <2>3. MarkNodes(d, mark) = [j \in 1..n |-> Son(d, <<>>, places[1] + j - 1)]
    BY DEF MarkNodes
  <2>4. \A j \in 1..n : places[1] + j - 1 = places[j]
    BY <1>1
  <2> QED
    BY <1>2, <2>2, <2>3, <2>4
<1>14. C \in SUBSET NodesOf(words)
  BY ChildIs DEF IsFullTrie
<1> HIDE DEF mark, l, r, C
<1>15. MarkedNodes(d, <<mark>>) = nodes /\ GoodMarks(d, words, <<mark>>)
  <2>1. nodes \in Seq(NodesOf(words))
    BY <1>6, <1>14, SeqMonotonic
  <2> QED
    BY <1>13, <2>1, OneMark
<1>16. C # {}
  <2>1. nodes # <<>>
    <3>1. Len(<<>>) = 0
      OBVIOUS
    <3> QED
      BY <1>1, <1>6, <3>1
  <2> QED
    BY <1>2, <2>1, ListsAll
<1>17. l \in Seq(Nat)
  <2>1. l \in Seq(Wanted(words, q)) /\ Wanted(words, q) \subseteq Nat
    BY <1>9, WordsAre DEF l, Lists, Wanted, IsFullTrie
  <2> QED
    BY <2>1, SeqMonotonic
<1>18. r \in Stones(words) /\ <<mark>> # <<>>
  <2>1. <<mark>> \in Seq(MarkSet(words)) /\ <<mark>> # <<>>
    BY <1>13
  <2> QED
    BY <1>12, <1>17, <2>1 DEF Stones
<1> QED
  BY <1>2, <1>9, <1>12, <1>15, <1>16, <1>18 DEF Stone, r, l, C

-----------------------------------------------------------------------------
(* The mile stones of a search, one id after another.                         *)

\* The first k ids, and the nodes that a walk of k steps went on from.
Prefix(q, k) == [i \in 1..k |-> q[i]]
Passed(words, q, k) ==
  {p \in NodesOf(words) : Len(p) < k /\ \A i \in 1..Len(p) : InRange(p[i], q[i])}
HasRoom(words, q) ==
  /\ Len(q) < MaxStones /\ Cardinality({p \in NodesOf(words) : Beginning(q, p)}) <= MaxMarks
  /\ \A k \in 1..Len(q) : Cardinality(Wanted(words, Prefix(q, k))) <= MaxLpi

LEMMA PrefixAt ==
  ASSUME NEW q \in Seq(Ids), NEW k \in 1..Len(q)
  PROVE  /\ Prefix(q, k) \in Seq(Ids) /\ Len(Prefix(q, k)) = k /\ Len(Prefix(q, k)) > 0
         /\ \A i \in 1..k : Prefix(q, k)[i] = q[i]
<1> DEFINE p == Prefix(q, k)
<1>1. Len(q) \in Nat /\ \A i \in 1..Len(q) : q[i] \in Ids
  BY LenProperties
<1>2. p = [i \in 1..k |-> q[i]] /\ \A i \in 1..k : i \in 1..Len(q)
  BY <1>1 DEF Prefix
<1> HIDE DEF p
<1>3. p \in [1..k -> Ids] /\ k \in Nat /\ k > 0
  BY <1>1, <1>2
<1>4. p \in Seq(Ids)
  BY <1>3, IsASeq
<1> QED
  BY <1>2, <1>3, <1>4, LenProperties DEF p

LEMMA WantedAt ==
  ASSUME NEW words, NEW d, NEW S, IsFullTrie(d, words, S), NEW q \in Seq(Ids), NEW k \in 1..Len(q)
  PROVE  /\ Wanted(words, Prefix(q, k)) = WordsAt(words, EndNodes(words, Prefix(q, k)))
         /\ k > 1 => EndNodes(words, Prefix(q, k)) = Level(words, q, k)
         /\ k = 1 => Prefix(q, k) = <<q[1]>>
<1> DEFINE p == Prefix(q, k)
<1>1. p \in Seq(Ids) /\ Len(p) = k /\ Len(p) > 0 /\ \A i \in 1..k : p[i] = q[i]
  BY PrefixAt
<1> HIDE DEF p
<1>2. Wanted(words, p) = WordsAt(words, EndNodes(words, p))
  BY <1>1, WantedIs
<1>3. ASSUME k > 1 PROVE EndNodes(words, p) = Level(words, q, k)
  <2>1. ~Alone(p)
    BY <1>1, <1>3 DEF Alone
  <2>2. Level(words, p, k) = Level(words, q, k)
    BY <1>1 DEF Level
  <2> QED
    BY <1>1, <2>1, <2>2 DEF EndNodes
<1>4. k = 1 => Prefix(q, k) = <<q[1]>>
  BY DEF Prefix
<1> QED
  BY <1>2, <1>3, <1>4 DEF p

LEMMA PassedIs ==
  ASSUME NEW words, NEW S, IsWords(words, S), <<>> \in NodesOf(words), NEW q \in Seq(Ids), NEW k \in Nat
  PROVE  /\ Passed(words, q, 1) = {<<>>}
         /\ IsFiniteSet(Passed(words, q, k)) /\ Cardinality(Passed(words, q, k)) \in Nat
         /\ Cardinality(Level(words, q, k)) \in Nat
         /\ Cardinality(Passed(words, q, k + 1)) = Cardinality(Passed(words, q, k)) + Cardinality(Level(words, q, k))
         /\ k <= Len(q) /\ HasRoom(words, q) => Cardinality(Passed(words, q, k)) <= MaxMarks
<1> DEFINE A == Passed(words, q, k)
           B == Level(words, q, k)
           N == NodesOf(words)
<1>1. IsFiniteSet(N) /\ N \subseteq Seq(FullIds) /\ Len(q) \in Nat
  BY NodesAre, LenProperties
<1>2. \A p \in N : Len(p) \in Nat /\ (Len(p) = 0 => p = <<>>)
  <2>1. \A p \in N : p \in Seq(FullIds)
    BY <1>1
  <2> QED
    BY <2>1, EmptySeq
<1>3. Passed(words, q, 1) = {<<>>}
  <2>1. ASSUME NEW p \in Passed(words, q, 1) PROVE p = <<>>
    <3>1. p \in N /\ Len(p) < 1
      BY <2>1 DEF Passed
    <3> QED
      BY <1>2, <3>1
  <2>2. <<>> \in Passed(words, q, 1)
    <3>1. Len(<<>>) = 0 /\ 1..0 = {} /\ 0 < 1
      OBVIOUS
    <3> QED
      BY <3>1 DEF Passed
  <2> QED
    BY <2>1, <2>2
<1>4. IsFiniteSet(A) /\ IsFiniteSet(B)
  <2>1. A \subseteq N /\ B \subseteq N
    BY DEF Passed, Level
  <2> HIDE DEF A, B, N
  <2> QED
    BY <1>1, <2>1, FS_Subset
<1>5. Passed(words, q, k + 1) = A \cup B
  <2>1. ASSUME NEW p \in N PROVE Len(p) < k + 1 <=> Len(p) < k \/ Len(p) = k
    <3> DEFINE n == Len(p)
    <3>1. n \in Nat
      BY <1>2
    <3> HIDE DEF n
    <3> QED
      BY <3>1 DEF n
  <2>2. ASSUME NEW p \in N PROVE p \in Passed(words, q, k + 1) <=> p \in A \/ p \in B
    BY <2>1, <2>2 DEF Passed, Level
  <2>3. Passed(words, q, k + 1) \subseteq N /\ A \subseteq N /\ B \subseteq N
    BY DEF Passed, Level
  <2> HIDE DEF A, B, N
  <2> QED
    BY <2>2, <2>3
<1>6. A \cap B = {}
  <2>1. ASSUME NEW p \in A, p \in B PROVE FALSE
    BY <2>1 DEF Passed, Level
  <2> QED
    BY <2>1
<1>7. ASSUME k <= Len(q), HasRoom(words, q) PROVE Cardinality(A) <= MaxMarks
  <2> DEFINE R == {p \in N : Beginning(q, p)}
  <2>1. ASSUME NEW p \in A PROVE p \in R
    <3> DEFINE n == Len(p)
    <3>1. p \in N /\ n < k /\ \A i \in 1..n : InRange(p[i], q[i])
      BY <2>1 DEF Passed
    <3>2. n \in Nat /\ n < Len(q)
      BY <1>1, <1>2, <1>7, <3>1
    <3>3. Len(SubSeq(q, 1, n)) = n /\ \A i \in 1..n : SubSeq(q, 1, n)[i] = q[i]
      <4> HIDE DEF n
      <4> QED
        BY <1>1, <3>2, SubSeqProperties
    <3>4. Beginning(q, p)
      BY <3>1, <3>2, <3>3 DEF Beginning, Matching
    <3> QED
      BY <3>1, <3>4
  <2>2. IsFiniteSet(R)
    <3>1. R \subseteq N
      OBVIOUS
    <3> HIDE DEF R, N
    <3> QED
      BY <1>1, <3>1, FS_Subset
  <2> HIDE DEF A
  <2>3. A \subseteq R
    BY <2>1
  <2>4. Cardinality(R) <= MaxMarks
    BY <1>7 DEF HasRoom
  <2> HIDE DEF R
  <2>5. Cardinality(A) <= Cardinality(R) /\ Cardinality(R) \in Nat /\ Cardinality(A) \in Nat /\ MaxMarks \in Nat
    BY <1>4, <2>2, <2>3, FS_Subset, FS_CardinalityType, DictAssumption
  <2> QED
    BY <2>4, <2>5
<1> HIDE DEF A, B
<1>8. Cardinality(A \cup B) = Cardinality(A) + Cardinality(B) /\ Cardinality(A) \in Nat /\ Cardinality(B) \in Nat
  <2>1. Cardinality(A \cup B) = Cardinality(A) + Cardinality(B) - Cardinality(A \cap B)
    BY <1>4, FS_Union
  <2>2. Cardinality(A \cap B) = 0 /\ Cardinality(A) \in Nat /\ Cardinality(B) \in Nat
    BY <1>4, <1>6, FS_EmptySet, FS_CardinalityType
  <2> QED
    BY <2>1, <2>2
<1> QED
  BY <1>3, <1>4, <1>5, <1>7, <1>8 DEF A, B

\* The mile stone after k ids.
StoneAt(d, words, q, k, m) ==
  IF k = 0 THEN m = Root
  ELSE Stone(d, words, m, Level(words, q, k), WordsAt(words, EndNodes(words, Prefix(q, k))),
             Cardinality(Passed(words, q, k)), k + 1)

LEMMA StoneNext ==
  ASSUME NEW words, NEW d, NEW S, IsFullTrie(d, words, S), NEW q \in Seq(Ids), HasRoom(words, q),
         NEW k \in 1..Len(q), NEW m, StoneAt(d, words, q, k - 1, m)
  PROVE  StoneAt(d, words, q, k, ExtendStone(d, m, q[k]))
<1> DEFINE id == q[k]
           L == Level(words, q, k)
           E == EndNodes(words, Prefix(q, k))
           W == WordsAt(words, E)
<1>1. id \in Ids /\ k \in Nat /\ k > 0 /\ k <= Len(q) /\ Len(q) \in Nat
  <2>1. Len(q) \in Nat /\ \A i \in 1..Len(q) : q[i] \in Ids
    BY LenProperties
  <2> QED
    BY <2>1
<1>2. Cardinality(W) <= MaxLpi /\ Len(q) < MaxStones /\ MaxStones \in Nat
  BY WantedAt, DictAssumption DEF HasRoom
<1>3. CASE k = 1
  <2>1. m = Root /\ Root.depth = 0
    BY <1>3 DEF StoneAt, Root
  <2>2. ExtendStone(d, m, id) = Extend0(d, Root, id)
    BY <2>1 DEF ExtendStone
  <2>3. L = Children(words, <<>>, id)
    BY <1>3, LevelOne DEF IsFullTrie
  <2>4. Wanted(words, <<id>>) = W
    BY <1>3, WantedAt
  <2>5. Passed(words, q, 1) = {<<>>} /\ Cardinality(Passed(words, q, 1)) <= MaxMarks
    <3>1. 1 \in Nat /\ 1 <= Len(q)
      BY <1>1, <1>3
    <3> QED
      BY <3>1, PassedIs DEF IsFullTrie
  <2>6. Cardinality(Passed(words, q, 1)) = 1
    BY <2>5, FS_Singleton
  <2>7. 1 < MaxStones /\ 0 < MaxMarks /\ Cardinality(Wanted(words, <<id>>)) <= MaxLpi
    BY <1>1, <1>2, <1>3, <2>4, <2>5, <2>6, DictAssumption
  <2>8. Stone(d, words, Extend0(d, Root, id), Children(words, <<>>, id), Wanted(words, <<id>>), 1, 2)
    BY <1>1, <2>7, ExtendFirst
  <2>9. Cardinality(Passed(words, q, k)) = 1 /\ k + 1 = 2 /\ k # 0
    BY <1>3, <2>6
  <2> HIDE DEF id, L, W
  <2>10. Stone(d, words, ExtendStone(d, m, id), L, W, Cardinality(Passed(words, q, k)), k + 1)
    BY <2>2, <2>3, <2>4, <2>8, <2>9
  <2> QED
    BY <2>9, <2>10 DEF StoneAt, L, W, id
<1>4. CASE k # 1
  <2> DEFINE j == k - 1
             P == Level(words, q, j)
             V == WordsAt(words, EndNodes(words, Prefix(q, j)))
             c == Cardinality(Passed(words, q, j))
  <2>1. j \in Nat /\ j # 0 /\ j + 1 = k /\ j <= Len(q)
    BY <1>1, <1>4
  <2>2. E = L
    BY <1>1, <1>4, WantedAt
  <2>3. L = Below(words, P, id)
    <3>1. Level(words, q, j + 1) = Below(words, Level(words, q, j), q[j + 1])
      BY <2>1, LevelNext DEF IsFullTrie
    <3> QED
      BY <2>1, <3>1
  <2>4. P \in SUBSET NodesOf(words)
    BY DEF Level
  <2>5. /\ c \in Nat /\ Cardinality(P) \in Nat /\ Cardinality(Passed(words, q, k)) = c + Cardinality(P)
        /\ c + Cardinality(P) <= MaxMarks /\ MaxMarks \in Nat
    <3>1. c \in Nat /\ Cardinality(P) \in Nat /\ Cardinality(Passed(words, q, j + 1)) = c + Cardinality(P)
      BY <2>1, PassedIs DEF IsFullTrie
    <3>2. Cardinality(Passed(words, q, k)) <= MaxMarks
      BY <1>1, PassedIs DEF IsFullTrie
    <3> QED
      BY <2>1, <3>1, <3>2, DictAssumption
  <2>6. Stone(d, words, m, P, V, c, j + 1)
    BY <2>1 DEF StoneAt
  <2> DEFINE r == ExtendStone(d, m, id)
             cc == c + Cardinality(P)
  <2> HIDE DEF id, L, P, V, c, j
  <2>7. /\ m \in Stones(words) /\ m.depth # 0 /\ m.markPos <= c /\ m.stonePos <= j + 1
        /\ Lists(MarkedNodes(d, m.marks), P) /\ (m.marks = <<>> <=> P = {}) /\ GoodMarks(d, words, m.marks)
    BY <2>6 DEF Stone
  <2>8. /\ m.depth \in Nat /\ m.markPos \in Nat /\ m.stonePos \in Nat /\ m.marks \in Seq(MarkSet(words))
        /\ m = [depth |-> m.depth, marks |-> m.marks, lpis |-> m.lpis, markPos |-> m.markPos, stonePos |-> m.stonePos]
    BY <2>7 DEF Stones
  <2>9. Stone(d, words, r, L, WordsAt(words, L), cc, k + 1)
    <3>1. CASE m.marks = <<>>
      <4>1. r = [m EXCEPT !.lpis = <<>>]
        BY <2>7, <3>1 DEF ExtendStone
      <4>2. r = [depth |-> m.depth, marks |-> <<>>, lpis |-> <<>>, markPos |-> m.markPos, stonePos |-> m.stonePos]
        BY <2>8, <3>1, <4>1
      <4> HIDE DEF r
      <4>3. L = {} /\ WordsAt(words, {}) = {}
        BY <2>3, <2>7, <3>1 DEF Below, WordsAt
      <4>4. <<>> \in Seq(Nat) /\ <<>> \in Seq(MarkSet(words))
        OBVIOUS
      <4>5. r \in Stones(words) /\ r.depth # 0 /\ r.marks = <<>> /\ r.lpis = <<>> /\ r.markPos = m.markPos /\ r.stonePos = m.stonePos
        BY <2>7, <2>8, <4>2, <4>4 DEF Stones
      <4>6. r.markPos <= cc /\ r.stonePos <= k + 1
        BY <1>1, <2>1, <2>5, <2>7, <2>8, <4>5
      <4> HIDE DEF cc
      <4> QED
        BY <4>3, <4>5, <4>6, NoMarks DEF Stone
    <3>2. CASE m.marks # <<>>
      <4>1. r = Extend1(d, m, id)
        BY <2>7, <3>2 DEF ExtendStone
      <4>2. m.stonePos < MaxStones /\ m.markPos + Cardinality(P) <= MaxMarks
        BY <1>1, <1>2, <2>1, <2>5, <2>7, <2>8
      <4>3. Cardinality(WordsAt(words, Below(words, P, id))) <= MaxLpi
        BY <1>2, <2>2, <2>3
      <4>4. Stone(d, words, Extend1(d, m, id), Below(words, P, id), WordsAt(words, Below(words, P, id)),
                  m.markPos + Cardinality(P), m.stonePos + 1)
        BY <1>1, <2>4, <2>7, <2>8, <4>2, <4>3, ExtendBehind DEF id
      <4> DEFINE mc == m.markPos + Cardinality(P)
                 sc == m.stonePos + 1
      <4>5. mc <= cc /\ sc <= k + 1 /\ mc \in Nat /\ cc \in Nat /\ sc \in Nat
        BY <1>1, <2>1, <2>5, <2>7, <2>8
      <4> HIDE DEF r, mc, sc, cc
      <4>6. Stone(d, words, r, L, WordsAt(words, L), mc, sc)
        BY <2>3, <4>1, <4>4 DEF mc, sc
      <4>7. r.markPos <= cc /\ r.stonePos <= k + 1
        <5>1. r.markPos \in Nat /\ r.stonePos \in Nat /\ r.markPos <= mc /\ r.stonePos <= sc
          BY <4>6 DEF Stone, Stones
        <5> QED
          BY <1>1, <4>5, <5>1
      <4> QED
        BY <4>6, <4>7 DEF Stone
    <3> QED
      BY <3>1, <3>2
  <2>10. k # 0 /\ W = WordsAt(words, L) /\ Cardinality(Passed(words, q, k)) = cc
    BY <1>4, <1>1, <2>2, <2>5
  <2> HIDE DEF r, W, cc
  <2>11. Stone(d, words, r, L, W, Cardinality(Passed(words, q, k)), k + 1)
    BY <2>9, <2>10
  <2> QED
    BY <2>10, <2>11 DEF StoneAt, L, W, r, id
<1> QED
  BY <1>3, <1>4

LEMMA ExtendIs ==
  ASSUME NEW words, NEW d, NEW S, IsFullTrie(d, words, S), NEW q \in Seq(Ids), HasRoom(words, q)
  PROVE  StoneAt(d, words, q, Len(q), Extend(d, q))
<1> DEFINE n == Len(q)
           T == Stones(words)
           Op(m, id) == ExtendStone(d, m, id)
           At(k, m) == StoneAt(d, words, q, k, m)
           I == [k \in 0..n |-> {m \in T : At(k, m)}]
           G == [p \in T \X (1..n) |-> Op(p[1], q[p[2]])]
           Is(f) == f = [k \in 0..n |-> IF k = 0 THEN Root ELSE Op(f[k - 1], q[k])]
<1>1. n \in Nat /\ \A k \in 1..n : k \in 0..n /\ k # 0 /\ k - 1 \in 0..n
  BY LenProperties
<1>2. \A k \in 0..n : \A m : m \in I[k] <=> m \in T /\ At(k, m)
  OBVIOUS
<1>3. Root \in I[0]
  <2>1. <<>> \in Seq(MarkSet(words)) /\ <<>> \in Seq(Nat)
    OBVIOUS
  <2>2. Root \in T
    BY <2>1 DEF Root, Stones
  <2>3. At(0, Root) /\ 0 \in 0..n
    BY <1>1 DEF StoneAt
  <2> HIDE DEF At, I, T
  <2> QED
    BY <1>2, <2>2, <2>3
<1>4. ASSUME NEW k \in 1..n, NEW m \in I[k - 1] PROVE Op(m, q[k]) \in I[k] /\ m \in T
  <2>1. m \in T /\ At(k - 1, m)
    <3> HIDE DEF I, At, T
    <3> QED
      BY <1>1, <1>2
  <2>2. At(k, Op(m, q[k]))
    BY <2>1, StoneNext
  <2>3. Op(m, q[k]) \in T
    BY <1>1, <2>2 DEF StoneAt, Stone
  <2> HIDE DEF I, At, T, Op
  <2> QED
    BY <1>1, <1>2, <2>1, <2>2, <2>3
<1>5. \A m \in T : \A k \in 1..n : G[<<m, k>>] = Op(m, q[k])
  <2> HIDE DEF Op, T, n
  <2> QED
    OBVIOUS
<1> HIDE DEF Op, I, G, T, n, At
<1>6. \E f : Is(f)
  <2>1. \A k \in 1..n : \A x \in I[k - 1] : G[<<x, k>>] \in I[k]
    BY <1>4, <1>5
  <2>2. PICK f : IsRunIn(f, I, n, Root, G)
    BY <1>1, <1>3, <2>1, RunExists
  <2>3. ASSUME NEW k \in 0..n PROVE f[k] = IF k = 0 THEN Root ELSE Op(f[k - 1], q[k])
    <3>1. CASE k = 0
      BY <2>2, <3>1 DEF IsRunIn
    <3>2. CASE k # 0
      <4>1. k \in 1..n /\ k - 1 \in 0..n
        BY <1>1, <3>2
      <4>2. f[k - 1] \in I[k - 1] /\ f[k] = G[<<f[k - 1], k>>]
        BY <2>2, <4>1 DEF IsRunIn
      <4>3. f[k - 1] \in T
        BY <1>4, <4>1, <4>2
      <4> QED
        BY <1>5, <3>2, <4>1, <4>2, <4>3
    <3> QED
      BY <3>1, <3>2
  <2>4. f = [k \in 0..n |-> f[k]]
    BY <2>2 DEF IsRunIn
  <2>5. [k \in 0..n |-> f[k]] = [k \in 0..n |-> IF k = 0 THEN Root ELSE Op(f[k - 1], q[k])]
    BY <2>3
  <2>6. Is(f)
    BY <2>4, <2>5
  <2> HIDE DEF Is
  <2> QED
    BY <2>6
<1> DEFINE g == CHOOSE f : Is(f)
<1>7. Is(g)
  <2> HIDE DEF Is
  <2> QED
    BY <1>6
<1>8. Extend(d, q) = g[n]
  BY Zenon DEF Extend, Step, n, Op
<1> HIDE DEF g
<1>9. g[0] = Root /\ \A k \in 1..n : g[k] = Op(g[k - 1], q[k])
  <2>1. 0 \in 0..n
    BY <1>1
  <2> QED
    BY <1>1, <1>7, <2>1
<1>10. \A k \in 0..n : g[k] \in I[k]
  <2>1. \A k \in 1..n : g[k - 1] \in I[k - 1] => g[k] \in I[k]
    BY <1>4, <1>9
  <2>2. g[0] \in I[0]
    BY <1>3, <1>9
  <2> QED
    BY <1>1, <2>1, <2>2, StaysIn
<1>11. At(n, g[n])
  <2>1. n \in 0..n
    BY <1>1
  <2> QED
    BY <1>2, <1>10, <2>1
<1> QED
  BY <1>8, <1>11 DEF At, n

LEMMA LevelHasWord ==
  ASSUME NEW words, NEW S, IsWords(words, S), NEW q \in Seq(Ids)
  PROVE  Level(words, q, Len(q)) # {} <=>
           \E w \in ToSet(words) : Len(w.spl) >= Len(q) /\ Matching(q, SubSeq(w.spl, 1, Len(q)))
<1> DEFINE n == Len(q)
           L == Level(words, q, n)
<1>1. n \in Nat /\ Len(words) \in Nat /\ DOMAIN words = 1..Len(words)
  BY WordsAre, LenProperties
<1>2. \A k \in 1..Len(words) : words[k].spl \in Seq(FullIds) /\ Len(words[k].spl) \in Nat
  <2>1. ASSUME NEW k \in 1..Len(words) PROVE words[k].spl \in Seq(FullIds)
    BY WordsAre DEF RawLine, FullIds
  <2> QED
    BY <2>1, LenProperties
<1>3. \A w : w \in ToSet(words) <=> \E k \in 1..Len(words) : words[k] = w
  BY <1>1 DEF ToSet
<1>4. ASSUME NEW k \in 1..Len(words), NEW j \in 0..Len(words[k].spl)
      PROVE  /\ Len(SubSeq(words[k].spl, 1, j)) = j
             /\ SubSeq(words[k].spl, 1, j) \in NodesOf(words)
  <2> DEFINE s == words[k].spl
  <2>1. s \in Seq(FullIds) /\ Len(s) \in Nat
    BY <1>2
  <2>2. SubSeq(s, 1, j) \in NodesOf(words)
    BY DEF NodesOf
  <2> HIDE DEF s
  <2>3. j \in Nat /\ 1 \in 1..Len(s) + 1 /\ 0 <= j /\ j <= Len(s)
    BY <2>1 DEF s
  <2>4. Len(SubSeq(s, 1, j)) = j
    BY <2>1, <2>3, SubSeqProperties
  <2> QED
    BY <2>2, <2>4 DEF s
<1>5. ASSUME NEW p \in L PROVE \E w \in ToSet(words) : Len(w.spl) >= n /\ Matching(q, SubSeq(w.spl, 1, n))
  <2>1. p \in NodesOf(words) /\ Len(p) = n /\ \A i \in 1..n : InRange(p[i], q[i])
    BY DEF Level
  <2>2. PICK k \in 1..Len(words) : \E j \in 0..Len(words[k].spl) : p = SubSeq(words[k].spl, 1, j)
    BY <2>1 DEF NodesOf
  <2>3. PICK j \in 0..Len(words[k].spl) : p = SubSeq(words[k].spl, 1, j)
    BY <2>2
  <2>4. j = n
    BY <1>4, <2>1, <2>3
  <2>5. Len(words[k].spl) >= n
    BY <1>1, <1>2, <2>4
  <2>6. Matching(q, p)
    BY <2>1 DEF Matching
  <2>7. words[k] \in ToSet(words) /\ Matching(q, SubSeq(words[k].spl, 1, n))
    BY <1>3, <2>3, <2>4, <2>6
  <2> QED
    BY <2>5, <2>7
<1>6. ASSUME NEW w \in ToSet(words), Len(w.spl) >= n, Matching(q, SubSeq(w.spl, 1, n)) PROVE L # {}
  <2>1. PICK k \in 1..Len(words) : words[k] = w
    BY <1>3
  <2>2. n \in 0..Len(words[k].spl)
    BY <1>1, <1>2, <1>6, <2>1
  <2> DEFINE p == SubSeq(w.spl, 1, n)
  <2>3. p \in NodesOf(words) /\ Len(p) = n
    BY <1>4, <2>1, <2>2
  <2>4. \A i \in 1..n : InRange(p[i], q[i])
    BY <1>6 DEF Matching
  <2>5. p \in L
    BY <2>3, <2>4 DEF Level
  <2> QED
    BY <2>5
<1> HIDE DEF L
<1>7. L # {} <=> \E p : p \in L
  OBVIOUS
<1> QED
  BY <1>5, <1>6, <1>7 DEF L

LEMMA StepsFind ==
  ASSUME NEW words, NEW d, NEW S, IsFullTrie(d, words, S), NEW q \in Seq(Ids), Len(q) > 0, HasRoom(words, q)
  PROVE  /\ Lists(Extend(d, q).lpis, Wanted(words, q))
         /\ Extend(d, q).marks # <<>> <=>
              \E w \in ToSet(words) : Len(w.spl) >= Len(q) /\ Matching(q, SubSeq(w.spl, 1, Len(q)))
<1> DEFINE n == Len(q)
           m == Extend(d, q)
<1>1. n \in Nat /\ n \in 1..n /\ n # 0
  <2>1. n \in Nat
    BY LenProperties
  <2> HIDE DEF n
  <2> QED
    BY <2>1 DEF n
<1>2. Prefix(q, n) = q
  <2>1. q = [i \in 1..n |-> q[i]]
    BY LenProperties
  <2> QED
    BY <2>1 DEF Prefix
<1>3. Stone(d, words, m, Level(words, q, n), WordsAt(words, EndNodes(words, Prefix(q, n))), Cardinality(Passed(words, q, n)), n + 1)
  <2>1. StoneAt(d, words, q, n, m)
    BY ExtendIs
  <2> QED
    BY <1>1, <2>1 DEF StoneAt
<1>4. Wanted(words, q) = WordsAt(words, EndNodes(words, Prefix(q, n)))
  BY <1>1, <1>2, WantedAt
<1>5. Lists(m.lpis, Wanted(words, q)) /\ (m.marks = <<>> <=> Level(words, q, n) = {})
  BY <1>3, <1>4 DEF Stone
<1>6. Level(words, q, n) # {} <=> \E w \in ToSet(words) : Len(w.spl) >= n /\ Matching(q, SubSeq(w.spl, 1, n))
  BY LevelHasWord DEF IsFullTrie
<1> QED
  BY <1>5, <1>6

LEMMA QueriesAre ==
  ASSUME NEW q \in IdQueries
  PROVE  /\ q \in Seq(Ids) /\ Len(q) \in 1..3
         /\ \A k \in 1..Len(q) : Prefix(q, k) \in IdQueries
<1>1. PICK n \in 1..3 : q \in [1..n -> Ids]
  <2>1. CASE q \in UNION {[1..n -> Ids] : n \in 1..2}
    <3>1. PICK n \in 1..2 : q \in [1..n -> Ids]
      BY <2>1
    <3>2. n \in 1..3
      OBVIOUS
    <3> QED
      BY <3>1, <3>2
  <2>2. CASE q \in {p \in [1..3 -> Ids] : p[3] \in FullIds}
    <3>1. q \in [1..3 -> Ids] /\ 3 \in 1..3
      BY <2>2
    <3> QED
      BY <3>1
  <2> DEFINE A == UNION {[1..n -> Ids] : n \in 1..2}
             B == {p \in [1..3 -> Ids] : p[3] \in FullIds}
  <2>3. IdQueries = A \cup B
    BY Zenon DEF IdQueries
  <2>4. q \in A \/ q \in B
    <3> HIDE DEF A, B
    <3> QED
      BY <2>3
  <2> QED
    BY <2>1, <2>2, <2>4
<1>2. q \in Seq(Ids) /\ Len(q) = n
  <2>1. n \in Nat
    OBVIOUS
  <2>2. q \in Seq(Ids)
    BY <1>1, <2>1, IsASeq
  <2> QED
    BY <1>1, <2>1, <2>2, LenProperties
<1>3. ASSUME NEW k \in 1..n PROVE Prefix(q, k) \in IdQueries
  <2>1. CASE k = n
    <3>1. Prefix(q, k) = q
      BY <1>1, <2>1 DEF Prefix
    <3> QED
      BY <3>1
  <2>2. CASE k # n
    <3>1. k \in 1..2
      BY <2>2
    <3>2. \A i \in 1..k : q[i] \in Ids
      BY <1>1
    <3>3. Prefix(q, k) \in [1..k -> Ids]
      BY <3>2 DEF Prefix
    <3> QED
      BY <3>1, <3>3 DEF IdQueries
  <2> QED
    BY <2>1, <2>2
<1> QED
  BY <1>2, <1>3

LEMMA QueriesHaveBuffer ==
  ASSUME RoomToWalk, NEW S \in WordLists, NEW q \in IdQueries
  PROVE  HasBuffer(InOrder(S, ByHanzi), q)
<1> DEFINE words == InOrder(S, ByHanzi)
<1>1. q \in Seq(Ids) /\ \A k \in 1..Len(q) : Prefix(q, k) \in IdQueries
  BY QueriesAre
<1>2. \A p \in IdQueries : Cardinality({r \in NodesOf(words) : Matching(p, r)}) <= MaxExtendBuf
  BY DEF RoomToWalk
<1> HIDE DEF words
<1>3. ASSUME NEW k \in 1..Len(q) PROVE Cardinality(Level(words, q, k)) <= MaxExtendBuf
  <2> DEFINE p == Prefix(q, k)
  <2>1. Len(p) = k /\ (\A i \in 1..k : p[i] = q[i]) /\ p \in IdQueries
    BY <1>1, PrefixAt
  <2> HIDE DEF p
  <2>2. Level(words, q, k) = {r \in NodesOf(words) : Matching(p, r)}
    BY <2>1 DEF Level, Matching
  <2> QED
    BY <1>2, <2>1, <2>2
<1> QED
  BY <1>3 DEF HasBuffer, words

LEMMA QueriesHaveRoom ==
  ASSUME RoomToWalk, NEW S \in WordLists, NEW q \in IdQueries
  PROVE  HasRoom(InOrder(S, ByHanzi), q)
<1> DEFINE words == InOrder(S, ByHanzi)
<1>1. q \in Seq(Ids) /\ Len(q) \in 1..3 /\ \A k \in 1..Len(q) : Prefix(q, k) \in IdQueries
  BY QueriesAre
<1>2. MaxStones > 3 /\ MaxStones \in Nat
  BY DictAssumption DEF RoomToWalk
<1>3. /\ \A k \in IdQueries : Cardinality(Wanted(words, k)) <= MaxLpi
      /\ Cardinality({p \in NodesOf(words) : Beginning(q, p)}) <= MaxMarks
  BY DEF RoomToWalk
<1> HIDE DEF words
<1>4. Len(q) < MaxStones
  <2> DEFINE n == Len(q)
  <2>1. n \in 1..3
    BY <1>1
  <2> HIDE DEF n
  <2>2. n < MaxStones
    BY <1>2, <2>1
  <2> QED
    BY <2>2 DEF n
<1> QED
  BY <1>1, <1>3, <1>4 DEF HasRoom, words

-----------------------------------------------------------------------------
(* The list: the words of each length, and where their characters are.        *)

LEMMA MinIsLeast ==
  ASSUME NEW S \in SUBSET Nat, S # {}
  PROVE  Min(S) \in S /\ \A y \in S : Min(S) <= y
  BY LeastExists DEF Min

LEMMA DivTimes ==
  ASSUME NEW c \in Nat, NEW n \in Nat, n > 0
  PROVE  (c * n) \div n = c
  OBVIOUS

\* A list without a gap: each length below the longest occurs.
LengthAt(words, k) == Len(words[k].text)
Longest(words) == LengthAt(words, Len(words))
OfLength(words, n) == {k \in 1..Len(words) : LengthAt(words, k) = n}
FirstOf(words, n) == Min(OfLength(words, n))
Complete(words) ==
  /\ words # <<>>
  /\ \A k \in 1..Len(words) : LengthAt(words, k) <= MaxChars /\ \A n \in 1..LengthAt(words, k) : OfLength(words, n) # {}

LEMMA LengthsAre ==
  ASSUME NEW words, NEW S, IsWords(words, S), Complete(words)
  PROVE  /\ Len(words) \in Nat /\ Len(words) \in 1..Len(words) /\ Longest(words) \in 1..MaxChars
         /\ \A k \in 1..Len(words) : LengthAt(words, k) \in 1..Longest(words)
         /\ \A i, j \in 1..Len(words) : i <= j => LengthAt(words, i) <= LengthAt(words, j)
         /\ \A n \in 1..Longest(words) : FirstOf(words, n) \in 1..Len(words) /\ LengthAt(words, FirstOf(words, n)) = n
                                         /\ \A k \in 1..Len(words) : LengthAt(words, k) >= n <=> FirstOf(words, n) <= k
<1> DEFINE N == Len(words)
           t(k) == LengthAt(words, k)
<1>1. N \in Nat /\ \A k \in 1..N : words[k] \in RawLine
  BY WordsAre
<1>2. N \in 1..N
  <2>1. N # 0
    <3>1. words \in Seq(RawLine) /\ words # <<>>
      BY WordsAre DEF Complete
    <3> QED
      BY <3>1, EmptySeq
  <2> HIDE DEF N
  <2> QED
    BY <1>1, <2>1
<1>3. \A k \in 1..N : t(k) \in Nat /\ t(k) > 0
  BY <1>1, LineIs DEF LengthAt
<1>4. ASSUME NEW i \in 1..N, NEW j \in 1..N, i <= j PROVE t(i) <= t(j)
  <2>1. CASE i = j
    BY <1>3, <2>1
  <2>2. CASE i # j
    <3>1. i < j
      BY <1>4, <2>2
    <3>2. ByHanzi(words[i], words[j])
      BY <3>1 DEF IsWords
    <3>3. t(i) < t(j) \/ t(i) = t(j)
      BY <3>2 DEF ByHanzi, LengthAt
    <3> QED
      BY <1>3, <3>3
  <2> QED
    BY <2>1, <2>2
<1>5. \A k \in 1..N : t(k) <= MaxChars /\ \A n \in 1..t(k) : OfLength(words, n) # {}
  BY DEF Complete
<1>6. \A n : OfLength(words, n) = {k \in 1..N : t(k) = n}
  BY DEF OfLength
<1>7. Longest(words) = t(N) /\ MaxChars \in Nat
  BY DictAssumption DEF Longest
<1> HIDE DEF N, t
<1>8. t(N) \in 1..MaxChars /\ \A k \in 1..N : t(k) \in 1..t(N)
  BY <1>2, <1>3, <1>4, <1>5, <1>7
<1>9. ASSUME NEW n \in 1..t(N)
      PROVE  FirstOf(words, n) \in 1..N /\ t(FirstOf(words, n)) = n
             /\ \A k \in 1..N : t(k) >= n <=> FirstOf(words, n) <= k
  <2> DEFINE S0 == OfLength(words, n)
             m == FirstOf(words, n)
  <2>1. S0 \in SUBSET Nat /\ S0 # {}
    BY <1>2, <1>5, <1>6
  <2>2. m \in S0 /\ \A y \in S0 : m <= y
    <3> HIDE DEF S0
    <3> QED
      BY <2>1, MinIsLeast DEF FirstOf, S0
  <2>3. m \in 1..N /\ t(m) = n
    BY <1>6, <2>2
  <2>4. \A y \in 1..N : t(y) = n => m <= y
    BY <1>6, <2>2
  <2> HIDE DEF m
  <2>5. ASSUME NEW k \in 1..N PROVE t(k) >= n <=> m <= k
    <3>1. m <= k => t(k) >= n
      BY <1>3, <1>4, <2>3
    <3>2. ~(m <= k) => t(k) <= n /\ t(k) # n
      BY <1>4, <2>3, <2>4
    <3> QED
      BY <1>3, <2>3, <3>1, <3>2
  <2> QED
    BY <2>3, <2>5 DEF m
<1> QED
  BY <1>1, <1>2, <1>4, <1>7, <1>8, <1>9 DEF N, t

Texts(words) == [k \in 1..Len(words) |-> words[k].text]

LEMMA TextsAre ==
  ASSUME NEW words, NEW S, IsWords(words, S)
  PROVE  /\ Texts(words) \in Seq(Seq(Int)) /\ Len(Texts(words)) = Len(words)
         /\ \A k \in 1..Len(words) : Texts(words)[k] = words[k].text /\ Texts(words)[k] \in Seq(Int)
                                     /\ Len(Texts(words)[k]) = LengthAt(words, k)
<1> DEFINE s == Texts(words)
           N == Len(words)
<1>1. N \in Nat /\ \A k \in 1..N : words[k].text \in Seq(Int)
  BY WordsAre, LineIs
<1>2. s = [k \in 1..N |-> words[k].text]
  BY DEF Texts
<1> HIDE DEF s, N
<1>3. s \in [1..N -> Seq(Int)]
  BY <1>1, <1>2
<1>4. s \in Seq(Seq(Int))
  BY <1>1, <1>3, IsASeq
<1>5. Len(s) = N
  BY <1>1, <1>3, <1>4, LenProperties
<1>6. \A k \in 1..N : s[k] = words[k].text
  BY <1>2
<1> QED
  BY <1>1, <1>4, <1>5, <1>6 DEF s, N, LengthAt

LEMMA ConcatEnds ==
  ASSUME NEW T, NEW s \in Seq(Seq(T)), NEW f, IsConcat(f, s, T), NEW i \in 1..Len(s)
  PROVE  Len(f[i]) = Len(f[i - 1]) + Len(s[i]) /\ Len(f[i]) \in Nat /\ Len(f[i - 1]) \in Nat
<1> DEFINE n == Len(s)
           u == Len(f[i])
           v == Len(f[i - 1])
<1>1. n \in Nat
  BY LenProperties
<1>2. i \in i..n
  <2> HIDE DEF n
  <2> QED
    BY <1>1 DEF n
<1>3. v \in Nat /\ u = v + Len(s[i])
  BY <1>2, ConcatHolds
<1>4. Len(s[i]) \in Nat
  BY ConcatStep
<1> HIDE DEF u, v
<1>5. u \in Nat
  BY <1>3, <1>4
<1> QED
  BY <1>3, <1>5 DEF u, v

LEMMA TextEnds ==
  ASSUME NEW words, NEW S, IsWords(words, S), NEW f, IsConcat(f, Texts(words), Int), NEW i \in 1..Len(words)
  PROVE  Len(f[i]) = Len(f[i - 1]) + LengthAt(words, i) /\ Len(f[i]) \in Nat /\ Len(f[i - 1]) \in Nat
<1> DEFINE s == Texts(words)
<1>1. s \in Seq(Seq(Int)) /\ Len(s) = Len(words) /\ Len(s[i]) = LengthAt(words, i)
  BY TextsAre
<1>2. IsConcat(f, s, Int)
  OBVIOUS
<1> HIDE DEF s
<1>3. i \in 1..Len(s)
  BY <1>1
<1> QED
  BY <1>1, <1>2, <1>3, ConcatEnds

LEMMA EndsAre ==
  ASSUME NEW words, NEW S, IsWords(words, S), Complete(words), NEW f, IsConcat(f, Texts(words), Int),
         NEW n \in 1..Longest(words), NEW k \in 1..Len(words), LengthAt(words, k) = n
  PROVE  LET a == FirstOf(words, n)
         IN  /\ Len(f[a - 1]) \in Nat /\ k - a \in Nat /\ n \in Nat
             /\ Len(f[k - 1]) = Len(f[a - 1]) + (k - a) * n
             /\ Len(f[k]) = Len(f[a - 1]) + ((k - a) + 1) * n
<1> DEFINE N == Len(words)
           a == FirstOf(words, n)
           t(i) == LengthAt(words, i)
           L(i) == Len(f[i])
           A == {j \in Nat : \A i \in 1..N : t(i) = n /\ i = a + j => L(i - 1) = L(a - 1) + j * n}
<1>1. /\ N \in Nat /\ a \in 1..N /\ t(a) = n /\ n \in Nat
      /\ \A i \in 1..N : t(i) >= n <=> a <= i
      /\ \A i, j \in 1..N : i <= j => t(i) <= t(j)
      /\ \A i \in 1..N : t(i) \in Nat
  BY LengthsAre
<1>2. \A i \in 1..N : L(i) = L(i - 1) + t(i) /\ L(i) \in Nat /\ L(i - 1) \in Nat
  BY TextEnds
<1> HIDE DEF N, a, t, L
<1>3. 0 \in A
  BY <1>1, <1>2
<1>4. ASSUME NEW j \in A PROVE j + 1 \in A
  <2> SUFFICES ASSUME NEW i \in 1..N, t(i) = n, i = a + (j + 1) PROVE L(i - 1) = L(a - 1) + (j + 1) * n
    OBVIOUS
  <2> DEFINE h == i - 1
             b == L(a - 1)
             p == j * n
  <2>1. h \in 1..N /\ h = a + j /\ a <= h /\ h <= i /\ j \in Nat
    BY <1>1
  <2>2. t(h) = n
    <3>1. t(h) >= n /\ t(h) <= n
      BY <1>1, <2>1
    <3> QED
      BY <1>1, <2>1, <3>1
  <2>3. L(h - 1) = b + p
    BY <2>1, <2>2
  <2>4. L(h) = L(h - 1) + n
    BY <1>2, <2>1, <2>2
  <2>5. b \in Nat /\ p \in Nat /\ (j + 1) * n = p + n
    BY <1>1, <1>2, <2>1
  <2> DEFINE c == (j + 1) * n
  <2> HIDE DEF p, b, c, h
  <2>6. L(h) = b + c
    <3> DEFINE u == L(h)
               v == L(h - 1)
    <3>1. u = v + n /\ v = b + p /\ c = p + n
      BY <2>3, <2>4, <2>5 DEF c
    <3> HIDE DEF u, v
    <3>2. u = b + c
      BY <1>1, <2>5, <3>1
    <3> QED
      BY <3>2 DEF u
  <2> QED
    BY <2>6 DEF b, c, h
<1>5. A = Nat
  <2> HIDE DEF A
  <2>1. A \in SUBSET Nat
    BY DEF A
  <2> QED
    BY <1>3, <1>4, <2>1, Induction
<1> DEFINE j == k - a
<1>6. j \in Nat /\ k = a + j /\ k \in 1..N /\ t(k) = n
  <2>1. k \in 1..N /\ t(k) = n
    BY DEF N, t
  <2>2. a <= k
    BY <1>1, <2>1
  <2> QED
    BY <1>1, <2>1, <2>2
<1> HIDE DEF j
<1>7. L(k - 1) = L(a - 1) + j * n
  <2>1. j \in A
    BY <1>5, <1>6
  <2> QED
    BY <1>6, <2>1
<1> HIDE DEF A
<1>8. L(k) = L(a - 1) + (j + 1) * n
  <2> DEFINE b == L(a - 1)
             p == j * n
             u == L(k - 1)
  <2>1. p \in Nat /\ b \in Nat /\ (j + 1) * n = p + n /\ L(k) = u + n /\ u = b + p
    BY <1>1, <1>2, <1>6, <1>7
  <2> HIDE DEF p, b, u
  <2>2. L(k) = b + (p + n)
    BY <1>1, <2>1
  <2> QED
    BY <2>1, <2>2 DEF b
<1>9. L(a - 1) \in Nat
  BY <1>1, <1>2
<1> QED
  BY <1>1, <1>6, <1>7, <1>8, <1>9 DEF L, a, j, N, t

LEMMA StartsAre ==
  ASSUME NEW words, NEW S, IsWords(words, S), Complete(words), NEW f, IsConcat(f, Texts(words), Int)
  PROVE  /\ \A n \in 1..Longest(words) :
              Starts(words)[n] = [pos |-> Len(f[FirstOf(words, n) - 1]), id |-> FirstOf(words, n)]
         /\ \A n \in Longest(words) + 1..MaxChars + 1 : Starts(words)[n] = [pos |-> Len(f[Len(words)]), id |-> Len(words)]
<1> DEFINE N == Len(words)
           D == 1..MaxChars + 1
           longest == Len(words[Len(words)].text)
           ofLen(n) == {k \in 1..Len(words) : Len(words[k].text) = n}
           chars(k) == Len(Concat([j \in 1..k - 1 |-> words[j].text]))
           end == [pos |-> chars(Len(words) + 1), id |-> Len(words)]
           first(n) == [pos |-> chars(Min(ofLen(n))), id |-> Min(ofLen(n))]
           Is(at) == at = [n \in D |-> IF n > longest THEN end
                                       ELSE IF ofLen(n) = {} THEN at[n - 1] ELSE first(n)]
           at == CHOOSE at : Is(at)
           h == [n \in D |-> IF n > longest THEN end ELSE first(n)]
<1>1. Starts(words) = at
  BY Zenon DEF Starts
<1>2. /\ N \in Nat /\ N \in 1..N /\ longest = Longest(words) /\ longest \in 1..MaxChars /\ MaxChars \in Nat
      /\ \A n \in 1..longest : FirstOf(words, n) \in 1..N
  BY LengthsAre, DictAssumption DEF Longest, LengthAt
<1>3. \A n : ofLen(n) = OfLength(words, n)
  BY DEF OfLength, LengthAt
<1>4. \A n \in 1..longest : ofLen(n) # {} /\ Min(ofLen(n)) = FirstOf(words, n)
  <2>1. ASSUME NEW n \in 1..longest PROVE ofLen(n) # {}
    <3>1. OfLength(words, n) # {}
      <4>1. N \in 1..N /\ n \in 1..LengthAt(words, N)
        BY <1>2 DEF Longest
      <4> QED
        BY <4>1 DEF Complete
    <3> QED
      BY <1>3, <3>1
  <2>2. ASSUME NEW n PROVE Min(ofLen(n)) = FirstOf(words, n)
    <3> HIDE DEF ofLen
    <3> QED
      BY <1>3 DEF FirstOf
  <2> QED
    BY <2>1, <2>2
<1>5. \A k \in 1..N + 1 : chars(k) = Len(f[k - 1])
  <2>1. ASSUME NEW k \in 1..N + 1 PROVE chars(k) = Len(f[k - 1])
    <3> DEFINE s == Texts(words)
               m == k - 1
    <3>1. s \in Seq(Seq(Int)) /\ Len(s) = N /\ \A j \in 1..N : s[j] = words[j].text
      BY TextsAre
    <3>2. IsConcat(f, s, Int)
      OBVIOUS
    <3>3. m \in 0..N /\ 1..m \subseteq 1..N
      BY <1>2
    <3> HIDE DEF s, m
    <3>4. Concat([j \in 1..m |-> s[j]]) = f[m]
      BY <3>1, <3>2, <3>3, ConcatBegins
    <3>5. [j \in 1..m |-> s[j]] = [j \in 1..m |-> words[j].text]
      BY <3>1, <3>3
    <3>6. Len(Concat([j \in 1..m |-> words[j].text])) = Len(f[m])
      BY <3>4, <3>5
    <3> QED
      BY <3>6 DEF m
  <2> QED
    BY <2>1
<1> HIDE DEF ofLen, chars, longest
<1>6. D \subseteq Nat /\ \A n \in D : ~(n > longest) => n \in 1..longest
  BY <1>2
<1>7. Is(h)
  <2>1. \A n \in D : (IF n > longest THEN end ELSE IF ofLen(n) = {} THEN h[n - 1] ELSE first(n))
                       = IF n > longest THEN end ELSE first(n)
    BY <1>4, <1>6
  <2> HIDE DEF D, end, first
  <2>2. h = [n \in D |-> IF n > longest THEN end ELSE IF ofLen(n) = {} THEN h[n - 1] ELSE first(n)]
    BY <2>1
  <2> QED
    BY <2>2
<1>8. Is(at)
  <2> HIDE DEF Is, h
  <2> QED
    BY <1>7
<1> HIDE DEF at
<1>9. \A n \in D : at[n] = IF n > longest THEN end ELSE first(n)
  <2> HIDE DEF D, end, first
  <2>1. \A n \in D : at[n] = IF n > longest THEN end ELSE IF ofLen(n) = {} THEN at[n - 1] ELSE first(n)
    BY <1>8, Zenon
  <2>2. \A n \in D : n > longest \/ ofLen(n) # {}
    BY <1>4, <1>6
  <2> QED
    BY <2>1, <2>2
<1>10. ASSUME NEW n \in 1..longest PROVE at[n] = [pos |-> Len(f[FirstOf(words, n) - 1]), id |-> FirstOf(words, n)]
  <2>1. n \in D /\ ~(n > longest)
    BY <1>2
  <2>2. at[n] = first(n)
    BY <1>9, <2>1
  <2>3. FirstOf(words, n) \in 1..N + 1
    BY <1>2
  <2>4. chars(FirstOf(words, n)) = Len(f[FirstOf(words, n) - 1])
    BY <1>5, <2>3
  <2> QED
    BY <1>4, <2>2, <2>4
<1>11. ASSUME NEW n \in longest + 1..MaxChars + 1 PROVE at[n] = [pos |-> Len(f[N]), id |-> N]
  <2>1. n \in D /\ n > longest
    BY <1>2
  <2>2. at[n] = end
    BY <1>9, <2>1
  <2> DEFINE m == N + 1
  <2>3. chars(m) = Len(f[m - 1]) /\ m - 1 = N
    BY <1>2, <1>5
  <2> HIDE DEF m
  <2>4. chars(m) = Len(f[N])
    BY <2>3
  <2> QED
    BY <2>2, <2>4 DEF m
<1> QED
  BY <1>1, <1>2, <1>10, <1>11

\* What the list and the sections beside it hold.
IsList(d, words) ==
  /\ d.chars = Concat(Texts(words)) /\ d.starts = Starts(words) /\ d.scis = Scis(words)
  /\ d.freq = [k \in 1..Len(words) |-> words[k].freq]

LEMMA ArrangedIsList == ASSUME NEW words, NEW nodes, NEW items PROVE IsList(Arrange(words, nodes, items), words)
  BY DEF Arrange, IsList, Texts

LEMMA ConcatPart ==
  ASSUME NEW T, NEW s \in Seq(Seq(T)), NEW f, IsConcat(f, s, T), NEW k \in 1..Len(s)
  PROVE  SubSeq(f[Len(s)], Len(f[k - 1]) + 1, Len(f[k])) = s[k]
<1> DEFINE m == Len(s)
<1>1. m \in Nat
  BY LenProperties
<1>2. m \in k..m
  <2> HIDE DEF m
  <2> QED
    BY <1>1 DEF m
<1>3. PICK i \in k..m : i = m
  BY <1>2
<1>4. /\ Len(f[k - 1]) \in Nat /\ Len(f[k]) = Len(f[k - 1]) + Len(s[k])
      /\ f[i] \in Seq(T) /\ Len(f[k]) <= Len(f[i])
      /\ HoldsAt(f, s, k, i)
  BY ConcatHolds
<1> QED
  BY <1>3, <1>4 DEF HoldsAt

LEMMA TextIs ==
  ASSUME NEW words, NEW S, IsWords(words, S), NEW f, IsConcat(f, Texts(words), Int), NEW k \in 1..Len(words)
  PROVE  SubSeq(f[Len(words)], Len(f[k - 1]) + 1, Len(f[k])) = words[k].text
<1> DEFINE s == Texts(words)
<1>1. s \in Seq(Seq(Int)) /\ Len(s) = Len(words) /\ s[k] = words[k].text
  BY TextsAre
<1>2. IsConcat(f, s, Int)
  OBVIOUS
<1> HIDE DEF s
<1>3. k \in 1..Len(s)
  BY <1>1
<1>4. SubSeq(f[Len(s)], Len(f[k - 1]) + 1, Len(f[k])) = s[k]
  BY <1>1, <1>2, <1>3, ConcatPart
<1> QED
  BY <1>1, <1>4

\* The words of one length: where they begin, and the last of them.
LEMMA LastIs ==
  ASSUME NEW words, NEW S, IsWords(words, S), Complete(words), NEW f, IsConcat(f, Texts(words), Int),
         NEW n \in 1..Longest(words)
  PROVE  LET a == FirstOf(words, n)
             b == IF n < Longest(words) THEN FirstOf(words, n + 1) - 1 ELSE Len(words)
         IN  /\ a \in 1..Len(words) /\ b \in a..Len(words) /\ b \in Nat /\ n \in Nat /\ n > 0 /\ n <= MaxChars
             /\ \A k \in 1..Len(words) : LengthAt(words, k) = n <=> a <= k /\ k <= b
             /\ Starts(words)[n] = [pos |-> Len(f[a - 1]), id |-> a]
             /\ Starts(words)[n + 1].pos = Len(f[b])
             /\ Starts(words)[n + 1].id = IF n < Longest(words) THEN b + 1 ELSE Len(words)
<1> DEFINE N == Len(words)
           z == Longest(words)
           t(k) == LengthAt(words, k)
           F(m) == FirstOf(words, m)
           a == F(n)
           c == F(n + 1)
           b == IF n < z THEN F(n + 1) - 1 ELSE N
           St == Starts(words)
<1>1. /\ N \in Nat /\ N \in 1..N /\ z \in 1..MaxChars /\ z = t(N)
      /\ \A k \in 1..N : t(k) \in 1..z
      /\ \A m \in 1..z : F(m) \in 1..N /\ t(F(m)) = m /\ \A k \in 1..N : t(k) >= m <=> F(m) <= k
  BY LengthsAre DEF Longest
<1>2. /\ \A m \in 1..z : St[m] = [pos |-> Len(f[F(m) - 1]), id |-> F(m)]
      /\ \A m \in z + 1..MaxChars + 1 : St[m] = [pos |-> Len(f[N]), id |-> N]
  BY StartsAre
<1>3. MaxChars \in Nat /\ n \in 1..z
  BY DictAssumption
<1> HIDE DEF N, z, t, F, St
<1>4. n \in Nat /\ n > 0 /\ n <= MaxChars /\ z \in Nat /\ a \in 1..N /\ t(a) = n /\ \A k \in 1..N : t(k) \in Nat /\ (t(k) >= n <=> a <= k)
  BY <1>1, <1>3
<1>5. CASE n < z
  <2>1. n + 1 \in 1..z
    BY <1>1, <1>3, <1>5
  <2>2. c \in 1..N /\ t(c) = n + 1 /\ \A k \in 1..N : t(k) >= n + 1 <=> c <= k
    BY <1>1, <2>1
  <2>3. b = c - 1
    BY <1>5
  <2> HIDE DEF a, b, c
  <2>4. a < c
    BY <1>4, <2>2
  <2>5. \A k \in 1..N : t(k) = n <=> a <= k /\ k <= b
    BY <1>4, <2>2, <2>3
  <2>6. b \in a..N /\ b \in Nat
    BY <1>1, <1>4, <2>2, <2>3, <2>4
  <2>7. St[n] = [pos |-> Len(f[a - 1]), id |-> a] /\ St[n + 1] = [pos |-> Len(f[c - 1]), id |-> c]
    BY <1>2, <1>3, <2>1 DEF a, c
  <2>8. St[n + 1].pos = Len(f[b]) /\ St[n + 1].id = b + 1
    BY <2>2, <2>3, <2>7
  <2> QED
    BY <1>4, <1>5, <2>5, <2>6, <2>7, <2>8 DEF a, b, c, N, z, t, F, St
<1>6. CASE ~(n < z)
  <2>1. n = z /\ n + 1 \in z + 1..MaxChars + 1
    BY <1>1, <1>3, <1>4, <1>6
  <2>2. b = N
    BY <1>6
  <2> HIDE DEF a, b, c
  <2>3. \A k \in 1..N : t(k) = n <=> a <= k /\ k <= b
    BY <1>1, <1>4, <2>1, <2>2
  <2>4. b \in a..N /\ b \in Nat
    BY <1>1, <1>4, <2>2
  <2>5. St[n] = [pos |-> Len(f[a - 1]), id |-> a] /\ St[n + 1] = [pos |-> Len(f[N]), id |-> N]
    BY <1>2, <1>3, <2>1 DEF a
  <2>6. St[n + 1].pos = Len(f[b]) /\ St[n + 1].id = N
    BY <2>2, <2>5
  <2> QED
    BY <1>4, <1>6, <2>3, <2>4, <2>5, <2>6 DEF a, b, c, N, z, t, F, St
<1> QED
  BY <1>5, <1>6

LEMMA StringIs ==
  ASSUME NEW words, NEW S, IsWords(words, S), Complete(words), NEW d, IsList(d, words),
         NEW k \in 1..Len(words), k < Len(words)
  PROVE  GetLemmaStr(d, k) = words[k].text
<1> DEFINE N == Len(words)
           n == LengthAt(words, k)
           z == Longest(words)
           s == Texts(words)
           St == Starts(words)
           fits == {m \in 1..MaxChars : d.starts[m].id <= k /\ d.starts[m + 1].id > k}
<1>1. PICK f : IsConcat(f, s, Int) /\ Concat(s) = f[Len(s)]
  <2>1. s \in Seq(Seq(Int))
    BY TextsAre
  <2> HIDE DEF s
  <2> QED
    BY <2>1, ConcatFold
<1>2. Len(s) = N /\ d.chars = f[N] /\ d.starts = St
  BY <1>1, TextsAre DEF IsList
<1>3. N \in Nat /\ k \in 1..N /\ z \in 1..MaxChars /\ MaxChars \in Nat /\ n \in 1..z
  BY LengthsAre, DictAssumption
<1> DEFINE First1(m) == FirstOf(words, m)
           Final(m) == IF m < Longest(words) THEN FirstOf(words, m + 1) - 1 ELSE Len(words)
<1>4. \A m \in 1..z : /\ First1(m) \in 1..N /\ Final(m) \in First1(m)..N /\ (n = m <=> First1(m) <= k /\ k <= Final(m))
                      /\ St[m] = [pos |-> Len(f[First1(m) - 1]), id |-> First1(m)]
                      /\ St[m + 1].id = IF m < z THEN Final(m) + 1 ELSE N
  BY <1>1, <1>3, LastIs
<1>5. \A m \in z + 1..MaxChars + 1 : St[m] = [pos |-> Len(f[N]), id |-> N]
  BY <1>1, StartsAre
<1>6. LET a == First1(n)
      IN  Len(f[k - 1]) = Len(f[a - 1]) + (k - a) * n /\ Len(f[k]) = Len(f[a - 1]) + ((k - a) + 1) * n
          /\ Len(f[a - 1]) \in Nat /\ k - a \in Nat
  BY <1>1, <1>3, EndsAre
<1>7. SubSeq(f[N], Len(f[k - 1]) + 1, Len(f[k])) = words[k].text
  BY <1>1, TextIs
<1> HIDE DEF N, n, z, s, St, First1, Final
<1>8. fits = {n}
  <2>1. ASSUME NEW m \in 1..MaxChars PROVE m \in fits <=> m = n
    <3>1. CASE m \in 1..z
      <4>1. St[m].id = First1(m) /\ First1(m) \in 1..N /\ Final(m) \in First1(m)..N
        <5>1. St[m] = [pos |-> Len(f[First1(m) - 1]), id |-> First1(m)]
          BY <1>4, <3>1
        <5>2. First1(m) \in 1..N /\ Final(m) \in First1(m)..N
          BY <1>4, <3>1
        <5> QED
          BY <5>1, <5>2
      <4>2. n = m <=> First1(m) <= k /\ k <= Final(m)
        BY <1>4, <3>1
      <4>3. CASE m < z
        <5>1. St[m + 1].id = Final(m) + 1
          BY <1>4, <3>1, <4>3
        <5> QED
          BY <1>2, <1>3, <4>1, <4>2, <5>1
      <4>4. CASE ~(m < z)
        <5>1. St[m + 1].id = N /\ Final(m) = N
          BY <1>4, <3>1, <4>4 DEF Final, z, N
        <5>2. k < N
          BY DEF N
        <5> QED
          BY <1>2, <1>3, <4>1, <4>2, <5>1, <5>2
      <4> QED
        BY <4>3, <4>4
    <3>2. CASE m \notin 1..z
      <4>1. m \in z + 1..MaxChars + 1
        BY <1>3, <3>2
      <4>2. St[m].id = N /\ m # n
        BY <1>3, <1>5, <3>2, <4>1
      <4>3. k < N
        BY DEF N
      <4> QED
        BY <1>2, <1>3, <4>2, <4>3
    <3> QED
      BY <3>1, <3>2
  <2>2. n \in 1..MaxChars
    BY <1>3
  <2>3. fits \subseteq 1..MaxChars
    OBVIOUS
  <2> HIDE DEF fits
  <2> QED
    BY <2>1, <2>2, <2>3
<1>9. Min(fits) = n /\ fits # {}
  <2>1. Min({n}) = n
    <3>1. {n} \in SUBSET Nat /\ {n} # {}
      BY <1>3
    <3> QED
      BY <3>1, MinIsLeast
  <2> HIDE DEF fits
  <2> QED
    BY <1>8, <2>1
<1>10. ~(k >= d.starts[MaxChars + 1].id)
  <2>1. MaxChars + 1 \in z + 1..MaxChars + 1
    BY <1>3
  <2>2. d.starts[MaxChars + 1].id = N
    BY <1>2, <1>5, <2>1
  <2>3. k < N
    BY DEF N
  <2> QED
    BY <1>3, <2>2, <2>3
<1> DEFINE from == d.starts[n].pos + (k - d.starts[n].id) * n
<1>11. GetLemmaStr(d, k) = SubSeq(d.chars, from + 1, from + n)
  <2>1. GetLemmaStr(d, k) = IF k >= d.starts[MaxChars + 1].id \/ fits = {} THEN <<>>
                             ELSE LET m == Min(fits)
                                      fr == d.starts[m].pos + (k - d.starts[m].id) * m
                                  IN  SubSeq(d.chars, fr + 1, fr + m)
    BY Zenon DEF GetLemmaStr
  <2> HIDE DEF fits
  <2> QED
    BY <1>9, <1>10, <2>1
<1>12. from = Len(f[k - 1]) /\ from + n = Len(f[k])
  <2> DEFINE a == First1(n)
             p == Len(f[a - 1])
             j == k - a
  <2>1. d.starts[n].pos = p /\ d.starts[n].id = a /\ n \in Nat
    <3>1. St[n] = [pos |-> p, id |-> a]
      BY <1>3, <1>4
    <3> QED
      BY <1>2, <1>3, <3>1
  <2>2. Len(f[k - 1]) = p + j * n /\ Len(f[k]) = p + (j + 1) * n /\ p \in Nat /\ j \in Nat
    BY <1>6
  <2>3. from = p + j * n
    BY <2>1
  <2> HIDE DEF a, p, j, from
  <2> DEFINE x == j * n
  <2>4. x \in Nat /\ (j + 1) * n = x + n
    BY <2>1, <2>2
  <2> HIDE DEF x
  <2>5. from + n = p + (x + n)
    BY <2>1, <2>2, <2>3, <2>4 DEF x
  <2> QED
    BY <2>2, <2>3, <2>4, <2>5
<1> HIDE DEF from
<1> QED
  BY <1>2, <1>7, <1>11, <1>12

LEMMA CharsAre ==
  ASSUME NEW words, NEW S, IsWords(words, S), NEW d, IsList(d, words)
  PROVE  \E f : IsConcat(f, Texts(words), Int) /\ d.chars = f[Len(words)]
<1> DEFINE s == Texts(words)
<1>1. s \in Seq(Seq(Int)) /\ Len(s) = Len(words)
  BY TextsAre
<1> HIDE DEF s
<1>2. PICK f : IsConcat(f, s, Int) /\ Concat(s) = f[Len(s)]
  BY <1>1, ConcatFold
<1> QED
  BY <1>1, <1>2 DEF IsList, s

-----------------------------------------------------------------------------
(* The words that begin with some characters.                                 *)

\* The words of one length that begin with some characters, as the list finds them.
LEMMA StartedAre ==
  ASSUME NEW words, NEW S, IsWords(words, S), Complete(words), NEW d, IsList(d, words),
         NEW n \in 1..Longest(words), NEW hzs
  PROVE  LET a == FirstOf(words, n)
         IN  /\ d.starts[n].id = a /\ a \in 1..Len(words)
             /\ \A j : j \in StartedBy(d, n, hzs) <=>
                         /\ j \in Nat /\ a + j \in 1..Len(words) /\ LengthAt(words, a + j) = n
                         /\ IsPrefix(hzs, words[a + j].text)
             /\ \A j \in StartedBy(d, n, hzs) : WordAt(d, n, j) = words[a + j].text
<1> DEFINE N == Len(words)
           z == Longest(words)
           a == FirstOf(words, n)
           b == IF n < z THEN FirstOf(words, n + 1) - 1 ELSE Len(words)
           t(k) == LengthAt(words, k)
           c == b - a
<1>1. PICK f : IsConcat(f, Texts(words), Int) /\ d.chars = f[Len(words)]
  BY CharsAre
<1> DEFINE p == Len(f[a - 1])
<1>2. /\ a \in 1..N /\ b \in a..N /\ b \in Nat /\ n \in Nat /\ n > 0 /\ N \in Nat
      /\ (\A k \in 1..N : t(k) = n <=> a <= k /\ k <= b)
      /\ Starts(words)[n] = [pos |-> p, id |-> a] /\ Starts(words)[n + 1].pos = Len(f[b])
  BY <1>1, LastIs, WordsAre
<1>3. d.starts[n].pos = p /\ d.starts[n].id = a /\ d.starts[n + 1].pos = Len(f[b])
  BY <1>2 DEF IsList
<1>4. \A k \in 1..N : t(k) = n => /\ Len(f[k - 1]) = p + (k - a) * n /\ Len(f[k]) = p + ((k - a) + 1) * n
                                  /\ SubSeq(d.chars, Len(f[k - 1]) + 1, Len(f[k])) = words[k].text
  BY <1>1, EndsAre, TextIs
<1>5. p \in Nat
  BY <1>1, <1>2, TextEnds
<1> HIDE DEF N, z, a, b, t, p
<1>6. c \in Nat /\ b \in 1..N /\ t(b) = n
  BY <1>2
<1>7. (d.starts[n + 1].pos - d.starts[n].pos) \div n - 1 = c
  <2>1. Len(f[b]) = p + (c + 1) * n
    BY <1>4, <1>6
  <2> HIDE DEF c
  <2> DEFINE x == (c + 1) * n
  <2>2. x \in Nat /\ x \div n = c + 1
    <3>1. c + 1 \in Nat
      BY <1>6
    <3>2. x \in Nat
      BY <1>2, <3>1
    <3> DEFINE cc == c + 1
    <3> HIDE DEF cc
    <3>3. (cc * n) \div n = cc
      BY <1>2, <3>1, DivTimes DEF cc
    <3> QED
      BY <3>2, <3>3 DEF cc
  <2> HIDE DEF x
  <2>3. (p + x) - p = x
    BY <1>5, <2>2
  <2>4. d.starts[n + 1].pos - d.starts[n].pos = x
    BY <1>3, <2>1, <2>3 DEF x
  <2> QED
    BY <1>6, <2>2, <2>4
<1>8. ASSUME NEW j \in 0..c PROVE a + j \in 1..N /\ t(a + j) = n /\ WordAt(d, n, j) = words[a + j].text
  <2> DEFINE k == a + j
  <2>1. k \in 1..N /\ a <= k /\ k <= b /\ k - a = j /\ j \in Nat
    BY <1>2, <1>6
  <2>2. t(k) = n
    BY <1>2, <2>1
  <2>3. SubSeq(d.chars, (p + (k - a) * n) + 1, p + ((k - a) + 1) * n) = words[k].text
    BY <1>4, <2>1, <2>2
  <2>4. WordAt(d, n, j) = SubSeq(d.chars, d.starts[n].pos + j * n + 1, d.starts[n].pos + (j + 1) * n)
    BY DEF WordAt
  <2> HIDE DEF k
  <2>5. SubSeq(d.chars, (p + j * n) + 1, p + (j + 1) * n) = words[k].text
    BY <2>1, <2>3
  <2> QED
    BY <1>3, <2>1, <2>2, <2>4, <2>5 DEF k
<1>9. StartedBy(d, n, hzs) = {j \in 0..c : IsPrefix(hzs, WordAt(d, n, j))}
  BY <1>7, Zenon DEF StartedBy
<1>10. ASSUME NEW j \in Nat, a + j \in 1..N, t(a + j) = n PROVE j \in 0..c
  <2>1. a + j <= b
    BY <1>2, <1>10
  <2> QED
    BY <1>2, <1>6, <2>1
<1> HIDE DEF c
<1>11. ASSUME NEW j
       PROVE  j \in StartedBy(d, n, hzs) <=>
                /\ j \in Nat /\ a + j \in 1..N /\ t(a + j) = n /\ IsPrefix(hzs, words[a + j].text)
  <2>1. j \in 0..c => j \in Nat
    BY <1>6
  <2>2. j \in StartedBy(d, n, hzs) <=> j \in 0..c /\ IsPrefix(hzs, WordAt(d, n, j))
    BY <1>9
  <2> QED
    BY <1>8, <1>10, <2>1, <2>2
<1>12. ASSUME NEW j \in StartedBy(d, n, hzs) PROVE WordAt(d, n, j) = words[a + j].text
  BY <1>8, <1>9
<1> QED
  BY <1>2, <1>3, <1>11, <1>12 DEF a, N, t

LEMMA NoneStarted ==
  ASSUME NEW words, NEW S, IsWords(words, S), Complete(words), NEW d, IsList(d, words),
         NEW n \in Longest(words) + 1..MaxChars, NEW hzs
  PROVE  StartedBy(d, n, hzs) = {}
<1>1. PICK f : IsConcat(f, Texts(words), Int) /\ d.chars = f[Len(words)]
  BY CharsAre
<1> DEFINE z == Longest(words)
           e == Len(f[Len(words)])
<1>2. z \in Nat /\ MaxChars \in Nat
  BY LengthsAre, DictAssumption
<1>3. n \in z + 1..MaxChars + 1 /\ n + 1 \in z + 1..MaxChars + 1 /\ n \in Nat /\ n > 0
  BY <1>2
<1>4. d.starts[n] = [pos |-> e, id |-> Len(words)] /\ d.starts[n + 1] = [pos |-> e, id |-> Len(words)]
  BY <1>1, <1>3, StartsAre DEF IsList
<1>5. e \in Nat
  <2>1. Len(words) \in 1..Len(words)
    BY LengthsAre
  <2> QED
    BY <1>1, <2>1, TextEnds
<1> HIDE DEF e, z
<1>6. (d.starts[n + 1].pos - d.starts[n].pos) \div n - 1 = -1
  <2>1. d.starts[n + 1].pos - d.starts[n].pos = 0
    BY <1>4, <1>5
  <2>2. 0 \div n = 0
    <3>1. (0 * n) \div n = 0
      BY <1>3, DivTimes
    <3> QED
      BY <1>3, <3>1
  <2> QED
    BY <2>1, <2>2
<1>7. StartedBy(d, n, hzs) = {j \in 0..-1 : IsPrefix(hzs, WordAt(d, n, j))}
  BY <1>6, Zenon DEF StartedBy
<1> QED
  BY <1>7

\* Only the first word begins where the characters begin.
LEMMA PlaceIs ==
  ASSUME NEW words, NEW S, IsWords(words, S), Complete(words), NEW d, IsList(d, words),
         NEW n \in 1..Longest(words)
  PROVE  d.starts[n].pos \in Nat /\ (d.starts[n].pos = 0 <=> FirstOf(words, n) = 1)
<1>1. PICK f : IsConcat(f, Texts(words), Int) /\ d.chars = f[Len(words)]
  BY CharsAre
<1> DEFINE a == FirstOf(words, n)
<1>2. d.starts[n] = [pos |-> Len(f[a - 1]), id |-> a] /\ a \in 1..Len(words) /\ Len(words) \in Nat
  <2>1. Starts(words)[n] = [pos |-> Len(f[a - 1]), id |-> a]
    BY <1>1, StartsAre
  <2>2. d.starts = Starts(words)
    BY DEF IsList
  <2>3. a \in 1..Len(words) /\ Len(words) \in Nat
    BY LengthsAre
  <2> HIDE DEF a
  <2> QED
    BY <2>1, <2>2, <2>3
<1>3. f[0] = <<>>
  BY <1>1 DEF IsConcat
<1> HIDE DEF a
<1>4. CASE a = 1
  <2>1. a - 1 = 0
    BY <1>4
  <2>2. d.starts[n].pos = 0
    BY <1>2, <1>3, <2>1
  <2> QED
    BY <1>4, <2>2 DEF a
<1>5. CASE a # 1
  <2> DEFINE i == a - 1
  <2>1. i \in 1..Len(words)
    BY <1>2, <1>5
  <2> HIDE DEF i
  <2>2. Len(f[i]) = Len(f[i - 1]) + LengthAt(words, i) /\ Len(f[i]) \in Nat /\ Len(f[i - 1]) \in Nat
    BY <1>1, <2>1, TextEnds
  <2>3. LengthAt(words, i) \in 1..Longest(words) /\ Longest(words) \in 1..MaxChars
    BY <2>1, LengthsAre
  <2>4. LengthAt(words, i) \in Int /\ LengthAt(words, i) >= 1
    BY <2>3
  <2>5. Len(f[i]) \in Nat /\ Len(f[i]) # 0
    BY <2>2, <2>4
  <2> QED
    BY <1>2, <1>5, <2>5 DEF i, a
<1> QED
  BY <1>4, <1>5

LEMMA IdIs ==
  ASSUME NEW words, NEW S, IsWords(words, S), Complete(words), NEW d, IsList(d, words),
         NEW k \in 1..Len(words)
  PROVE  IF words[k].text = words[1].text THEN GetLemmaId(d, words[k].text) = Aborts
         ELSE words[GetLemmaId(d, words[k].text)].text = words[k].text
<1> DEFINE n == LengthAt(words, k)
           a == FirstOf(words, n)
           pos == d.starts[n].pos
           str == words[k].text
           found == StartedBy(d, n, str)
<1>1. n \in 1..Longest(words) /\ n = Len(str)
  BY LengthsAre DEF LengthAt
<1>2. /\ d.starts[n].id = a /\ a \in 1..Len(words)
      /\ \A j : j \in found <=> /\ j \in Nat /\ a + j \in 1..Len(words) /\ LengthAt(words, a + j) = n
                                /\ IsPrefix(str, words[a + j].text)
  BY <1>1, StartedAre
<1>3. \A i \in 1..Len(words) : words[i].text \in Seq(Int)
  BY WordsAre, LineIs
<1>4. a <= k /\ Len(words) \in Nat
  BY <1>1, LengthsAre
<1>14. pos \in Nat /\ (pos = 0 <=> a = 1)
  BY <1>1, PlaceIs
<1>5. GetLemmaId(d, str) = IF found = {} THEN 0 ELSE IF pos + Min(found) * n = 0 THEN Aborts ELSE a + Min(found)
  BY <1>1, <1>2 DEF GetLemmaId
<1>6. n \in Nat /\ n > 0
  <2>1. Longest(words) \in 1..MaxChars
    BY LengthsAre
  <2> HIDE DEF n
  <2> QED
    BY <1>1, <2>1
<1>7. \A i \in 1..Len(words) : LengthAt(words, i) = Len(words[i].text)
  BY DEF LengthAt
<1>8. LengthAt(words, k) = n
  OBVIOUS
<1>15. 1 \in 1..Len(words) /\ (LengthAt(words, 1) = n => a = 1)
  <2>1. 1 \in 1..Len(words)
    BY <1>4
  <2>2. LengthAt(words, 1) >= n <=> a <= 1
    BY <1>1, <2>1, LengthsAre
  <2> HIDE DEF n, a
  <2> QED
    BY <1>2, <1>6, <2>1, <2>2
<1> HIDE DEF n, a, found, pos
<1>9. k - a \in found
  <2>1. k - a \in Nat /\ a + (k - a) = k
    BY <1>2, <1>4
  <2>2. IsPrefix(str, str)
    <3>1. Agree(str, str, Len(str))
      BY <1>1, <1>6 DEF Agree
    <3> QED
      BY <1>3, <3>1, PrefixIs
  <2> QED
    BY <1>2, <1>8, <2>1, <2>2
<1>10. Min(found) \in found /\ Min(found) \in Nat /\ \A j \in found : Min(found) <= j
  <2>1. found \in SUBSET Nat
    BY <1>2
  <2> QED
    BY <1>9, <2>1, MinIsLeast
<1> DEFINE i == a + Min(found)
<1>11. i \in 1..Len(words) /\ LengthAt(words, i) = n /\ IsPrefix(str, words[i].text)
  BY <1>2, <1>10
<1>12. GetLemmaId(d, str) = IF i = 1 THEN Aborts ELSE i
  <2> DEFINE m == Min(found)
             t == m * n
  <2>1. m \in Nat /\ GetLemmaId(d, str) = IF pos + t = 0 THEN Aborts ELSE a + m
    BY <1>5, <1>9, <1>10
  <2>2. t \in Nat /\ (t = 0 <=> m = 0)
    <3>1. CASE m = 0
      BY <1>6, <3>1
    <3>2. CASE m # 0
      <4>1. 1 \in Nat /\ 1 <= m /\ 1 * n = n
        BY <1>6, <2>1, <3>2
      <4> HIDE DEF m
      <4>2. 1 * n <= m * n /\ m * n \in Nat
        BY <1>6, <2>1, <4>1, TimesMono
      <4> QED
        BY <1>6, <3>2, <4>1, <4>2
    <3> QED
      BY <3>1, <3>2
  <2> HIDE DEF t, m
  <2>3. pos + t = 0 <=> a + m = 1
    BY <1>2, <1>14, <2>1, <2>2
  <2> QED
    BY <2>1, <2>3 DEF m
<1> HIDE DEF i
<1>13. words[i].text = str
  <2> DEFINE u == words[i].text
  <2>1. u \in Seq(Int) /\ str \in Seq(Int) /\ Len(u) = Len(str) /\ IsPrefix(str, u)
    BY <1>1, <1>3, <1>7, <1>11
  <2> HIDE DEF u, str
  <2>2. Agree(str, u, Len(str))
    BY <2>1, PrefixIs
  <2>3. str = u
    BY <2>1, <2>2, AgreeWhole
  <2> QED
    BY <2>3 DEF u
<1>16. CASE str = words[1].text
  <2>1. LengthAt(words, 1) = n /\ a = 1
    BY <1>1, <1>7, <1>15, <1>16
  <2>2. 0 \in found
    <3>1. 0 \in Nat /\ a + 0 = 1
      BY <2>1
    <3>2. IsPrefix(str, str)
      <4>1. Agree(str, str, Len(str))
        BY <1>1, <1>6 DEF Agree
      <4> QED
        BY <1>3, <4>1, PrefixIs
    <3> QED
      BY <1>2, <1>15, <1>16, <2>1, <3>1, <3>2
  <2>3. i = 1
    BY <1>10, <2>1, <2>2 DEF i
  <2> QED
    BY <1>12, <1>16, <2>3
<1>17. CASE str # words[1].text
  <2>1. i # 1
    BY <1>13, <1>17
  <2> QED
    BY <1>12, <1>13, <1>17, <2>1
<1> QED
  BY <1>16, <1>17

\* What is to be predicted behind n characters.
Predicted(words, hzs, n) ==
  {[hzs |-> SubSeq(v.text, n + 1, Len(v.text)), psb |-> v.freq]
     : v \in {v \in ToSet(words) : Len(v.text) > n /\ IsPrefix(hzs, v.text)}}

LEMMA PredictionIs ==
  ASSUME NEW words, NEW S, IsWords(words, S), Complete(words), NEW d, IsList(d, words),
         NEW hzs, NEW n \in Nat, Len(hzs) = n
  PROVE  PredictLemmas(d, hzs) = Predicted(words, hzs, n)
<1> DEFINE N == Len(words)
           Row(v) == [hzs |-> SubSeq(v.text, n + 1, Len(v.text)), psb |-> v.freq]
           V == {v \in ToSet(words) : Len(v.text) > n /\ IsPrefix(hzs, v.text)}
           Cell(m, k) == [hzs |-> SubSeq(WordAt(d, m, k), n + 1, m), psb |-> d.freq[d.starts[m].id + k]]
           R == {Row(v) : v \in V}
           P == UNION {{Cell(m, k) : k \in StartedBy(d, m, hzs)} : m \in n + 1..MaxChars}
<1>1. PredictLemmas(d, hzs) = P
  BY DEF PredictLemmas
<1>2. N \in Nat /\ DOMAIN words = 1..N /\ d.freq = [k \in 1..N |-> words[k].freq]
  BY WordsAre DEF IsList
<1>3. \A v : v \in ToSet(words) <=> \E i \in 1..N : words[i] = v
  BY <1>2 DEF ToSet
<1>4. /\ MaxChars \in Nat /\ Longest(words) \in 1..MaxChars
      /\ \A i \in 1..N : LengthAt(words, i) \in 1..Longest(words) /\ LengthAt(words, i) = Len(words[i].text)
  BY LengthsAre, DictAssumption DEF LengthAt
<1>5. ASSUME NEW m \in 1..Longest(words), NEW k \in StartedBy(d, m, hzs), m \in n + 1..MaxChars
      PROVE  Cell(m, k) \in R
  <2> DEFINE a == FirstOf(words, m)
             i == a + k
  <2>1. /\ d.starts[m].id = a /\ i \in 1..N /\ LengthAt(words, i) = m /\ IsPrefix(hzs, words[i].text)
        /\ WordAt(d, m, k) = words[i].text
    BY StartedAre
  <2> HIDE DEF a
  <2>2. d.starts[m].id + k = i
    BY <2>1
  <2> HIDE DEF i
  <2>3. d.freq[d.starts[m].id + k] = words[i].freq
    BY <1>2, <2>1, <2>2
  <2>4. Len(words[i].text) = m /\ m > n
    BY <1>4, <1>5, <2>1
  <2>5. words[i] \in V
    BY <1>3, <2>1, <2>4
  <2>6. Cell(m, k) = Row(words[i])
    BY <2>1, <2>3, <2>4
  <2> HIDE DEF V, Row, Cell
  <2> QED
    BY <2>5, <2>6
<1>6. ASSUME NEW v \in V PROVE Row(v) \in P
  <2>1. PICK i \in 1..N : words[i] = v
    BY <1>3
  <2> DEFINE m == LengthAt(words, i)
             a == FirstOf(words, m)
             k == i - a
  <2>2. m \in 1..Longest(words) /\ m = Len(v.text) /\ m \in Nat /\ m \in n + 1..MaxChars
    <3>1. m \in 1..Longest(words) /\ m = Len(v.text) /\ Len(v.text) > n
      BY <1>4, <2>1
    <3> HIDE DEF m
    <3> QED
      BY <1>4, <3>1
  <2>3. /\ d.starts[m].id = a /\ a \in 1..N
        /\ \A j : j \in StartedBy(d, m, hzs) <=>
                    /\ j \in Nat /\ a + j \in 1..N /\ LengthAt(words, a + j) = m /\ IsPrefix(hzs, words[a + j].text)
        /\ \A j \in StartedBy(d, m, hzs) : WordAt(d, m, j) = words[a + j].text
    BY <2>2, StartedAre
  <2>4. a <= i
    <3>1. \A j \in 1..N : LengthAt(words, j) >= m <=> a <= j
      BY <2>2, LengthsAre
    <3> QED
      BY <2>2, <3>1
  <2>5. LengthAt(words, i) = m
    OBVIOUS
  <2> HIDE DEF a, m
  <2>6. k \in Nat /\ a + k = i
    BY <1>2, <2>3, <2>4
  <2> HIDE DEF k
  <2>7. IsPrefix(hzs, words[i].text)
    BY <2>1
  <2>8. k \in StartedBy(d, m, hzs) /\ WordAt(d, m, k) = words[i].text
    BY <2>3, <2>5, <2>6, <2>7
  <2>9. d.freq[d.starts[m].id + k] = words[i].freq
    BY <1>2, <2>3, <2>6
  <2>10. Cell(m, k) = Row(v)
    BY <2>1, <2>2, <2>8, <2>9
  <2> HIDE DEF Cell, Row
  <2>11. Cell(m, k) \in P
    BY <2>2, <2>8
  <2> QED
    BY <2>10, <2>11
<1>7. ASSUME NEW x \in P PROVE x \in R
  <2>1. PICK m \in n + 1..MaxChars : x \in {Cell(m, k) : k \in StartedBy(d, m, hzs)}
    OBVIOUS
  <2>2. PICK k \in StartedBy(d, m, hzs) : x = Cell(m, k)
    BY <2>1
  <2>3. m \in 1..Longest(words)
    <3>1. CASE m \in Longest(words) + 1..MaxChars
      <4>1. StartedBy(d, m, hzs) = {}
        BY <3>1, NoneStarted
      <4> QED
        BY <4>1
    <3>2. CASE m \notin Longest(words) + 1..MaxChars
      BY <1>4, <3>2
    <3> QED
      BY <3>1, <3>2
  <2> HIDE DEF R, Cell
  <2> QED
    BY <1>5, <2>2, <2>3
<1>8. \A x \in R : x \in P
  <2> HIDE DEF P, V, Row
  <2> QED
    BY <1>6
<1> HIDE DEF P, R
<1>9. P = R
  BY <1>7, <1>8
<1> QED
  BY <1>1, <1>9 DEF R, Predicted

\* The spellings of a word, some of them known as half ids only.
LEMMA SplidsAre ==
  ASSUME NEW words, NEW S, IsWords(words, S), Complete(words), NEW d, IsTrie(d, words), IsList(d, words),
         NEW k \in 1..Len(words), k < Len(words), Len(words[k].spl) = Len(words[k].text), NEW ids,
         \A i \in 1..Len(words[k].spl) : ids[i] = words[k].spl[i] \/ ids[i] = HalfOf[words[k].spl[i]]
  PROVE  GetLemmaSplids(d, k, ids) = {words[k].spl}
<1> DEFINE str == words[k].text
           spl == words[k].spl
           n == Len(str)
           options(i) == IF ids[i] \in FullIds THEN {ids[i]} ELSE SplidsForHanzi(d, str[i], ids[i])
<1>1. GetLemmaStr(d, k) = str
  BY StringIs
<1>2. GetLemmaSplids(d, k, ids) =
        {s \in [1..n -> FullIds] : (\A i \in 1..n : s[i] \in options(i)) /\ TryExtend(d, s, k)}
  BY <1>1 DEF GetLemmaSplids
<1>3. words[k] \in RawLine /\ spl \in Seq(FullIds) /\ n \in Nat
  BY WordsAre, LineIs
<1>4. spl \in [1..n -> FullIds]
  BY <1>3, LenProperties
<1>5. Lists(d.homos[spl], {j \in 1..Len(words) : words[j].spl = spl}) /\ spl \in DOMAIN d.homos
  BY NodesAre DEF IsTrie
<1>6. TryExtend(d, spl, k)
  <2>1. \E j \in 1..Len(d.homos[spl]) : d.homos[spl][j] = k
    BY <1>5 DEF Lists
  <2> QED
    BY <1>5, <2>1 DEF TryExtend
<1>7. ASSUME NEW s, TryExtend(d, s, k) PROVE s = spl
  <2>1. PICK j \in 1..Len(d.homos[s]) : d.homos[s][j] = k
    BY <1>7 DEF TryExtend
  <2>2. s \in NodesOf(words)
    BY <1>7 DEF TryExtend, IsTrie
  <2>3. Lists(d.homos[s], {i \in 1..Len(words) : words[i].spl = s})
    BY <2>2 DEF IsTrie
  <2>4. k \in {i \in 1..Len(words) : words[i].spl = s}
    BY <2>1, <2>3, ListsAll
  <2> QED
    BY <2>4
<1>8. ASSUME NEW i \in 1..n PROVE spl[i] \in options(i)
  <2>1. CASE ids[i] = spl[i]
    BY <1>4, <2>1
  <2>2. CASE ids[i] = HalfOf[spl[i]]
    <3>1. spl[i] \in FullIds
      BY <1>4
    <3>2. ids[i] \notin FullIds
      BY <2>2, <3>1, DictAssumption DEF FullIds
    <3>3. <<str[i], spl[i]>> \in d.scis
      <4>1. words[k] \in ToSet(words)
        BY WordsAre DEF ToSet
      <4>2. <<str[i], spl[i]>> \in Scis(words)
        BY <4>1 DEF Scis
      <4> QED
        BY <4>2 DEF IsList
    <3> DEFINE hz == str[i]
               half == ids[i]
               strict == {x \in FullIds : <<hz, x>> \in d.scis /\ HalfOf[x] = half}
    <3>4. spl[i] \in strict
      BY <2>2, <3>1, <3>3
    <3>5. SplidsForHanzi(d, hz, half) = strict
      <4>1. strict # {}
        BY <3>4
      <4> QED
        BY <4>1 DEF SplidsForHanzi
    <3> QED
      BY <3>2, <3>4, <3>5
  <2>3. i \in 1..Len(spl)
    OBVIOUS
  <2> QED
    BY <2>1, <2>2, <2>3
<1> HIDE DEF options, spl, n, str
<1> QED
  BY <1>2, <1>4, <1>6, <1>7, <1>8 DEF spl

-----------------------------------------------------------------------------
(* The words on top.                                                          *)

\* A sequence with one more element, at place p.
Inserted(r, s, p, e) ==
  /\ Len(r) = Len(s) + 1
  /\ \A i \in 1..Len(s) + 1 : r[i] = IF i < p THEN s[i] ELSE IF i = p THEN e ELSE s[i - 1]

LEMMA InsertedIs ==
  ASSUME NEW T, NEW s \in Seq(T), NEW e \in T, NEW p \in 1..Len(s) + 1
  PROVE  InsertAt(s, p, e) \in Seq(T) /\ Inserted(InsertAt(s, p, e), s, p, e)
<1> DEFINE n == Len(s)
           a == SubSeq(s, 1, p - 1)
           b == <<e>>
           c == SubSeq(s, p, n)
           r == InsertAt(s, p, e)
<1>1. n \in Nat /\ p \in Nat /\ p >= 1 /\ p <= n + 1
  BY LenProperties
<1>2. r = (a \o b) \o c
  BY DEF InsertAt
<1>3. a \in Seq(T) /\ Len(a) = p - 1 /\ \A i \in 1..p - 1 : a[i] = s[i]
  <2>1. p - 1 \in Nat /\ p - 1 <= n
    BY <1>1
  <2> DEFINE m == p - 1
  <2> HIDE DEF m
  <2>2. SubSeq(s, 1, m) \in Seq(T) /\ Len(SubSeq(s, 1, m)) = m /\ \A i \in 1..m : SubSeq(s, 1, m)[i] = s[i]
    BY <2>1, BeginIs DEF m
  <2> QED
    BY <2>2 DEF m
<1>4. c \in Seq(T) /\ Len(c) = n - p + 1 /\ \A i \in 1..n - p + 1 : c[i] = s[p + i - 1]
  <2> HIDE DEF n
  <2>1. p \in 1..n + 1 /\ n \in p - 1..n
    BY <1>1
  <2>2. SubSeq(s, p, n) \in Seq(T)
    BY <2>1, SubSeqProperties DEF n
  <2>3. Len(SubSeq(s, p, n)) = n - p + 1
    BY <1>1, <2>1, SubSeqProperties DEF n
  <2>4. \A i \in 1..n - p + 1 : SubSeq(s, p, n)[i] = s[p + i - 1]
    BY <1>1, <2>1, SubSeqProperties DEF n
  <2> QED
    BY <2>2, <2>3, <2>4
<1>5. b \in Seq(T) /\ Len(b) = 1 /\ b[1] = e
  OBVIOUS
<1> HIDE DEF a, b, c, n, r
<1> DEFINE u == a \o b
<1>6. /\ Len(u) = p /\ u \in Seq(T) /\ (\A i \in 1..p - 1 : u[i] = s[i]) /\ u[p] = e
  <2>1. /\ Len(u) = Len(a) + Len(b) /\ u \in Seq(T)
        /\ \A i \in 1..Len(a) : u[i] = a[i]
        /\ \A i \in 1..Len(b) : u[Len(a) + i] = b[i]
    <3>1. a \in Seq(T) /\ b \in Seq(T)
      BY <1>3, <1>5
    <3> QED
      BY <3>1, BothParts
  <2> HIDE DEF u
  <2>2. u[(p - 1) + 1] = b[1]
    BY <1>3, <1>5, <2>1
  <2> QED
    BY <1>1, <1>3, <1>5, <2>1, <2>2
<1> HIDE DEF u
<1>7. /\ Len(r) = Len(u) + Len(c) /\ r \in Seq(T)
      /\ \A i \in 1..Len(u) : r[i] = u[i]
      /\ \A i \in 1..Len(c) : r[Len(u) + i] = c[i]
  <2>1. u \in Seq(T) /\ c \in Seq(T) /\ r = u \o c
    BY <1>2, <1>4, <1>6 DEF u
  <2> QED
    BY <2>1, BothParts
<1>8. Len(r) = n + 1
  BY <1>1, <1>4, <1>6, <1>7
<1>9. ASSUME NEW i \in 1..n + 1 PROVE r[i] = IF i < p THEN s[i] ELSE IF i = p THEN e ELSE s[i - 1]
  <2>1. CASE i < p
    <3>1. i \in 1..p - 1 /\ i \in 1..Len(u)
      BY <1>1, <1>6, <2>1
    <3> QED
      BY <1>6, <1>7, <2>1, <3>1
  <2>2. CASE i = p
    <3>1. i \in 1..Len(u)
      BY <1>1, <1>6, <2>2
    <3> QED
      BY <1>6, <1>7, <2>2, <3>1
  <2>3. CASE i > p
    <3> DEFINE j == i - p
    <3>1. j \in 1..n - p + 1 /\ p + j = i /\ p + j - 1 = i - 1
      BY <1>1, <2>3
    <3> HIDE DEF j
    <3>2. r[p + j] = c[j] /\ c[j] = s[p + j - 1]
      BY <1>4, <1>6, <1>7, <3>1
    <3> QED
      BY <1>1, <2>3, <3>1, <3>2
  <2> QED
    BY <1>1, <2>1, <2>2, <2>3
<1> QED
  BY <1>7, <1>8, <1>9 DEF r, n, Inserted

\* The words on top of those seen so far: in the order of their frequencies, but
\* for the last of a list from which words were left out, and the first is the best.
FreqOf(words, k) == words[k].freq
Sorted(words, top, n) == \A i, j \in 1..n : i <= j => FreqOf(words, top[i]) >= FreqOf(words, top[j])
Best(words, top, seen, k) ==
  /\ top \in Seq(Nat) /\ \A i \in 1..Len(top) : top[i] \in seen
  /\ \A i, j \in 1..Len(top) : top[i] = top[j] => i = j
  /\ Len(top) = IF k <= TopLemmas THEN k ELSE TopLemmas
  /\ k <= TopLemmas => Sorted(words, top, Len(top))
  /\ Sorted(words, top, Len(top) - 1)
  /\ \A x \in seen : Len(top) > 0 /\ FreqOf(words, top[1]) >= FreqOf(words, x)

\* A list, its words and their frequencies.
LEMMA BestIs ==
  ASSUME NEW words, NEW S, IsWords(words, S), NEW seen \in SUBSET (1..Len(words)), NEW top, NEW k \in Nat,
         Best(words, top, seen, k)
  PROVE  /\ Len(top) \in Nat /\ TopLemmas \in Nat /\ TopLemmas > 2 /\ Len(top) <= TopLemmas /\ Len(top) <= k
         /\ (Len(top) < TopLemmas => Len(top) = k) /\ (top = <<>> <=> Len(top) = 0)
         /\ \A i \in 1..Len(top) : FreqOf(words, top[i]) \in Nat
         /\ \A i \in 1..Len(words) : FreqOf(words, i) \in Nat /\ i \in Nat
<1> DEFINE L == Len(top)
<1>1. L \in Nat /\ (top = <<>> <=> L = 0)
  <2>1. top \in Seq(Nat)
    BY DEF Best
  <2> QED
    BY <2>1, LenProperties, EmptySeq
<1>2. \A i \in 1..Len(words) : FreqOf(words, i) \in Nat
  BY WordsAre, LineIs DEF FreqOf
<1>3. \A i \in 1..L : top[i] \in 1..Len(words)
  BY DEF Best
<1>4. L = IF k <= TopLemmas THEN k ELSE TopLemmas
  BY DEF Best
<1>5. TopLemmas \in Nat /\ TopLemmas > 2
  <2>1. \A n : n \in Nat \ (0..2) => n \in Nat /\ n > 2
    OBVIOUS
  <2> QED
    BY <2>1, DictAssumption
<1>6. \A i \in 1..Len(words) : i \in Nat
  OBVIOUS
<1> HIDE DEF L
<1>7. L <= TopLemmas /\ L <= k /\ (L < TopLemmas => L = k)
  BY <1>1, <1>4, <1>5
<1> QED
  BY <1>1, <1>2, <1>3, <1>5, <1>6, <1>7 DEF L

\* A word that is not above the last one comes behind it, if there is room.
LEMMA InsertLow ==
  ASSUME NEW words, NEW S, IsWords(words, S), NEW seen \in SUBSET (1..Len(words)), NEW top, NEW k \in Nat,
         Best(words, top, seen, k), NEW id \in (1..Len(words)) \ seen,
         top = <<>> \/ FreqOf(words, id) <= FreqOf(words, top[Len(top)])
  PROVE  Best(words, First(Append(top, id), TopLemmas), seen \cup {id}, k + 1)
<1> DEFINE L == Len(top)
           r == Append(top, id)
           u == First(r, TopLemmas)
           fr(x) == FreqOf(words, x)
           all == seen \cup {id}
           M == IF TopLemmas <= L + 1 THEN TopLemmas ELSE L + 1
<1>1. /\ L \in Nat /\ TopLemmas \in Nat /\ TopLemmas > 2 /\ L <= TopLemmas /\ L <= k /\ (L < TopLemmas => L = k)
      /\ (top = <<>> <=> L = 0) /\ (\A i \in 1..L : fr(top[i]) \in Nat)
      /\ \A i \in 1..Len(words) : fr(i) \in Nat /\ i \in Nat
  BY BestIs
<1>2. /\ top \in Seq(Nat) /\ (\A i \in 1..L : top[i] \in seen) /\ (\A i, j \in 1..L : top[i] = top[j] => i = j)
      /\ (k <= TopLemmas => Sorted(words, top, L)) /\ Sorted(words, top, L - 1)
      /\ \A x \in seen : L > 0 /\ fr(top[1]) >= fr(x)
  BY DEF Best
<1>3. id \in Nat /\ fr(id) \in Nat /\ id \notin seen
  BY <1>1
<1>4. /\ r \in Seq(Nat) /\ Len(r) = L + 1 /\ r[L + 1] = id /\ \A i \in 1..L : r[i] = top[i]
  BY <1>2, <1>3, FrontAndLast
<1>5. top = <<>> \/ fr(id) <= fr(top[L])
  OBVIOUS
<1>6. u \in Seq(Nat) /\ Len(u) = M /\ \A i \in 1..M : u[i] = r[i]
  <2> HIDE DEF r, L, fr
  <2>1. Min({TopLemmas, L + 1}) = M
    <3>1. TopLemmas \in Nat /\ L + 1 \in Nat
      BY <1>1
    <3> QED
      BY <3>1, MinOfTwo
  <2>2. M \in Nat /\ M <= Len(r)
    BY <1>1, <1>4
  <2> HIDE DEF M
  <2>3. u = SubSeq(r, 1, M)
    BY <1>4, <2>1 DEF First
  <2> HIDE DEF u
  <2> QED
    BY <1>4, <2>2, <2>3, BeginIs
<1> HIDE DEF u, r, L, fr
<1>7. L > 0 => fr(top[1]) >= fr(id)
  <2> SUFFICES ASSUME L > 0 PROVE fr(top[1]) >= fr(id)
    OBVIOUS
  <2>1. 1 \in 1..L /\ L \in 1..L
    BY <1>1
  <2>2. fr(id) <= fr(top[L])
    BY <1>1, <1>5
  <2>3. fr(top[1]) \in Nat /\ fr(top[L]) \in Nat /\ top[L] \in seen
    BY <1>1, <1>2, <2>1
  <2>4. fr(top[1]) >= fr(top[L])
    BY <1>2, <2>3
  <2> QED
    BY <1>3, <2>2, <2>3, <2>4
<1>8. CASE L = TopLemmas
  <2>1. M = L /\ ~(k + 1 <= TopLemmas)
    BY <1>1, <1>8
  <2>2. Len(u) = L /\ \A i \in 1..L : u[i] = top[i]
    BY <1>4, <1>6, <2>1
  <2>3. Sorted(words, u, L - 1)
    <3>1. \A i \in 1..L - 1 : u[i] = top[i]
      BY <1>1, <2>2
    <3> QED
      BY <1>2, <3>1 DEF Sorted
  <2>4. \A i \in 1..L : u[i] \in all
    BY <1>2, <2>2
  <2>5. \A x \in all : L > 0 /\ fr(u[1]) >= fr(x)
    <3>1. L > 0 /\ u[1] = top[1]
      BY <1>1, <1>8, <2>2
    <3> QED
      BY <1>2, <1>7, <3>1
  <2> HIDE DEF all
  <2>6. L = IF k + 1 <= TopLemmas THEN k + 1 ELSE TopLemmas
    BY <1>8, <2>1
  <2> QED
    BY <1>2, <1>6, <2>1, <2>2, <2>3, <2>4, <2>5, <2>6 DEF Best, fr, u, all, r
<1>9. CASE L < TopLemmas
  <2>1. M = L + 1 /\ L = k /\ k + 1 <= TopLemmas
    BY <1>1, <1>9
  <2>2. Len(u) = L + 1 /\ (\A i \in 1..L : u[i] = top[i]) /\ u[L + 1] = id /\ \A i \in 1..L + 1 : i \in 1..L \/ i = L + 1
    BY <1>1, <1>4, <1>6, <2>1
  <2>3. Sorted(words, top, L)
    BY <1>2, <2>1, <1>1, <1>9
  <2>4. \A i \in 1..L : fr(top[i]) >= fr(id)
    <3> SUFFICES ASSUME NEW i \in 1..L PROVE fr(top[i]) >= fr(id)
      OBVIOUS
    <3>1. L \in 1..L /\ i <= L
      BY <1>1
    <3>2. fr(top[i]) >= fr(top[L]) /\ fr(id) <= fr(top[L])
      BY <1>1, <1>5, <2>3, <3>1 DEF Sorted, fr
    <3> QED
      BY <1>1, <1>3, <3>1, <3>2
  <2>5. \A i, j \in 1..L + 1 : i <= j => fr(u[i]) >= fr(u[j])
    <3> SUFFICES ASSUME NEW i \in 1..L + 1, NEW j \in 1..L + 1, i <= j PROVE fr(u[i]) >= fr(u[j])
      OBVIOUS
    <3>1. CASE j \in 1..L
      <4>1. i \in 1..L
        BY <1>1, <3>1
      <4> QED
        BY <2>2, <2>3, <3>1, <4>1 DEF Sorted, fr
    <3>2. CASE j = L + 1 /\ i \in 1..L
      BY <2>2, <2>4, <3>2
    <3>3. CASE j = L + 1 /\ i = L + 1
      BY <1>3, <2>2, <3>3
    <3> QED
      BY <2>2, <3>1, <3>2, <3>3
  <2>6. Sorted(words, u, L + 1) /\ Sorted(words, u, (L + 1) - 1)
    <3>1. \A i \in 1..(L + 1) - 1 : i \in 1..L + 1
      BY <1>1
    <3> QED
      BY <2>5, <3>1 DEF Sorted, fr
  <2>7. \A i, j \in 1..L + 1 : u[i] = u[j] => i = j
    BY <1>2, <1>3, <2>2
  <2>8. \A i \in 1..L + 1 : u[i] \in all
    BY <1>2, <2>2
  <2>9. \A x \in all : L + 1 > 0 /\ fr(u[1]) >= fr(x)
    <3>1. CASE L = 0
      <4>1. u[1] = id
        BY <2>2, <3>1
      <4>2. \A x \in all : x = id
        BY <1>2, <3>1
      <4> QED
        BY <1>3, <3>1, <4>1, <4>2
    <3>2. CASE L > 0
      <4>1. u[1] = top[1] /\ L + 1 > 0
        BY <1>1, <2>2, <3>2
      <4> QED
        BY <1>2, <1>7, <3>2, <4>1
    <3> QED
      BY <1>1, <3>1, <3>2
  <2> HIDE DEF all
  <2>10. Len(u) = L + 1 /\ L + 1 = IF k + 1 <= TopLemmas THEN k + 1 ELSE TopLemmas
    BY <2>1, <2>2
  <2> QED
    BY <1>6, <2>2, <2>6, <2>7, <2>8, <2>9, <2>10 DEF Best, fr, u, all, r
<1> QED
  BY <1>1, <1>8, <1>9

\* A word above the last one takes a place in front of a word that it is not below.
IsPlace(words, top, id, kept, place) ==
  /\ kept = Min({Len(top), TopLemmas - 1})
  /\ place = 1 + Max({0} \cup {i \in 1..kept - 1 : FreqOf(words, top[i]) > FreqOf(words, id)})

LEMMA InsertHigh ==
  ASSUME NEW words, NEW S, IsWords(words, S), NEW seen \in SUBSET (1..Len(words)), NEW top, NEW k \in Nat,
         Best(words, top, seen, k), NEW id \in (1..Len(words)) \ seen,
         top # <<>>, ~(FreqOf(words, id) <= FreqOf(words, top[Len(top)])),
         NEW kept, NEW place, IsPlace(words, top, id, kept, place)
  PROVE  Best(words, InsertAt(First(top, kept), place, id), seen \cup {id}, k + 1)
<1> DEFINE L == Len(top)
           s == First(top, kept)
           u == InsertAt(s, place, id)
           fr(x) == FreqOf(words, x)
           all == seen \cup {id}
           X == {0} \cup {i \in 1..kept - 1 : fr(top[i]) > fr(id)}
<1>1. /\ L \in Nat /\ TopLemmas \in Nat /\ TopLemmas > 2 /\ L <= TopLemmas /\ L <= k /\ (L < TopLemmas => L = k)
      /\ (top = <<>> <=> L = 0) /\ (\A i \in 1..L : fr(top[i]) \in Nat)
      /\ \A i \in 1..Len(words) : fr(i) \in Nat /\ i \in Nat
  BY BestIs
<1>2. /\ top \in Seq(Nat) /\ (\A i \in 1..L : top[i] \in seen) /\ (\A i, j \in 1..L : top[i] = top[j] => i = j)
      /\ (k <= TopLemmas => Sorted(words, top, L)) /\ Sorted(words, top, L - 1)
      /\ \A x \in seen : L > 0 /\ fr(top[1]) >= fr(x)
  BY DEF Best
<1>3. id \in Nat /\ fr(id) \in Nat /\ id \notin seen /\ \A i \in 1..L : top[i] # id
  BY <1>1, <1>2
<1>4. L > 0 /\ L \in 1..L /\ ~(fr(id) <= fr(top[L])) /\ place = 1 + Max(X) /\ kept = Min({L, TopLemmas - 1})
  <2>1. L > 0 /\ L \in 1..L
    BY <1>1
  <2> QED
    BY <2>1 DEF IsPlace
<1> HIDE DEF L, fr
<1>5. /\ kept \in Nat /\ kept > 0 /\ kept <= L /\ kept + 1 <= TopLemmas
      /\ (L < TopLemmas => kept = L /\ L = k) /\ (L = TopLemmas => kept = L - 1)
  <2>1. TopLemmas - 1 \in Nat
    BY <1>1
  <2>2. kept = IF L <= TopLemmas - 1 THEN L ELSE TopLemmas - 1
    BY <1>1, <1>4, <2>1, MinOfTwo
  <2> QED
    BY <1>1, <1>4, <2>2
<1>6. kept + 1 = IF k + 1 <= TopLemmas THEN k + 1 ELSE TopLemmas
  BY <1>1, <1>5
<1>7. Sorted(words, top, kept)
  <2>1. CASE L < TopLemmas
    BY <1>1, <1>2, <1>5, <2>1
  <2>2. CASE L = TopLemmas
    BY <1>2, <1>5, <2>2
  <2> QED
    BY <1>1, <2>1, <2>2
<1>21. \A i : i \in X <=> i = 0 \/ (i \in 1..kept - 1 /\ fr(top[i]) > fr(id))
  OBVIOUS
<1> HIDE DEF X
<1>8. Max(X) \in X /\ \A x \in X : x <= Max(X)
  <2>1. X \in SUBSET Nat /\ X # {} /\ \A x \in X : x <= kept
    <3>1. \A i \in X : i \in Nat /\ i <= kept
      BY <1>5, <1>21
    <3>2. 0 \in X
      BY <1>21
    <3> QED
      BY <3>1, <3>2
  <2>2. PICK m \in X : \A x \in X : x <= m
    BY <1>5, <2>1, GreatestExists
  <2>3. \E x \in X : \A y \in X : x >= y
    BY <2>1, <2>2
  <2>4. Max(X) \in X /\ \A y \in X : Max(X) >= y
    BY <2>3 DEF Max
  <2> QED
    BY <2>1, <2>4
<1>9. /\ place \in Nat /\ place > 0 /\ place <= kept
      /\ \A i \in 1..kept : i < place => fr(top[i]) >= fr(id)
      /\ \A i \in 1..kept - 1 : i >= place => fr(top[i]) <= fr(id)
  <2> DEFINE m == Max(X)
  <2>1. m \in X /\ (\A x \in X : x <= m) /\ place = 1 + m
    BY <1>4, <1>8
  <2> HIDE DEF m
  <2>2. m \in Nat /\ m <= kept - 1 /\ m <= kept
    BY <1>5, <1>21, <2>1
  <2>3. m > 0 => m \in 1..kept /\ m \in 1..L /\ fr(top[m]) > fr(id)
    BY <1>1, <1>5, <1>21, <2>1, <2>2
  <2>4. ASSUME NEW i \in 1..kept, i < place PROVE fr(top[i]) >= fr(id)
    <3>1. i <= m /\ m > 0 /\ i \in 1..L /\ m \in 1..kept
      BY <1>1, <1>5, <2>1, <2>2, <2>3, <2>4
    <3>2. fr(top[i]) >= fr(top[m])
      BY <1>7, <3>1 DEF Sorted, fr
    <3>3. fr(top[i]) \in Nat /\ fr(top[m]) \in Nat /\ fr(top[m]) > fr(id)
      BY <1>1, <2>3, <3>1
    <3> QED
      BY <1>3, <3>2, <3>3
  <2>5. ASSUME NEW i \in 1..kept - 1, i >= place PROVE fr(top[i]) <= fr(id)
    <3>1. i \notin X /\ i \in 1..L
      <4>1. i \in Nat /\ ~(i <= m) /\ i <= L /\ i > 0
        BY <1>1, <1>5, <2>1, <2>2, <2>5
      <4> QED
        BY <1>1, <2>1, <4>1
    <3>2. ~(fr(top[i]) > fr(id)) /\ fr(top[i]) \in Nat
      BY <1>1, <1>21, <3>1
    <3> QED
      BY <1>3, <3>2
  <2>6. place \in Nat /\ place > 0 /\ place <= kept
    BY <1>5, <2>1, <2>2
  <2> QED
    BY <2>4, <2>5, <2>6
<1>10. s \in Seq(Nat) /\ Len(s) = kept /\ \A i \in 1..kept : s[i] = top[i]
  <2>1. Min({kept, Len(top)}) = kept
    <3>1. Len(top) \in Nat /\ kept \in Nat /\ kept <= Len(top)
      BY <1>1, <1>5 DEF L
    <3> QED
      BY <3>1, MinOfTwo
  <2>2. s = SubSeq(top, 1, kept)
    BY <2>1 DEF First
  <2> HIDE DEF s
  <2>3. kept <= Len(top)
    BY <1>5 DEF L
  <2> QED
    BY <1>2, <1>5, <2>2, <2>3, BeginIs
<1> HIDE DEF s
<1>11. /\ u \in Seq(Nat) /\ Len(u) = kept + 1
       /\ \A i \in 1..kept + 1 : u[i] = IF i < place THEN s[i] ELSE IF i = place THEN id ELSE s[i - 1]
  <2>1. place \in 1..Len(s) + 1
    BY <1>5, <1>9, <1>10
  <2>2. InsertAt(s, place, id) \in Seq(Nat) /\ Inserted(InsertAt(s, place, id), s, place, id)
    BY <1>3, <1>10, <2>1, InsertedIs
  <2>3. /\ u \in Seq(Nat) /\ Len(u) = Len(s) + 1
        /\ \A i \in 1..Len(s) + 1 : u[i] = IF i < place THEN s[i] ELSE IF i = place THEN id ELSE s[i - 1]
    BY Zenon, <2>2 DEF Inserted
  <2> HIDE DEF u
  <2> QED
    BY <1>10, <2>3
<1> HIDE DEF u
<1>12. ASSUME NEW i \in 1..kept + 1
       PROVE  /\ i < place => i \in 1..kept /\ i \in 1..L /\ u[i] = top[i]
              /\ i = place => u[i] = id
              /\ i > place => i - 1 \in 1..kept /\ i - 1 \in 1..L /\ u[i] = top[i - 1]
              /\ i \in Nat /\ (i < place \/ i = place \/ i > place)
  <2>1. CASE i < place
    <3>1. i \in 1..kept /\ i \in 1..L
      BY <1>1, <1>5, <1>9, <2>1
    <3>2. u[i] = s[i]
      BY <1>11, <2>1
    <3>3. s[i] = top[i]
      BY <1>10, <3>1
    <3>4. ~(i = place) /\ ~(i > place)
      BY <1>5, <1>9, <2>1
    <3> QED
      BY <2>1, <3>1, <3>2, <3>3, <3>4
  <2>2. CASE i = place
    <3>1. ~(i < place)
      BY <1>9, <2>2
    <3> QED
      BY <1>11, <2>2, <3>1
  <2>3. CASE i > place
    <3>1. i - 1 \in 1..kept /\ i - 1 \in 1..L /\ ~(i < place) /\ i # place
      BY <1>1, <1>5, <1>9, <2>3
    <3> QED
      BY <1>10, <1>11, <2>3, <3>1
  <2> QED
    BY <1>1, <1>5, <1>9, <2>1, <2>2, <2>3
<1>13. \A i \in 1..kept + 1 : u[i] \in all
  BY <1>2, <1>12
<1>14. ASSUME NEW i \in 1..kept + 1, NEW j \in 1..kept + 1, u[i] = u[j] PROVE i = j
  <2>1. i \in Nat /\ j \in Nat
    BY <1>5
  <2>2. CASE i < place /\ j < place
    BY <1>2, <1>9, <1>5, <1>12, <1>14, <2>1, <2>2
  <2>3. CASE i > place /\ j > place
    <3>1. i - 1 = j - 1
      BY <1>2, <1>9, <1>5, <1>12, <1>14, <2>1, <2>3
    <3> QED
      BY <2>1, <3>1
  <2>4. CASE i < place /\ j > place
    <3>1. i = j - 1
      BY <1>2, <1>9, <1>5, <1>12, <1>14, <2>1, <2>4
    <3> QED
      BY <1>9, <2>1, <2>4, <3>1
  <2>5. CASE i > place /\ j < place
    <3>1. i - 1 = j
      BY <1>2, <1>9, <1>5, <1>12, <1>14, <2>1, <2>5
    <3> QED
      BY <1>9, <2>1, <2>5, <3>1
  <2>6. CASE i = place \/ j = place
    <3>1. u[i] = id
      BY <1>9, <1>5, <1>12, <1>14, <2>6
    <3>2. i = place /\ j = place
      BY <1>3, <1>9, <1>5, <1>12, <1>14, <3>1
    <3> QED
      BY <3>2
  <2> QED
    BY <1>9, <2>1, <2>2, <2>3, <2>4, <2>5, <2>6
\* In order, but for the last place, which is in order when all of top is kept.
<1>15. ASSUME NEW i \in 1..kept + 1, NEW j \in 1..kept + 1, i <= j, j <= kept \/ L < TopLemmas
       PROVE  fr(u[i]) >= fr(u[j])
  <2>1. i \in Nat /\ j \in Nat /\ place \in Nat
    BY <1>5, <1>9
  <2>2. CASE j < place
    <3>1. i < place /\ i \in 1..kept /\ j \in 1..kept
      BY <1>9, <1>15, <2>1, <2>2, <1>5
    <3>2. u[i] = top[i] /\ u[j] = top[j]
      BY <1>5, <1>12, <2>1, <2>2, <3>1
    <3> QED
      BY <1>7, <1>15, <3>1, <3>2 DEF Sorted, fr
  <2>3. CASE j = place /\ i < place
    <3>1. u[i] = top[i] /\ u[j] = id /\ i \in 1..kept
      BY <1>5, <1>12, <2>1, <2>3
    <3> QED
      BY <1>9, <2>3, <3>1
  <2>4. CASE j = place /\ i = place
    <3>1. u[i] = id /\ u[j] = id
      BY <1>5, <1>12, <2>1, <2>4
    <3> QED
      BY <1>3, <3>1
  <2>5. CASE j > place /\ i = place
    <3>0. u[j] = top[j - 1] /\ j - 1 \in 1..L /\ j - 1 \in 1..kept
      BY <1>5, <1>12, <2>5
    <3>1. u[i] = id /\ u[j] = top[j - 1] /\ j - 1 \in 1..L /\ j - 1 \in 1..kept /\ j - 1 >= place
      BY <1>12, <2>1, <2>5, <3>0
    <3>2. CASE j - 1 \in 1..kept - 1
      <4>1. fr(top[j - 1]) <= fr(id) /\ fr(top[j - 1]) \in Nat
        BY <1>1, <1>9, <3>1, <3>2
      <4> QED
        BY <1>3, <3>1, <4>1
    <3>3. CASE j - 1 = kept
      <4>1. L < TopLemmas /\ j - 1 = L
        BY <1>1, <1>5, <1>15, <2>1, <3>3
      <4>2. ~(fr(id) <= fr(top[j - 1])) /\ fr(top[j - 1]) \in Nat
        BY <1>1, <1>4, <4>1
      <4> QED
        BY <1>3, <3>1, <4>2
    <3> QED
      BY <1>5, <3>1, <3>2, <3>3
  <2>6. CASE j > place /\ i < place
    <3>1. i \in 1..kept /\ j - 1 \in 1..kept /\ i <= j - 1 /\ u[i] = top[i] /\ u[j] = top[j - 1]
      BY <1>5, <1>12, <2>1, <2>6
    <3> QED
      BY <1>7, <3>1 DEF Sorted, fr
  <2>7. CASE j > place /\ i > place
    <3>1. i - 1 \in 1..kept /\ j - 1 \in 1..kept /\ i - 1 <= j - 1 /\ u[i] = top[i - 1] /\ u[j] = top[j - 1]
      BY <1>5, <1>12, <1>15, <2>1, <2>7
    <3> QED
      BY <1>7, <3>1 DEF Sorted, fr
  <2> QED
    BY <1>15, <2>1, <2>2, <2>3, <2>4, <2>5, <2>6, <2>7
<1>16. k + 1 <= TopLemmas => Sorted(words, u, kept + 1)
  <2>1. k + 1 <= TopLemmas => L < TopLemmas
    BY <1>1
  <2> QED
    BY <1>15, <2>1 DEF Sorted, fr
<1>17. Sorted(words, u, (kept + 1) - 1)
  <2>1. \A i \in 1..(kept + 1) - 1 : i \in 1..kept + 1 /\ i <= kept
    BY <1>5
  <2> QED
    BY <1>15, <2>1 DEF Sorted, fr
<1>18. fr(u[1]) >= fr(id) /\ fr(u[1]) >= fr(top[1]) /\ fr(u[1]) \in Nat
  <2>0. 1 \in 1..kept + 1 /\ 1 \in 1..kept /\ 1 \in 1..L
    BY <1>1, <1>5
  <2>1. CASE place > 1
    <3>1. u[1] = top[1]
      BY <1>9, <1>5, <1>12, <2>0, <2>1
    <3>2. fr(top[1]) >= fr(id) /\ fr(top[1]) \in Nat
      BY <1>1, <1>9, <2>0, <2>1
    <3> QED
      BY <3>1, <3>2
  <2>2. CASE place = 1
    <3>1. u[1] = id
      BY <1>5, <1>12, <2>0, <2>2
    <3>2. fr(top[1]) <= fr(id) \/ ~(fr(id) <= fr(top[1]))
      <4>1. CASE kept = 1
        <5>1. L = 1
          BY <1>1, <1>5, <4>1
        <5> QED
          BY <1>4, <5>1
      <4>2. CASE kept > 1
        <5>1. 1 \in 1..kept - 1
          BY <1>5, <4>2
        <5>2. 1 >= place
          BY <2>2
        <5> QED
          BY <1>9, <5>1, <5>2
      <4> QED
        BY <1>5, <4>1, <4>2
    <3> QED
      BY <1>1, <1>3, <2>0, <3>1, <3>2
  <2> QED
    BY <1>9, <2>1, <2>2
<1>19. \A x \in all : kept + 1 > 0 /\ fr(u[1]) >= fr(x)
  <2>1. \A x \in seen : fr(top[1]) >= fr(x) /\ fr(x) \in Nat
    BY <1>1, <1>2
  <2>2. fr(top[1]) \in Nat
    BY <1>1, <1>4
  <2> QED
    BY <1>3, <1>5, <1>18, <2>1, <2>2
<1> HIDE DEF all
<1>20. Best(words, u, all, k + 1)
  BY <1>6, <1>11, <1>13, <1>14, <1>16, <1>17, <1>19 DEF Best, fr
<1> QED
  BY <1>20 DEF u, s, all

LEMMA InsertBest ==
  ASSUME NEW words, NEW S, IsWords(words, S), NEW seen \in SUBSET (1..Len(words)), NEW top, NEW k \in Nat,
         Best(words, top, seen, k), NEW id \in (1..Len(words)) \ seen
  PROVE  Best(words, InsertTop(words, top, id), seen \cup {id}, k + 1)
<1> DEFINE g == FreqOf(words, id)
           low == top = <<>> \/ g <= FreqOf(words, top[Len(top)])
           kept == Min({Len(top), TopLemmas - 1})
           place == 1 + Max({0} \cup {i \in 1..kept - 1 : FreqOf(words, top[i]) > g})
<1>1. InsertTop(words, top, id) =
        IF low THEN First(Append(top, id), TopLemmas) ELSE InsertAt(First(top, kept), place, id)
  BY Zenon DEF InsertTop, FreqOf
<1>2. CASE low
  <2>1. Best(words, First(Append(top, id), TopLemmas), seen \cup {id}, k + 1)
    BY <1>2, InsertLow
  <2> QED
    BY <1>1, <1>2, <2>1
<1>3. CASE ~low
  <2>1. IsPlace(words, top, id, kept, place) /\ top # <<>> /\ ~(g <= FreqOf(words, top[Len(top)]))
    BY <1>3 DEF IsPlace
  <2> HIDE DEF kept, place
  <2>2. Best(words, InsertAt(First(top, kept), place, id), seen \cup {id}, k + 1)
    BY <2>1, InsertHigh
  <2> QED
    BY <1>1, <1>3, <2>2
<1> QED
  BY <1>2, <1>3

LEMMA TopOfIs ==
  ASSUME NEW words, NEW S, IsWords(words, S)
  PROVE  Best(words, TopOf(words), 1..Len(words), Len(words))
<1> DEFINE n == Len(words)
           o == ByPinyinOrder(words)
           T == Seq(Nat)
           Op(top, id) == InsertTop(words, top, id)
           Seen(k) == {o[j] : j \in 1..k}
           At(k, top) == Best(words, top, Seen(k), k)
           I == [k \in 0..n |-> {top \in T : At(k, top)}]
           G == [p \in T \X (1..n) |-> Op(p[1], o[p[2]])]
           Is(f) == f = [k \in 0..n |-> IF k = 0 THEN <<>> ELSE Op(f[k - 1], o[k])]
<1>1. n \in Nat /\ \A k \in 1..n : k \in 0..n /\ k # 0 /\ k - 1 \in 0..n
  <2>1. n \in Nat
    BY WordsAre
  <2> HIDE DEF n
  <2> QED
    BY <2>1
<1>2. Len(o) = n /\ (\A j \in 1..n : o[j] \in 1..n) /\ (\A i, j \in 1..n : o[i] = o[j] => i = j)
      /\ \A x \in 1..n : \E j \in 1..n : o[j] = x
  <2>1. Lists(o, 1..n)
    BY ItemsSorted
  <2> HIDE DEF o
  <2>2. Cardinality(1..n) = n
    BY WordsAre
  <2>3. Cardinality(1..n) = Len(o) /\ \A j \in 1..Len(o) : o[j] \in 1..n
    BY <2>1, ListsAll
  <2> HIDE DEF n
  <2> QED
    BY <2>1, <2>2, <2>3 DEF Lists
<1>3. TopOf(words) = Step(LAMBDA top, id : InsertTop(words, top, id), <<>>, o)
  BY Zenon DEF TopOf
<1> HIDE DEF o
<1>4. \A k \in 0..n : \A m : m \in I[k] <=> m \in T /\ At(k, m)
  OBVIOUS
<1>5. <<>> \in I[0]
  <2>1. <<>> \in Seq(Nat) /\ Len(<<>>) = 0 /\ Seen(0) = {}
    OBVIOUS
  <2>2. TopLemmas \in Nat
    BY DictAssumption
  <2>3. At(0, <<>>) /\ 0 \in 0..n
    BY <1>1, <2>1, <2>2 DEF Best, Sorted
  <2> HIDE DEF At, I, Seen
  <2> QED
    BY <1>4, <2>1, <2>3
<1>6. ASSUME NEW k \in 1..n, NEW m \in I[k - 1] PROVE Op(m, o[k]) \in I[k] /\ m \in T
  <2> DEFINE a == k - 1
             A == Seen(a)
             B == Seen(k)
  <2>1. m \in T /\ Best(words, m, A, a)
    <3> HIDE DEF I, T, Seen
    <3> QED
      BY <1>1, <1>4
  <2>2. a \in Nat /\ a + 1 = k /\ \A j \in 1..k : j \in 1..n /\ (j \in 1..a \/ j = k) /\ (j = k => j \notin 1..a)
    BY <1>1
  <2>3. \A j \in 1..a : j \in 1..k /\ j \in 1..n /\ j # k
    BY <1>1
  <2>4. \A x : x \in A <=> \E j \in 1..a : x = o[j]
    OBVIOUS
  <2>5. \A x : x \in B <=> \E j \in 1..k : x = o[j]
    OBVIOUS
  <2>6. k \in 1..k
    BY <1>1
  <2> HIDE DEF a, A, B, n
  <2> DEFINE W == 1..n
  <2>14. (\A j \in 1..a : o[j] \in W /\ o[j] # o[k]) /\ o[k] \in W /\ W = 1..n
    BY <1>2, <2>3
  <2> HIDE DEF W
  <2>7. A \in SUBSET (1..n)
    BY <2>4, <2>14
  <2>8. o[k] \in (1..n) \ A
    BY <2>4, <2>14
  <2>9. B = A \cup {o[k]}
    <3>1. \A x \in B : x \in A \cup {o[k]}
      BY <2>2, <2>4, <2>5
    <3>2. \A x \in A \cup {o[k]} : x \in B
      BY <2>3, <2>4, <2>5, <2>6
    <3> QED
      BY <3>1, <3>2
  <2>10. Best(words, Op(m, o[k]), A \cup {o[k]}, a + 1)
    <3>1. /\ A \in SUBSET (1..Len(words)) /\ o[k] \in (1..Len(words)) \ A
          /\ a \in Nat /\ Best(words, m, A, a)
      BY <2>1, <2>2, <2>7, <2>8 DEF n
    <3> QED
      BY <3>1, InsertBest
  <2> HIDE DEF Op
  <2>11. Best(words, Op(m, o[k]), B, k)
    BY <2>2, <2>9, <2>10
  <2>12. Op(m, o[k]) \in T
    BY <2>11 DEF Best
  <2>13. At(k, Op(m, o[k]))
    BY <2>11 DEF B
  <2> HIDE DEF I, At, T
  <2> QED
    BY <1>1, <1>4, <2>1, <2>12, <2>13
<1>7. \A m \in T : \A k \in 1..n : G[<<m, k>>] = Op(m, o[k])
  <2> HIDE DEF Op, T, n
  <2> QED
    OBVIOUS
<1> HIDE DEF Op, I, G, T, n, At
<1>8. \E f : Is(f)
  <2>1. \A k \in 1..n : \A x \in I[k - 1] : G[<<x, k>>] \in I[k]
    BY <1>6, <1>7
  <2>2. PICK f : IsRunIn(f, I, n, <<>>, G)
    BY <1>1, <1>5, <2>1, RunExists
  <2>3. ASSUME NEW k \in 0..n PROVE f[k] = IF k = 0 THEN <<>> ELSE Op(f[k - 1], o[k])
    <3>1. CASE k = 0
      BY <2>2, <3>1 DEF IsRunIn
    <3>2. CASE k # 0
      <4>1. k \in 1..n /\ k - 1 \in 0..n
        BY <1>1, <3>2
      <4>2. f[k - 1] \in I[k - 1] /\ f[k] = G[<<f[k - 1], k>>]
        BY <2>2, <4>1 DEF IsRunIn
      <4>3. f[k - 1] \in T
        BY <1>6, <4>1, <4>2
      <4> QED
        BY <1>7, <3>2, <4>1, <4>2, <4>3
    <3> QED
      BY <3>1, <3>2
  <2>4. f = [k \in 0..n |-> f[k]]
    BY <2>2 DEF IsRunIn
  <2>5. [k \in 0..n |-> f[k]] = [k \in 0..n |-> IF k = 0 THEN <<>> ELSE Op(f[k - 1], o[k])]
    BY <2>3
  <2>6. Is(f)
    BY <2>4, <2>5
  <2> HIDE DEF Is
  <2> QED
    BY <2>6
<1> DEFINE g == CHOOSE f : Is(f)
<1>9. Is(g)
  <2> HIDE DEF Is
  <2> QED
    BY <1>8
<1>10. TopOf(words) = g[n]
  <2>1. TopOf(words) = (CHOOSE f : f = [k \in 0..Len(o) |-> IF k = 0 THEN <<>> ELSE Op(f[k - 1], o[k])])[Len(o)]
    BY Zenon, <1>3 DEF Step, Op
  <2>2. Len(o) = n
    BY <1>2
  <2> QED
    BY <2>1, <2>2
<1> HIDE DEF g
<1>11. g[0] = <<>> /\ \A k \in 1..n : g[k] = Op(g[k - 1], o[k])
  <2>1. 0 \in 0..n
    BY <1>1
  <2> QED
    BY <1>1, <1>9, <2>1
<1>12. \A k \in 0..n : g[k] \in I[k]
  <2>1. \A k \in 1..n : g[k - 1] \in I[k - 1] => g[k] \in I[k]
    BY <1>6, <1>11
  <2>2. g[0] \in I[0]
    BY <1>5, <1>11
  <2> QED
    BY <1>1, <2>1, <2>2, StaysIn
<1>13. At(n, g[n])
  <2>1. n \in 0..n
    BY <1>1
  <2> QED
    BY <1>4, <1>12, <2>1
<1>14. Seen(n) = 1..n
  BY <1>2
<1> HIDE DEF Seen
<1> QED
  BY <1>10, <1>13, <1>14 DEF At, n

-----------------------------------------------------------------------------
(* The dictionary that is built of a list.                                    *)

\* The words a dictionary was made of, and what it holds.
IsDict(d, words, S) ==
  /\ IsFullTrie(d, words, S) /\ Complete(words) /\ IsList(d, words)
  /\ d.top = TopOf(words) /\ d.num = Len(words)
  /\ \A k \in 1..Len(words) : Len(words[k].spl) = Len(words[k].text)

LEMMA ListsOfWords ==
  ASSUME NEW S \in WordLists
  PROVE  /\ S \in SUBSET RawLine /\ IsFiniteSet(S) /\ S # {}
         /\ \A e \in S : ~Discarded(e) /\ Len(e.spl) >= Len(e.text)
<1>1. PICK file \in RawFiles \cup Again : S = Kept(file)
  BY DEF WordLists
<1>2. file \in Seq(RawLine)
  BY DictAssumption DEF RawLine, FullIds
<1>3. Len(file) \in Nat /\ DOMAIN file = 1..Len(file) /\ \A i \in 1..Len(file) : file[i] \in RawLine
  BY <1>2, LenProperties
<1>4. IsFiniteSet(1..Len(file))
  <2>1. 1 \in Int /\ Len(file) \in Int
    BY <1>3
  <2> QED
    BY <2>1, FS_Interval
<1>5. IsFiniteSet(ToSet(file)) /\ ToSet(file) \subseteq RawLine
  <2> DEFINE D == 1..Len(file)
             T == ToSet(file)
  <2>1. file \in [D -> T] /\ (\A t \in T : \E x \in D : file[x] = t) /\ T \subseteq RawLine
    <3>1. file = [k \in D |-> file[k]]
      BY <1>2, LenProperties
    <3> QED
      BY <1>3, <3>1 DEF ToSet
  <2> HIDE DEF D, T
  <2>2. IsFiniteSet(D)
    BY <1>4 DEF D
  <2>3. IsFiniteSet(T)
    BY <2>1, <2>2, ReachedIsFinite
  <2> QED
    BY <2>1, <2>3 DEF T
<1>6. S \subseteq ToSet(file) /\ \A e \in S : ~Discarded(e)
  BY <1>1 DEF Kept
<1>7. IsFiniteSet(S)
  BY <1>5, <1>6, FS_Subset
<1> QED
  BY <1>5, <1>6, <1>7 DEF WordLists

LEMMA DictIs ==
  ASSUME ListsAreComplete, NEW S \in WordLists
  PROVE  IsDict(Arrange(InOrder(S, ByHanzi), NodesOf(InOrder(S, ByHanzi)), ByPinyinOrder(InOrder(S, ByHanzi))), InOrder(S, ByHanzi), S)
<1> DEFINE words == InOrder(S, ByHanzi)
           d == Arrange(words, NodesOf(words), ByPinyinOrder(words))
<1>1. /\ S \in SUBSET RawLine /\ IsFiniteSet(S) /\ S # {}
      /\ \A e \in S : ~Discarded(e) /\ Len(e.spl) >= Len(e.text)
  BY ListsOfWords
<1>2. /\ NoTwins(S) /\ \A id \in FullIds : \E e \in S : e.spl[1] = id
      /\ \A e \in S : \A n \in 1..Len(e.text) : \E f \in S : Len(f.text) = n
  BY DEF ListsAreComplete, NoTwins
<1>3. IsWords(words, S)
  <2>1. Lists(words, S) /\ \A i, j \in 1..Len(words) : i < j => ByHanzi(words[i], words[j])
    BY <1>1, <1>2, EnteredSorts
  <2> HIDE DEF words
  <2> QED
    BY <1>1, <1>2, <2>1 DEF IsWords
<1>4. d.top = TopOf(words) /\ d.num = Len(words)
  <2> HIDE DEF words
  <2> QED
    BY DEF Arrange
<1>5. IsList(d, words)
  BY ArrangedIsList
<1> HIDE DEF words, d
<1>7. /\ Len(words) \in Nat /\ words # <<>> /\ (\A k \in 1..Len(words) : words[k] \in S /\ words[k] \in RawLine)
      /\ \A e \in S : \E k \in 1..Len(words) : words[k] = e
  <2>1. Lists(words, S)
    BY <1>3 DEF IsWords
  <2>2. (words = <<>> <=> S = {}) /\ \A e \in S : \E k \in 1..Len(words) : words[k] = e
    BY <2>1, ListsAll DEF Lists
  <2> QED
    BY <1>1, <1>3, <2>2, WordsAre
<1>8. \A k \in 1..Len(words) : Len(words[k].spl) = Len(words[k].text) /\ LengthAt(words, k) <= MaxChars
  <2> SUFFICES ASSUME NEW k \in 1..Len(words)
               PROVE  Len(words[k].spl) = Len(words[k].text) /\ LengthAt(words, k) <= MaxChars
    OBVIOUS
  <2> DEFINE w == words[k]
  <2>1. w \in S /\ w \in RawLine
    BY <1>7
  <2>2. ~(Len(w.text) > MaxChars) /\ ~(Len(w.spl) > Len(w.text)) /\ Len(w.spl) >= Len(w.text)
    BY <1>1, <2>1 DEF Discarded
  <2>3. Len(w.spl) \in Nat /\ Len(w.text) \in Nat /\ MaxChars \in Nat
    BY <2>1, LineIs, DictAssumption
  <2> QED
    BY <2>2, <2>3 DEF LengthAt
<1>6. IsTrie(d, words)
  <2>1. ASSUME NEW k \in 1..Len(words) PROVE words[k].spl # <<>>
    <3>1. Len(words[k].spl) = Len(words[k].text) /\ Len(words[k].text) > 0
      BY <1>7, <1>8, LineIs
    <3>2. Len(<<>>) = 0
      OBVIOUS
    <3> QED
      BY <3>1, <3>2
  <2> QED
    BY <1>3, <2>1, ArrangedIsTrie DEF d
<1>9. Complete(words)
  <2>1. ASSUME NEW k \in 1..Len(words), NEW n \in 1..LengthAt(words, k) PROVE OfLength(words, n) # {}
    <3>1. words[k] \in S /\ n \in 1..Len(words[k].text)
      BY <1>7 DEF LengthAt
    <3>2. PICK f \in S : Len(f.text) = n
      BY <1>2, <3>1
    <3>3. PICK j \in 1..Len(words) : words[j] = f
      BY <1>7
    <3> QED
      BY <3>2, <3>3 DEF OfLength, LengthAt
  <2> QED
    BY <1>7, <1>8, <2>1 DEF Complete
<1>10. <<>> \in NodesOf(words)
  BY <1>3, <1>7, NodesAre
<1>11. SonIds(words, <<>>) = FullIds
  <2>1. ASSUME NEW id \in FullIds PROVE Append(<<>>, id) \in NodesOf(words)
    <3>1. PICK e \in S : e.spl[1] = id
      BY <1>2
    <3>2. PICK k \in 1..Len(words) : words[k] = e
      BY <1>7
    <3>3. Len(e.spl) \in Nat /\ Len(e.spl) >= 1
      <4>1. Len(e.spl) = Len(e.text) /\ e \in RawLine
        BY <1>7, <1>8, <3>2
      <4> QED
        BY <4>1, LineIs
    <3> DEFINE p == Append(<<>>, id)
    <3>4. p \in Seq(FullIds) /\ Len(p) = 1 /\ p[1] = id
      OBVIOUS
    <3>5. Agree(p, e.spl, 1)
      BY <3>1, <3>3, <3>4 DEF Agree
    <3> HIDE DEF p
    <3>6. p \in Seq(FullIds) /\ \E i \in 1..Len(words) : Agree(p, words[i].spl, Len(p))
      BY <3>2, <3>4, <3>5
    <3>7. p \in NodesOf(words)
      BY <1>3, <3>6, NodeIs
    <3> QED
      BY <3>7 DEF p
  <2> QED
    BY <2>1 DEF SonIds
<1>12. IsFullTrie(d, words, S)
  BY <1>3, <1>6, <1>10, <1>11 DEF IsFullTrie
<1>13. IsDict(d, words, S)
  BY <1>4, <1>5, <1>8, <1>9, <1>12 DEF IsDict
<1> QED
  BY <1>13 DEF d, words

\* The dictionary in the builder's hands is what was entered, arranged.
BuiltIsDict ==
  built # NoDict => IsDict(built, Entered, ToSet(entries)) /\ ToSet(entries) \in WordLists

LEMMA LookupHolds == ASSUME RoomToWalk, BuiltIsDict PROVE LookupIsExact
<1> SUFFICES ASSUME built # NoDict, NEW q \in IdQueries
             PROVE  LET found == TrieLpis(built, q, MaxLpi)
                    IN  ToSet(found) = Wanted(Entered, q) /\ Unique(found)
  BY DEF LookupIsExact
<1> DEFINE S == ToSet(entries)
           found == TrieLpis(built, q, MaxLpi)
<1>1. IsFullTrie(built, Entered, S) /\ S \in WordLists
  BY DEF BuiltIsDict, IsDict
<1>2. q \in Seq(Ids) /\ Len(q) > 0
  BY QueriesAre
<1>3. Cardinality(Wanted(Entered, q)) <= MaxLpi /\ HasBuffer(Entered, q)
  <2>1. Cardinality(Wanted(Entered, q)) <= MaxLpi
    BY <1>1 DEF RoomToWalk, Entered
  <2> QED
    BY <1>1, <2>1, QueriesHaveBuffer DEF Entered
<1>4. Lists(found, Wanted(Entered, q))
  BY <1>1, <1>2, <1>3, LookupFinds
<1> HIDE DEF found
<1>5. ToSet(found) = Wanted(Entered, q) /\ Unique(found)
  BY <1>4, ListsAll
<1> QED
  BY <1>5 DEF found

LEMMA StepsHold == ASSUME RoomToWalk, BuiltIsDict PROVE StepsFindTheSame
<1> SUFFICES ASSUME built # NoDict, NEW q \in IdQueries
             PROVE  LET m == Extend(built, q)
                    IN  /\ ToSet(m.lpis) = Wanted(Entered, q) /\ Unique(m.lpis)
                        /\ (m.marks # <<>>) = \E w \in ToSet(Entered) :
                              Len(w.spl) >= Len(q) /\ Matching(q, SubSeq(w.spl, 1, Len(q)))
  BY DEF StepsFindTheSame
<1> DEFINE S == ToSet(entries)
           m == Extend(built, q)
<1>1. IsFullTrie(built, Entered, S) /\ S \in WordLists
  BY DEF BuiltIsDict, IsDict
<1>2. q \in Seq(Ids) /\ Len(q) > 0
  BY QueriesAre
<1>3. HasRoom(Entered, q)
  BY <1>1, QueriesHaveRoom DEF Entered
<1>4. /\ Lists(m.lpis, Wanted(Entered, q))
      /\ m.marks # <<>> <=> \E w \in ToSet(Entered) :
            Len(w.spl) >= Len(q) /\ Matching(q, SubSeq(w.spl, 1, Len(q)))
  BY <1>1, <1>2, <1>3, StepsFind
<1> HIDE DEF m
<1>5. ToSet(m.lpis) = Wanted(Entered, q) /\ Unique(m.lpis)
  BY <1>4, ListsAll
<1> QED
  BY <1>4, <1>5 DEF m

LEMMA ListHolds == ASSUME BuiltIsDict PROVE ListIsExact
<1> SUFFICES ASSUME built # NoDict, NEW k \in 1..Len(Entered) - 1
             PROVE  LET w == Entered[k]
                        known == {[i \in 1..Len(w.spl) |-> IF i \in I THEN HalfOf[w.spl[i]] ELSE w.spl[i]]
                                    : I \in SUBSET (1..Len(w.spl))}
                    IN  /\ GetLemmaStr(built, k) = w.text
                        /\ IF w.text = Entered[1].text THEN GetLemmaId(built, w.text) = Aborts
                           ELSE Entered[GetLemmaId(built, w.text)].text = w.text
                        /\ \A ids \in known : GetLemmaSplids(built, k, ids) = {w.spl}
  BY DEF ListIsExact
<1> DEFINE S == ToSet(entries)
           words == Entered
           w == words[k]
<1>1. /\ IsWords(words, S) /\ IsTrie(built, words) /\ Complete(words) /\ IsList(built, words)
      /\ \A j \in 1..Len(words) : Len(words[j].spl) = Len(words[j].text)
  BY DEF BuiltIsDict, IsDict, IsFullTrie
<1> HIDE DEF words
<1>2. Len(words) \in Nat
  BY <1>1, WordsAre
<1>3. k \in 1..Len(words) /\ k < Len(words)
  BY <1>2 DEF words
<1>4. GetLemmaStr(built, k) = w.text
  BY <1>1, <1>3, StringIs
<1>5. IF w.text = words[1].text THEN GetLemmaId(built, w.text) = Aborts
      ELSE words[GetLemmaId(built, w.text)].text = w.text
  BY <1>1, <1>3, IdIs
<1>6. ASSUME NEW I \in SUBSET (1..Len(w.spl))
      PROVE  GetLemmaSplids(built, k, [i \in 1..Len(w.spl) |-> IF i \in I THEN HalfOf[w.spl[i]] ELSE w.spl[i]]) = {w.spl}
  <2> DEFINE ids == [i \in 1..Len(words[k].spl) |-> IF i \in I THEN HalfOf[words[k].spl[i]] ELSE words[k].spl[i]]
  <2>1. \A i \in 1..Len(words[k].spl) : ids[i] = words[k].spl[i] \/ ids[i] = HalfOf[words[k].spl[i]]
    OBVIOUS
  <2>2. Len(words[k].spl) = Len(words[k].text)
    BY <1>1, <1>3
  <2> HIDE DEF ids, S
  <2>4. /\ IsWords(words, S) /\ Complete(words) /\ IsTrie(built, words) /\ IsList(built, words)
        /\ k \in 1..Len(words) /\ k < Len(words) /\ Len(words[k].spl) = Len(words[k].text)
        /\ \A i \in 1..Len(words[k].spl) : ids[i] = words[k].spl[i] \/ ids[i] = HalfOf[words[k].spl[i]]
    BY <1>1, <1>3, <2>1, <2>2
  <2>3. GetLemmaSplids(built, k, ids) = {words[k].spl}
    BY <2>4, SplidsAre
  <2> QED
    BY <2>3 DEF ids
<1> QED
  BY <1>4, <1>5, <1>6 DEF words

LEMMA PredictionHolds == ASSUME BuiltIsDict PROVE PredictionIsExact
<1> SUFFICES ASSUME built # NoDict, NEW w \in ToSet(Entered), NEW n \in 1..MaxChars - 1, n < Len(w.text)
             PROVE  PredictLemmas(built, SubSeq(w.text, 1, n)) =
                      {[hzs |-> SubSeq(v.text, n + 1, Len(v.text)), psb |-> v.freq]
                         : v \in {v \in ToSet(Entered) : Len(v.text) > n /\ IsPrefix(SubSeq(w.text, 1, n), v.text)}}
  BY DEF PredictionIsExact
<1> DEFINE S == ToSet(entries)
           words == Entered
           hzs == SubSeq(w.text, 1, n)
<1>1. IsWords(words, S) /\ Complete(words) /\ IsList(built, words)
  BY DEF BuiltIsDict, IsDict, IsFullTrie
<1> HIDE DEF words
<1>2. w \in RawLine
  <2>1. Lists(words, S) /\ S \subseteq RawLine
    BY <1>1 DEF IsWords
  <2>2. ToSet(words) = S
    BY <2>1, ListsAll
  <2> QED
    BY <2>1, <2>2 DEF words
<1>3. n \in Nat /\ n <= Len(w.text)
  <2>1. n \in Nat /\ Len(w.text) \in Nat
    BY <1>2, LineIs, DictAssumption
  <2> QED
    BY <2>1
<1>4. Len(hzs) = n
  <2>1. w.text \in Seq(Int)
    BY <1>2, LineIs
  <2> QED
    BY <1>3, <2>1, BeginIs
<1> HIDE DEF hzs
<1>5. PredictLemmas(built, hzs) = Predicted(words, hzs, n)
  BY <1>1, <1>3, <1>4, PredictionIs
<1> QED
  BY Zenon, <1>5 DEF hzs, words, Predicted

LEMMA TopHolds == ASSUME BuiltIsDict PROVE TopBeginsBest
<1> DEFINE S == ToSet(entries)
           words == Entered
           n == Len(words)
           top == built.top
           fr(i) == built.freq[top[i]]
<1> SUFFICES ASSUME built # NoDict
             PROVE  /\ Len(top) = Min({TopLemmas, built.num}) /\ Unique(top)
                    /\ \A k \in 1..built.num : fr(1) >= built.freq[k]
                    /\ \A i, j \in 1..Len(top) : i < j /\ (j < TopLemmas \/ built.num <= TopLemmas) => fr(i) >= fr(j)
  BY Zenon DEF TopBeginsBest
<1>1. IsWords(words, S) /\ IsList(built, words) /\ top = TopOf(words) /\ built.num = n
  BY DEF BuiltIsDict, IsDict, IsFullTrie
<1> HIDE DEF words
<1>2. Best(words, top, 1..n, n)
  BY <1>1, TopOfIs
<1>3. n \in Nat /\ TopLemmas \in Nat
  BY <1>1, WordsAre, DictAssumption
<1>4. \A k \in 1..n : built.freq[k] = FreqOf(words, k)
  BY <1>1 DEF IsList, FreqOf
<1> HIDE DEF n, top
<1>5. /\ top \in Seq(Nat) /\ (\A i \in 1..Len(top) : top[i] \in 1..n)
      /\ (\A i, j \in 1..Len(top) : top[i] = top[j] => i = j)
      /\ Len(top) = IF n <= TopLemmas THEN n ELSE TopLemmas
      /\ (n <= TopLemmas => Sorted(words, top, Len(top))) /\ Sorted(words, top, Len(top) - 1)
      /\ \A x \in 1..n : Len(top) > 0 /\ FreqOf(words, top[1]) >= FreqOf(words, x)
  BY <1>2 DEF Best
<1>6. Len(top) = Min({TopLemmas, n})
  <2>1. Min({TopLemmas, n}) = IF TopLemmas <= n THEN TopLemmas ELSE n
    BY <1>3, MinOfTwo
  <2> QED
    BY <1>3, <1>5, <2>1
<1>7. Len(top) \in Nat /\ DOMAIN top = 1..Len(top) /\ Len(top) <= TopLemmas
  <2>1. Len(top) \in Nat /\ DOMAIN top = 1..Len(top)
    BY <1>5, LenProperties
  <2> QED
    BY <1>3, <1>5, <2>1
<1>8. \A x : x \in ToSet(top) <=> \E i \in 1..Len(top) : top[i] = x
  BY <1>7 DEF ToSet
<1>9. Lists(top, ToSet(top))
  <2> DEFINE T == ToSet(top)
  <2>1. \A i \in 1..Len(top) : top[i] \in T
    BY <1>8
  <2>2. \A x \in T : \E i \in 1..Len(top) : top[i] = x
    BY <1>8
  <2> HIDE DEF T
  <2>3. top \in Seq(T)
    <3>1. [i \in 1..Len(top) |-> top[i]] \in Seq(T)
      BY <1>7, <2>1, IsASeq
    <3>2. top = [i \in 1..Len(top) |-> top[i]]
      BY <1>5, LenProperties
    <3> QED
      BY <3>1, <3>2
  <2> QED
    BY <1>5, <2>2, <2>3 DEF Lists, T
<1>10. Unique(top)
  BY <1>9, ListsAll
<1>11. \A i \in 1..Len(top) : fr(i) = FreqOf(words, top[i])
  BY <1>4, <1>5
<1> HIDE DEF fr
<1>12. ASSUME NEW k \in 1..n PROVE fr(1) >= built.freq[k]
  <2>1. Len(top) > 0 /\ FreqOf(words, top[1]) >= FreqOf(words, k)
    BY <1>5
  <2>2. 1 \in 1..Len(top)
    BY <1>7, <2>1
  <2> QED
    BY <1>4, <1>11, <2>1, <2>2
<1>13. ASSUME NEW i \in 1..Len(top), NEW j \in 1..Len(top), i < j, j < TopLemmas \/ n <= TopLemmas
       PROVE  fr(i) >= fr(j)
  <2>1. i <= j /\ i \in Nat /\ j \in Nat
    BY <1>7, <1>13
  <2>2. CASE n <= TopLemmas
    BY <1>5, <1>11, <2>1, <2>2 DEF Sorted
  <2>3. CASE ~(n <= TopLemmas)
    <3>1. Len(top) = TopLemmas
      BY <1>5, <2>3
    <3>2. i \in 1..Len(top) - 1 /\ j \in 1..Len(top) - 1
      BY <1>3, <1>7, <1>13, <2>1, <2>3, <3>1
    <3> QED
      BY <1>5, <1>11, <2>1, <3>2 DEF Sorted
  <2> QED
    BY <2>2, <2>3
<1> QED
  BY <1>1, <1>6, <1>10, <1>12, <1>13 DEF top

-----------------------------------------------------------------------------
(* Reading and building.                                                      *)

\* The dictionary made of a list.
Made(S) == Arrange(InOrder(S, ByHanzi), NodesOf(InOrder(S, ByHanzi)), ByPinyinOrder(InOrder(S, ByHanzi)))

\* What is entered and what is left to read are the lines kept of one file, and
\* the dictionary in the builder's hands is made of what was entered.
OfOneFile ==
  \/ lines = <<>> /\ entries = <<>>
  \/ \E file \in RawFiles \cup Again : ToSet(entries) \cup Kept(lines) = Kept(file)
BuildInv ==
  /\ lines \in Seq(RawLine) /\ entries \in Seq(RawLine) /\ OfOneFile
  /\ \A e \in ToSet(entries) : Len(e.spl) >= Len(e.text)
  /\ built # NoDict => lines = <<>> /\ entries # <<>> /\ built = Arrange(Entered, NodesOf(Entered), ByPinyinOrder(Entered))

LEMMA ToSetOfAppend ==
  ASSUME NEW T, NEW s \in Seq(T), NEW e \in T
  PROVE  ToSet(Append(s, e)) = ToSet(s) \cup {e}
<1> DEFINE n == Len(s)
           t == Append(s, e)
<1>1. n \in Nat /\ DOMAIN s = 1..n /\ DOMAIN t = 1..n + 1 /\ t[n + 1] = e /\ \A i \in 1..n : t[i] = s[i]
  <2>1. t \in Seq(T) /\ Len(t) = n + 1 /\ t[n + 1] = e /\ n \in Nat /\ DOMAIN s = 1..n
    BY AppendProperties, LenProperties
  <2>2. \A i \in 1..n : t[i] = s[i]
    BY AppendProperties
  <2>3. DOMAIN t = 1..Len(t)
    BY <2>1, LenProperties
  <2> HIDE DEF t, n
  <2> QED
    BY <2>1, <2>2, <2>3
<1> HIDE DEF t, n
<1>2. \A i \in 1..n + 1 : i \in 1..n \/ i = n + 1
  BY <1>1
<1>3. n + 1 \in 1..n + 1 /\ \A i \in 1..n : i \in 1..n + 1
  BY <1>1
<1>4. ToSet(t) = ToSet(s) \cup {e}
  <2>1. \A x : x \in ToSet(t) <=> \E i \in 1..n + 1 : t[i] = x
    BY <1>1 DEF ToSet
  <2>2. \A x : x \in ToSet(s) <=> \E i \in 1..n : s[i] = x
    BY <1>1 DEF ToSet
  <2> QED
    BY <1>1, <1>2, <1>3, <2>1, <2>2
<1> QED
  BY <1>4 DEF t

LEMMA ToSetOfTail ==
  ASSUME NEW T, NEW s \in Seq(T), s # <<>>
  PROVE  ToSet(s) = ToSet(Tail(s)) \cup {Head(s)}
<1> DEFINE n == Len(s)
           t == Tail(s)
<1>1. n \in Nat /\ n >= 1 /\ DOMAIN s = 1..n /\ Head(s) = s[1]
  <2>1. n \in Nat /\ n # 0 /\ DOMAIN s = 1..n
    BY LenProperties, EmptySeq
  <2> QED
    BY <2>1
<1>2. DOMAIN t = 1..n - 1 /\ \A i \in 1..n - 1 : t[i] = s[i + 1]
  <2>1. t \in Seq(T) /\ Len(t) = n - 1 /\ \A i \in 1..Len(t) : t[i] = s[i + 1]
    BY HeadTailProperties
  <2>2. DOMAIN t = 1..Len(t)
    BY <2>1, LenProperties
  <2> HIDE DEF t, n
  <2> QED
    BY <2>1, <2>2
<1> HIDE DEF t, n
<1>3. \A x : x \in ToSet(t) <=> \E i \in 1..n - 1 : t[i] = x
  BY <1>2 DEF ToSet
<1>4. \A x : x \in ToSet(s) <=> \E i \in 1..n : s[i] = x
  BY <1>1 DEF ToSet
<1>5. ASSUME NEW x \in ToSet(s), x # s[1] PROVE x \in ToSet(t)
  <2>1. PICK i \in 1..n : s[i] = x
    BY <1>4
  <2> DEFINE j == i - 1
  <2>2. j \in 1..n - 1 /\ j + 1 = i
    BY <1>1, <1>5, <2>1
  <2> HIDE DEF j
  <2>3. t[j] = x
    BY <1>2, <2>1, <2>2
  <2> QED
    BY <1>3, <2>2, <2>3
<1>6. \A i \in 1..n - 1 : i + 1 \in 1..n
  BY <1>1
<1>7. \A x \in ToSet(t) : x \in ToSet(s)
  BY <1>2, <1>3, <1>4, <1>6
<1>8. 1 \in 1..n /\ s[1] \in ToSet(s)
  BY <1>1, <1>4
<1> QED
  BY <1>1, <1>5, <1>7, <1>8 DEF t

LEMMA BuildStart == DictInit => BuildInv
<1> SUFFICES ASSUME DictInit PROVE BuildInv
  OBVIOUS
<1>1. lines = <<>> /\ entries = <<>> /\ built = NoDict
  BY DEF DictInit
<1>2. ToSet(<<>>) = {} /\ <<>> \in Seq(RawLine)
  BY DEF ToSet
<1> QED
  BY <1>1, <1>2 DEF BuildInv, OfOneFile

LEMMA ReadRawDictKeeps == ASSUME BuildInv, ReadRawDict PROVE BuildInv'
<1>1. entries = <<>> /\ entries' = <<>> /\ built' = NoDict /\ lines' \in RawFiles \cup Again
  BY DEF ReadRawDict
<1>2. lines' \in Seq(RawLine) /\ <<>> \in Seq(RawLine)
  <2>1. RawFiles \cup Again \subseteq Seq(RawLine)
    BY DictAssumption DEF RawLine, FullIds
  <2>2. <<>> \in Seq(RawLine)
    OBVIOUS
  <2> QED
    BY <1>1, <2>1, <2>2
<1>3. ToSet(<<>>) = {}
  BY DEF ToSet
<1>4. ToSet(entries') \cup Kept(lines') = Kept(lines')
  BY <1>1, <1>3
<1>5. OfOneFile'
  BY <1>1, <1>4 DEF OfOneFile
<1>6. \A e \in ToSet(entries') : Len(e.spl) >= Len(e.text)
  BY <1>1, <1>3
<1> QED
  BY <1>1, <1>2, <1>5, <1>6 DEF BuildInv

LEMMA ReadLineKeeps == ASSUME BuildInv, ReadLine PROVE BuildInv'
<1> DEFINE line == Head(lines)
<1>1. /\ lines # <<>> /\ built' = built
      /\ IF ~Discarded(line) /\ Len(line.spl) < Len(line.text)
         THEN lines' = <<>> /\ entries' = <<>>
         ELSE lines' = Tail(lines) /\ entries' = IF Discarded(line) THEN entries ELSE Append(entries, line)
  BY DEF ReadLine
<1>2. /\ lines \in Seq(RawLine) /\ entries \in Seq(RawLine) /\ built = NoDict
      /\ \A e \in ToSet(entries) : Len(e.spl) >= Len(e.text)
  BY <1>1 DEF BuildInv
<1>3. built' = NoDict
  BY <1>1, <1>2
<1>4. line \in RawLine /\ Tail(lines) \in Seq(RawLine)
  BY <1>1, <1>2, HeadTailProperties
<1>5. PICK file \in RawFiles \cup Again : ToSet(entries) \cup Kept(lines) = Kept(file)
  BY <1>1 DEF BuildInv, OfOneFile
<1>6. ToSet(lines) = ToSet(Tail(lines)) \cup {line}
  BY <1>1, <1>2, ToSetOfTail
<1>7. ToSet(<<>>) = {} /\ <<>> \in Seq(RawLine)
  BY DEF ToSet
<1> HIDE DEF line
<1>8. CASE ~Discarded(line) /\ Len(line.spl) < Len(line.text)
  <2>1. lines' = <<>> /\ entries' = <<>>
    BY <1>1, <1>8
  <2> QED
    BY <1>3, <1>7, <2>1 DEF BuildInv, OfOneFile
<1>9. CASE Discarded(line)
  <2>1. lines' = Tail(lines) /\ entries' = entries
    BY <1>1, <1>9
  <2>2. Kept(Tail(lines)) = Kept(lines)
    BY <1>6, <1>9 DEF Kept
  <2>3. ToSet(entries') \cup Kept(lines') = Kept(file)
    BY <1>5, <2>1, <2>2
  <2>4. OfOneFile'
    BY <2>3 DEF OfOneFile
  <2> QED
    BY <1>2, <1>3, <1>4, <2>1, <2>4 DEF BuildInv
<1>10. CASE ~Discarded(line) /\ ~(Len(line.spl) < Len(line.text))
  <2>1. lines' = Tail(lines) /\ entries' = Append(entries, line)
    BY <1>1, <1>10
  <2>2. Kept(lines) = Kept(Tail(lines)) \cup {line}
    BY <1>6, <1>10 DEF Kept
  <2>3. ToSet(Append(entries, line)) = ToSet(entries) \cup {line}
    BY <1>2, <1>4, ToSetOfAppend
  <2>4. ToSet(entries') \cup Kept(lines') = Kept(file)
    BY <1>5, <2>1, <2>2, <2>3
  <2>5. OfOneFile'
    BY <2>4 DEF OfOneFile
  <2>6. Append(entries, line) \in Seq(RawLine)
    BY <1>2, <1>4, AppendProperties
  <2>7. Len(line.spl) >= Len(line.text)
    <3>1. Len(line.spl) \in Nat /\ Len(line.text) \in Nat
      BY <1>4, LineIs
    <3> QED
      BY <1>10, <3>1
  <2>8. \A e \in ToSet(entries') : Len(e.spl) >= Len(e.text)
    BY <1>2, <2>1, <2>3, <2>7
  <2> QED
    BY <1>3, <1>4, <2>1, <2>5, <2>6, <2>8 DEF BuildInv
<1> QED
  BY <1>8, <1>9, <1>10

LEMMA BuildStep == BuildInv /\ [DictNext]_dictVars => BuildInv'
<1> SUFFICES ASSUME BuildInv, [DictNext]_dictVars PROVE BuildInv'
  OBVIOUS
<1>1. CASE ReadRawDict
  BY <1>1, ReadRawDictKeeps
<1>2. CASE ReadLine
  BY <1>2, ReadLineKeeps
<1>3. CASE BuildDict
  <2>1. /\ lines = <<>> /\ entries # <<>> /\ lines' = lines /\ entries' = entries
        /\ built' = Arrange(SortByHz(entries), NodesOf(SortByHz(entries)), ByPinyinOrder(SortByHz(entries)))
    BY <1>3 DEF BuildDict
  <2>2. Entered' = SortByHz(entries)
    BY <2>1 DEF Entered, SortByHz
  <2>3. OfOneFile'
    BY <2>1 DEF BuildInv, OfOneFile
  <2> QED
    BY <2>1, <2>2, <2>3 DEF BuildInv
<1>4. CASE SaveDict
  <2>1. lines' = <<>> /\ entries' = <<>> /\ built' = NoDict
    BY <1>4 DEF SaveDict, BuildInv
  <2>2. ToSet(<<>>) = {} /\ <<>> \in Seq(RawLine)
    BY DEF ToSet
  <2> QED
    BY <2>1, <2>2 DEF BuildInv, OfOneFile
<1>5. ASSUME lines' = lines, entries' = entries, built' = built PROVE BuildInv'
  BY <1>5 DEF BuildInv, OfOneFile, Entered
<1>6. CASE \E d \in saved, ends \in 0..Max(Sections) : LoadDict(d, ends)
  BY <1>5, <1>6 DEF LoadDict
<1>7. CASE \E id \in HalfIds : LookUpHalf(id)
  BY <1>5, <1>7 DEF LookUpHalf
<1>8. CASE UNCHANGED dictVars
  BY <1>5, <1>8 DEF dictVars
<1> QED
  BY <1>1, <1>2, <1>3, <1>4, <1>6, <1>7, <1>8 DEF DictNext

LEMMA EnteredIsAList ==
  ASSUME BuildInv, built # NoDict
  PROVE  ToSet(entries) \in WordLists /\ built = Made(ToSet(entries))
<1> DEFINE S == ToSet(entries)
<1>1. /\ lines = <<>> /\ entries # <<>> /\ built = Arrange(Entered, NodesOf(Entered), ByPinyinOrder(Entered))
      /\ entries \in Seq(RawLine) /\ \A e \in S : Len(e.spl) >= Len(e.text)
  BY DEF BuildInv
<1>2. PICK file \in RawFiles \cup Again : S \cup Kept(lines) = Kept(file)
  BY <1>1 DEF BuildInv, OfOneFile
<1>3. Kept(lines) = {}
  BY <1>1 DEF Kept, ToSet
<1>4. S # {}
  <2>1. DOMAIN entries = 1..Len(entries) /\ Len(entries) \in Nat \ {0}
    BY <1>1, LenProperties, EmptySeq
  <2>2. 1 \in DOMAIN entries
    BY <2>1
  <2> QED
    BY <2>2 DEF ToSet
<1>5. S \in WordLists
  <2> HIDE DEF S
  <2> QED
    BY <1>1, <1>2, <1>3, <1>4 DEF WordLists
<1>6. Entered = InOrder(S, ByHanzi)
  BY DEF Entered
<1> HIDE DEF S
<1> QED
  BY <1>1, <1>5, <1>6 DEF S, Made

LEMMA BuiltIs == ASSUME ListsAreComplete, BuildInv PROVE BuiltIsDict
<1> SUFFICES ASSUME built # NoDict PROVE IsDict(built, Entered, ToSet(entries)) /\ ToSet(entries) \in WordLists
  BY DEF BuiltIsDict
<1> DEFINE S == ToSet(entries)
<1>1. S \in WordLists /\ built = Made(S)
  BY EnteredIsAList
<1>2. Entered = InOrder(S, ByHanzi)
  BY DEF Entered
<1> HIDE DEF S
<1>3. IsDict(Made(S), InOrder(S, ByHanzi), S)
  BY <1>1, DictIs DEF Made
<1> QED
  BY <1>1, <1>2, <1>3 DEF S

\* SystemDict: whatever list is read, the dictionary that is built of it is that
\* list, each way it is looked at: the walks find the words that match (dicttrie.cpp),
\* the list has their strings and the string its word (dictlist.cpp), the
\* predictions are the rests of words, and the words on top begin with the best.
THEOREM DictionaryCorrect == ListsAreComplete /\ RoomToWalk => (DictSpec => []DictionaryIsExact)
<1>1. DictInit => BuildInv
  BY BuildStart
<1>2. BuildInv /\ [DictNext]_dictVars => BuildInv'
  BY BuildStep
<1>3. ASSUME ListsAreComplete, RoomToWalk PROVE BuildInv => DictionaryIsExact
  <2> SUFFICES ASSUME BuildInv PROVE DictionaryIsExact
    OBVIOUS
  <2>1. BuiltIsDict
    BY <1>3, BuiltIs
  <2> QED
    BY <1>3, <2>1, LookupHolds, StepsHold, ListHolds, PredictionHolds, TopHolds DEF DictionaryIsExact
<1>4. CASE ListsAreComplete /\ RoomToWalk
  <2>1. BuildInv => DictionaryIsExact
    BY <1>3, <1>4
  <2> QED
    BY <1>1, <1>2, <2>1, PTL DEF DictSpec
<1>5. CASE ~(ListsAreComplete /\ RoomToWalk)
  BY <1>5
<1> QED
  BY <1>4, <1>5

-----------------------------------------------------------------------------
(* Saving and loading.                                                        *)

\* What is saved was made of a list, and what is used was saved.
SavedInv ==
  /\ \A d \in saved : \E S \in WordLists : d = Made(S)
  /\ memory.usable => memory.has[2] \in saved /\ memory.has[3] = memory.has[2]

LEMMA SavedStep == BuildInv /\ SavedInv /\ [DictNext]_dictVars => SavedInv'
<1> SUFFICES ASSUME BuildInv, SavedInv, [DictNext]_dictVars PROVE SavedInv'
  OBVIOUS
<1>1. CASE SaveDict
  <2>1. built # NoDict /\ saved' = saved \cup {built} /\ memory' = memory
    BY <1>1 DEF SaveDict
  <2>2. \E S \in WordLists : built = Made(S)
    BY <2>1, EnteredIsAList
  <2> QED
    BY <2>1, <2>2 DEF SavedInv
<1>2. ASSUME saved' = saved, memory' = memory PROVE SavedInv'
  BY <1>2 DEF SavedInv
<1>3. CASE ReadRawDict \/ ReadLine \/ BuildDict
  BY <1>2, <1>3 DEF ReadRawDict, ReadLine, BuildDict
<1>4. ASSUME NEW d \in saved, NEW ends \in 0..Max(Sections), LoadDict(d, ends) PROVE SavedInv'
  <2> DEFINE ok == ends = Max(Sections) /\ d.num <= IdRange
             now == [s \in Sections |-> IF s <= ends THEN d ELSE memory.has[s]]
             has == IF ok THEN now ELSE [now EXCEPT ![2] = NoDict, ![3] = NoDict]
  <2>1. saved' = saved /\ memory' = [usable |-> ok, has |-> has]
    BY <1>4 DEF LoadDict
  <2>2. ok => now[2] = d /\ now[3] = d
    BY LastSection DEF Sections
  <2> HIDE DEF now, ok
  <2>3. memory'.usable = ok /\ (ok => memory'.has[2] = d /\ memory'.has[3] = d)
    BY <2>1, <2>2
  <2> QED
    BY <2>1, <2>3 DEF SavedInv
<1>5. CASE \E id \in HalfIds : LookUpHalf(id)
  BY <1>2, <1>5 DEF LookUpHalf
<1>6. CASE UNCHANGED dictVars
  BY <1>2, <1>6 DEF dictVars
<1> QED
  BY <1>1, <1>3, <1>4, <1>5, <1>6 DEF DictNext

\* What a dictionary finds, each way, and what its list says of a word.
FindsTheWords(d, words) ==
  \A q \in IdQueries : /\ ToSet(TrieLpis(d, q, MaxLpi)) = Wanted(words, q)
                       /\ ToSet(Extend(d, q).lpis) = Wanted(words, q)
NamesTheWords(d, words) == \A k \in 1..Len(words) - 1 : GetLemmaStr(d, k) = words[k].text

LEMMA MadeIsExact ==
  ASSUME ListsAreComplete, RoomToWalk, NEW S \in WordLists
  PROVE  FindsTheWords(Made(S), InOrder(S, ByHanzi)) /\ NamesTheWords(Made(S), InOrder(S, ByHanzi))
<1> DEFINE words == InOrder(S, ByHanzi)
           d == Made(S)
<1>1. IsDict(d, words, S)
  BY DictIs DEF Made
<1>2. \A q \in IdQueries : Cardinality(Wanted(words, q)) <= MaxLpi
  BY DEF RoomToWalk
<1>3. \A q \in IdQueries : HasRoom(words, q) /\ HasBuffer(words, q)
  BY QueriesHaveRoom, QueriesHaveBuffer
<1> HIDE DEF words, d
<1>4. IsFullTrie(d, words, S) /\ IsWords(words, S) /\ Complete(words) /\ IsList(d, words)
  BY <1>1 DEF IsDict, IsFullTrie
<1>5. ASSUME NEW q \in IdQueries
      PROVE  ToSet(TrieLpis(d, q, MaxLpi)) = Wanted(words, q) /\ ToSet(Extend(d, q).lpis) = Wanted(words, q)
  <2>1. q \in Seq(Ids) /\ Len(q) > 0
    BY QueriesAre
  <2>2. Cardinality(Wanted(words, q)) <= MaxLpi /\ HasRoom(words, q) /\ HasBuffer(words, q)
    BY <1>2, <1>3
  <2>3. Lists(TrieLpis(d, q, MaxLpi), Wanted(words, q))
    BY <1>4, <2>1, <2>2, LookupFinds
  <2>4. Lists(Extend(d, q).lpis, Wanted(words, q))
    BY <1>4, <2>1, <2>2, StepsFind
  <2> QED
    BY <2>3, <2>4, ListsAll
<1>6. ASSUME NEW k \in 1..Len(words) - 1 PROVE GetLemmaStr(d, k) = words[k].text
  <2>1. Len(words) \in Nat
    BY <1>4, WordsAre
  <2>2. k \in 1..Len(words) /\ k < Len(words)
    BY <2>1
  <2> QED
    BY <1>4, <2>2, StringIs
<1>7. FindsTheWords(d, words) /\ NamesTheWords(d, words)
  BY <1>5, <1>6 DEF FindsTheWords, NamesTheWords
<1> QED
  BY <1>7 DEF d, words

\* SystemDict: what was read, built, saved and loaded again is used as it was read:
\* in a dictionary that may be used (dicttrie.cpp:168), the trie finds the words of
\* some list that was read, and the list beside it has the strings of the same words.
LoadedIsExact ==
  memory.usable => \E S \in WordLists : LET words == InOrder(S, ByHanzi)
                                        IN  FindsTheWords(memory.has[3], words) /\ NamesTheWords(memory.has[2], words)

\* SystemDict: LoadedIsExact, whichever loads have failed before, whether or not
\* the program loads one file only.
THEOREM LoadedCorrect == ListsAreComplete /\ RoomToWalk => (DictSpec => []LoadedIsExact)
<1>1. DictInit => BuildInv /\ SavedInv
  <2>1. DictInit => SavedInv
    BY DEF DictInit, SavedInv
  <2> QED
    BY <2>1, BuildStart
<1>2. BuildInv /\ SavedInv /\ [DictNext]_dictVars => (BuildInv /\ SavedInv)'
  <2>1. BuildInv /\ SavedInv /\ [DictNext]_dictVars => BuildInv' /\ SavedInv'
    BY BuildStep, SavedStep
  <2> QED
    BY <2>1
<1>3. ASSUME ListsAreComplete, RoomToWalk PROVE SavedInv => LoadedIsExact
  <2> SUFFICES ASSUME SavedInv, memory.usable PROVE LoadedIsExact
    BY DEF LoadedIsExact
  <2>1. PICK S \in WordLists : memory.has[2] = Made(S) /\ memory.has[3] = Made(S)
    BY DEF SavedInv
  <2>2. FindsTheWords(Made(S), InOrder(S, ByHanzi)) /\ NamesTheWords(Made(S), InOrder(S, ByHanzi))
    BY <1>3, MadeIsExact
  <2> QED
    BY <2>1, <2>2 DEF LoadedIsExact
<1>4. CASE ListsAreComplete /\ RoomToWalk
  <2>1. SavedInv => LoadedIsExact
    BY <1>3, <1>4
  <2> QED
    BY <1>1, <1>2, <2>1, PTL DEF DictSpec
<1>5. CASE ~(ListsAreComplete /\ RoomToWalk)
  BY <1>5
<1> QED
  BY <1>4, <1>5
=============================================================================
