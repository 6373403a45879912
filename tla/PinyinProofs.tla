----------------------------- MODULE PinyinProofs -----------------------------
(* Proofs about parts of the Pinyin engine: the hash table of spellings holds  *)
(* what was put into it, the half ids stand for ranges of the sorted array, and *)
(* the parser cuts a string into pieces that begin the spellings it returns;    *)
(* the reader of lines; the codes of frequencies.                               *)
EXTENDS SpellingTable, TextReader, Codebook, NumberProofs, SequenceTheorems, FiniteSetTheorems, TLAPS

LOCAL INSTANCE SequencesExt
LOCAL INSTANCE FiniteSetsExt

LEMMA MinIs ==
  ASSUME NEW S \in SUBSET Nat, S # {}
  PROVE  Min(S) \in S /\ \A y \in S : Min(S) <= y
  BY LeastExists DEF Min

LEMMA MaxIs ==
  ASSUME NEW S \in SUBSET Nat, S # {}, NEW n \in Nat, \A x \in S : x <= n
  PROVE  Max(S) \in S /\ \A y \in S : Max(S) >= y
<1>1. PICK x \in S : \A y \in S : y <= x
  BY GreatestExists
<1>2. \A y \in S : x >= y
  BY <1>1
<1> QED
  BY <1>2 DEF Max

-----------------------------------------------------------------------------
(* The order of the spellings.                                                *)

\* A letter has its place in the alphabet.
LEMMA CodeIs ==
  ASSUME NEW c \in Letters
  PROVE  /\ Code(c) \in 1..Len(Alphabet) /\ Alphabet[Code(c)] = c
         /\ Code(c) \in Nat
<1>1. \E k \in 1..Len(Alphabet) : Alphabet[k] = c
  BY SpellingAssumption DEF Letters, ToSet
<1>2. Code(c) \in 1..Len(Alphabet) /\ Alphabet[Code(c)] = c
  BY <1>1 DEF Code
<1>3. Len(Alphabet) \in Nat
  BY SpellingAssumption
<1> QED
  BY <1>2, <1>3

LEMMA CodesDiffer ==
  ASSUME NEW c \in Letters, NEW d \in Letters, c # d
  PROVE  Code(c) < Code(d) \/ Code(d) < Code(c)
<1>1. Code(c) # Code(d)
  BY CodeIs
<1> QED
  BY <1>1, CodeIs

\* Two words agree in their first n letters.
Agree(s, t, n) == n <= Len(s) /\ n <= Len(t) /\ \A i \in 1..n : s[i] = t[i]

LEMMA SameStart ==
  ASSUME NEW s \in Words, NEW t \in Words, NEW n \in Nat
  PROVE  n <= Len(s) /\ n <= Len(t) => (SubSeq(s, 1, n) = SubSeq(t, 1, n) <=> Agree(s, t, n))
<1> SUFFICES ASSUME n <= Len(s), n <= Len(t)
    PROVE SubSeq(s, 1, n) = SubSeq(t, 1, n) <=> \A i \in 1..n : s[i] = t[i]
  BY DEF Agree
<1>1. \A u \in {s, t} : /\ SubSeq(u, 1, n) \in Seq(Letters) /\ Len(SubSeq(u, 1, n)) = n
                        /\ \A i \in 1..n : SubSeq(u, 1, n)[i] = u[i]
  BY DEF Words
<1>2. ASSUME SubSeq(s, 1, n) = SubSeq(t, 1, n), NEW i \in 1..n PROVE s[i] = t[i]
  BY <1>1, <1>2
<1>3. ASSUME \A i \in 1..n : s[i] = t[i] PROVE SubSeq(s, 1, n) = SubSeq(t, 1, n)
  BY <1>1, <1>3, SeqEqual
<1> QED
  BY <1>2, <1>3

LEMMA PrefixIs ==
  ASSUME NEW p \in Words, NEW s \in Words
  PROVE  IsPrefix(p, s) <=> Agree(p, s, Len(p))
<1>1. Len(p) \in Nat /\ Len(s) \in Nat
  BY DEF Words
<1>2. Len(p) <= Len(p)
  BY <1>1
<1> QED
  BY <1>1, <1>2, SameStart DEF IsPrefix, Agree

LEMMA WordsEqual ==
  ASSUME NEW s \in Words, NEW t \in Words, Len(s) = Len(t), Agree(s, t, Len(s))
  PROVE  s = t
  BY SeqEqual DEF Words, Agree

\* A word is before another at the place n, where they part.
PartAt(s, t, n) ==
  /\ Agree(s, t, n) /\ n < Len(t)
  /\ n < Len(s) => Code(s[n + 1]) < Code(t[n + 1])

LEMMA BeforeIs ==
  ASSUME NEW s \in Words, NEW t \in Words
  PROVE  Before(s, t) <=> \E n \in Nat : PartAt(s, t, n)
<1> DEFINE m == Min({Len(s), Len(t)})
<1>1. Len(s) \in Nat /\ Len(t) \in Nat
  BY DEF Words
<1>2. m \in Nat /\ m = IF Len(s) <= Len(t) THEN Len(s) ELSE Len(t)
  BY <1>1 DEF Min
<1> HIDE DEF m
<1>3. Before(s, t) <=> \/ IsPrefix(s, t) /\ s # t
                       \/ \E k \in 1..m : SubSeq(s, 1, k - 1) = SubSeq(t, 1, k - 1) /\ Code(s[k]) < Code(t[k])
  BY DEF Before, IsStrictPrefix, m
<1>4. ASSUME IsPrefix(s, t), s # t PROVE PartAt(s, t, Len(s))
  <2>1. Agree(s, t, Len(s))
    BY <1>4, PrefixIs
  <2>2. Len(s) # Len(t)
    BY <2>1, <1>4, WordsEqual
  <2> QED
    BY <1>1, <2>1, <2>2 DEF PartAt, Agree
<1>5. ASSUME NEW k \in 1..m, SubSeq(s, 1, k - 1) = SubSeq(t, 1, k - 1), Code(s[k]) < Code(t[k])
      PROVE  k - 1 \in Nat /\ PartAt(s, t, k - 1)
  <2>1. k - 1 \in Nat /\ k - 1 < Len(s) /\ k - 1 < Len(t) /\ k - 1 + 1 = k
    BY <1>1, <1>2
  <2>2. Agree(s, t, k - 1)
    BY <1>1, <1>5, <2>1, SameStart
  <2> QED
    BY <1>5, <2>1, <2>2 DEF PartAt
<1>6. ASSUME NEW n \in Nat, PartAt(s, t, n) PROVE Before(s, t)
  <2>1. CASE n < Len(s)
    <3>1. n + 1 \in 1..m /\ (n + 1) - 1 = n
      BY <1>1, <1>2, <1>6, <2>1 DEF PartAt
    <3>2. SubSeq(s, 1, n) = SubSeq(t, 1, n)
      BY <1>1, <1>6, <2>1, SameStart DEF PartAt, Agree
    <3> QED
      BY <1>3, <1>6, <2>1, <3>1, <3>2 DEF PartAt
  <2>2. CASE ~(n < Len(s))
    <3>1. n = Len(s) /\ n < Len(t)
      BY <1>1, <1>6, <2>2 DEF PartAt, Agree
    <3>2. IsPrefix(s, t) /\ s # t
      BY <1>1, <1>6, <3>1, PrefixIs DEF PartAt
    <3> QED
      BY <1>3, <3>2
  <2> QED
    BY <2>1, <2>2
<1> QED
  BY <1>1, <1>3, <1>4, <1>5, <1>6

LEMMA BeforeIrreflexive ==
  ASSUME NEW s \in Words
  PROVE  ~Before(s, s)
<1>1. ASSUME NEW n \in Nat, PartAt(s, s, n) PROVE FALSE
  <2>1. s[n + 1] \in Letters
    BY <1>1 DEF PartAt, Words
  <2> QED
    BY <1>1, <2>1, CodeIs DEF PartAt
<1> QED
  BY <1>1, BeforeIs

LEMMA BeforeTotal ==
  ASSUME NEW s \in Words, NEW t \in Words, s # t
  PROVE  Before(s, t) \/ Before(t, s)
<1> DEFINE D == {k \in Nat : k >= Len(s) \/ k >= Len(t) \/ s[k + 1] # t[k + 1]}
<1>1. Len(s) \in Nat /\ Len(t) \in Nat
  BY DEF Words
<1>2. Len(s) \in D
  BY <1>1
<1>3. PICK n \in D : \A k \in D : n <= k
  BY <1>2, LeastExists
<1>4. n \in Nat /\ n <= Len(s) /\ n <= Len(t)
  <2>1. Len(t) \in D
    BY <1>1
  <2> QED
    BY <1>2, <1>3, <2>1
<1>5. Agree(s, t, n) /\ Agree(t, s, n)
  <2>1. ASSUME NEW i \in 1..n PROVE s[i] = t[i]
    <3>1. i - 1 \in Nat /\ ~(n <= i - 1) /\ i - 1 < n /\ i - 1 + 1 = i
      BY <1>4
    <3>2. i - 1 \notin D
      BY <1>3, <3>1
    <3> QED
      BY <3>1, <3>2, <1>1, <1>4
  <2> QED
    BY <1>4, <2>1 DEF Agree
<1>6. CASE n < Len(s) /\ n < Len(t)
  <2>1. s[n + 1] # t[n + 1] /\ s[n + 1] \in Letters /\ t[n + 1] \in Letters
    BY <1>1, <1>3, <1>4, <1>6 DEF Words
  <2>2. Code(s[n + 1]) < Code(t[n + 1]) \/ Code(t[n + 1]) < Code(s[n + 1])
    BY <2>1, CodesDiffer
  <2> QED
    BY <1>4, <1>5, <1>6, <2>2, BeforeIs DEF PartAt
<1>7. CASE n = Len(s) /\ n < Len(t)
  BY <1>1, <1>4, <1>5, <1>7, BeforeIs DEF PartAt
<1>8. CASE n = Len(t) /\ n < Len(s)
  BY <1>1, <1>4, <1>5, <1>8, BeforeIs DEF PartAt
<1>9. CASE n = Len(s) /\ n = Len(t)
  BY <1>5, <1>9, WordsEqual
<1> QED
  BY <1>1, <1>4, <1>6, <1>7, <1>8, <1>9

LEMMA BeforeTransitive ==
  ASSUME NEW s \in Words, NEW t \in Words, NEW u \in Words, Before(s, t), Before(t, u)
  PROVE  Before(s, u)
<1>1. Len(s) \in Nat /\ Len(t) \in Nat /\ Len(u) \in Nat
  BY DEF Words
<1>2. PICK n \in Nat : PartAt(s, t, n)
  BY BeforeIs
<1>3. PICK m \in Nat : PartAt(t, u, m)
  BY BeforeIs
<1>4. \A w \in {s, t, u} : \A k \in Nat : k < Len(w) => Code(w[k + 1]) \in Nat
  BY CodeIs DEF Words
<1>5. CASE n < m
  <2>1. PartAt(s, u, n)
    BY <1>1, <1>2, <1>3, <1>5 DEF PartAt, Agree
  <2> QED
    BY <2>1, BeforeIs
<1>6. CASE m < n
  <2>1. PartAt(s, u, m)
    BY <1>1, <1>2, <1>3, <1>6 DEF PartAt, Agree
  <2> QED
    BY <2>1, BeforeIs
<1>7. CASE n = m
  <2>1. Agree(s, u, n) /\ n < Len(u)
    BY <1>1, <1>2, <1>3, <1>7 DEF PartAt, Agree
  <2>2. n < Len(s) => Code(s[n + 1]) < Code(u[n + 1])
    BY <1>1, <1>2, <1>3, <1>4, <1>7 DEF PartAt
  <2>3. PartAt(s, u, n)
    BY <2>1, <2>2 DEF PartAt
  <2> QED
    BY <2>3, BeforeIs
<1> QED
  BY <1>5, <1>6, <1>7

\* What begins with the same letters is together in the order.
LEMMA PrefixesAreTogether ==
  ASSUME NEW p \in Words, NEW s \in Words, NEW t \in Words, NEW u \in Words,
         IsPrefix(p, s), IsPrefix(p, u), Before(s, t), Before(t, u)
  PROVE  IsPrefix(p, t)
<1>1. Len(p) \in Nat /\ Len(s) \in Nat /\ Len(t) \in Nat /\ Len(u) \in Nat
  BY DEF Words
<1>2. PICK n \in Nat : PartAt(s, t, n)
  BY BeforeIs
<1>3. PICK m \in Nat : PartAt(t, u, m)
  BY BeforeIs
<1>4. \A w \in {s, t, u} : \A k \in Nat : k < Len(w) => Code(w[k + 1]) \in Nat
  BY CodeIs DEF Words
<1>5. Agree(p, s, Len(p)) /\ Agree(p, u, Len(p))
  BY PrefixIs
<1>6. CASE Len(p) <= n
  <2>1. Agree(p, t, Len(p))
    BY <1>1, <1>2, <1>5, <1>6 DEF PartAt, Agree
  <2> QED
    BY <2>1, PrefixIs
<1>7. CASE n < Len(p)
  <2>1. n < Len(s) /\ n < Len(t) /\ n < Len(u) /\ s[n + 1] = u[n + 1]
    BY <1>1, <1>2, <1>5, <1>7 DEF PartAt, Agree
  <2>2. Code(s[n + 1]) < Code(t[n + 1])
    BY <1>2, <2>1 DEF PartAt
  <2>3. CASE n < m
    <3>1. t[n + 1] = u[n + 1]
      BY <1>1, <1>3, <2>3 DEF PartAt, Agree
    <3> QED
      BY <1>4, <2>1, <2>2, <3>1
  <2>4. CASE n = m
    <3>1. Code(t[n + 1]) < Code(u[n + 1])
      BY <1>3, <2>1, <2>4 DEF PartAt
    <3> QED
      BY <1>4, <2>1, <2>2, <3>1
  <2>5. CASE m < n
    <3>1. Code(t[m + 1]) < Code(u[m + 1]) /\ m < Len(t)
      BY <1>1, <1>3, <2>1, <2>5 DEF PartAt
    <3>2. m + 1 \in 1..n /\ m + 1 \in 1..Len(p)
      BY <1>1, <1>7, <2>5
    <3>3. t[m + 1] = s[m + 1] /\ s[m + 1] = p[m + 1] /\ p[m + 1] = u[m + 1]
      BY <1>2, <1>5, <3>2 DEF PartAt, Agree
    <3> QED
      BY <1>4, <3>1, <3>3
  <2> QED
    BY <2>3, <2>4, <2>5
<1> QED
  BY <1>1, <1>6, <1>7

-----------------------------------------------------------------------------
(* The sorted array.                                                          *)

\* The words of S, each once and in their order.
Sorts(s, S) ==
  /\ s \in [1..Cardinality(S) -> S]
  /\ \A i, j \in 1..Cardinality(S) : i < j => Before(s[i], s[j])
  /\ \A x \in S : \E i \in 1..Cardinality(S) : s[i] = x

LEMMA SortedSorts ==
  ASSUME NEW S \in SUBSET Words, IsFiniteSet(S)
  PROVE  Sorts(Sorted(S), S)
<1> DEFINE n == Cardinality(S)
           U == [x \in S |-> {y \in S : Before(y, x)}]
           rank(x) == Cardinality({y \in S : Before(y, x)})
           s == Sorted(S)
<1>1. n \in Nat
  BY FS_CardinalityType
<1>2. /\ \A x \in S : Cardinality(U[x]) \in 0..n - 1
      /\ \A x \in S : \A y \in U[x] : Cardinality(U[y]) < Cardinality(U[x])
      /\ \A m \in 0..n - 1 : \E x \in S : Cardinality(U[x]) = m
  <2>1. U \in [S -> SUBSET S]
    OBVIOUS
  <2>2. \A x \in S : x \notin U[x]
    BY BeforeIrreflexive
  <2>3. \A x \in S : \A y \in U[x] : U[y] \subseteq U[x]
    BY BeforeTransitive
  <2>4. \A x, y \in S : x = y \/ x \in U[y] \/ y \in U[x]
    BY BeforeTotal
  <2> HIDE DEF U
  <2> QED
    BY <2>1, <2>2, <2>3, <2>4, RanksAreTaken
<1>3. \A x \in S : rank(x) \in 0..n - 1
  BY <1>2
<1>4. \A x, y \in S : Before(y, x) => rank(y) < rank(x)
  BY <1>2
<1>5. \A m \in 0..n - 1 : \E x \in S : rank(x) = m
  BY <1>2
<1>6. s = [k \in 1..n |-> CHOOSE x \in S : rank(x) = k - 1]
  BY DEF Sorted, Ranked
<1> HIDE DEF U, n, s, rank
<1>7. ASSUME NEW k \in 1..n PROVE s[k] \in S /\ rank(s[k]) = k - 1
  <2>1. k - 1 \in 0..n - 1
    BY <1>1
  <2>2. \E x \in S : rank(x) = k - 1
    BY <1>5, <2>1
  <2>3. s[k] = CHOOSE x \in S : rank(x) = k - 1
    BY <1>6
  <2> QED
    BY <2>2, <2>3
<1>8. s \in [1..n -> S]
  BY <1>6, <1>7
<1>9. ASSUME NEW i \in 1..n, NEW j \in 1..n, i < j PROVE Before(s[i], s[j])
  <2>1. rank(s[i]) < rank(s[j]) /\ ~(rank(s[j]) < rank(s[i])) /\ s[i] # s[j]
    BY <1>1, <1>7, <1>9
  <2>2. s[i] \in S /\ s[j] \in S
    BY <1>7
  <2> QED
    BY <1>4, <2>1, <2>2, BeforeTotal
<1>10. ASSUME NEW x \in S PROVE \E i \in 1..n : s[i] = x
  <2>1. rank(x) + 1 \in 1..n /\ rank(x) + 1 - 1 = rank(x) /\ rank(x) \in Nat
    BY <1>1, <1>3
  <2> DEFINE y == s[rank(x) + 1]
  <2>2. y \in S /\ rank(y) = rank(x)
    BY <1>7, <2>1
  <2>3. ~(rank(y) < rank(x)) /\ ~(rank(x) < rank(y))
    BY <2>1, <2>2
  <2>4. y = x
    BY <1>4, <2>2, <2>3, BeforeTotal
  <2> QED
    BY <2>1, <2>4
<1> QED
  BY <1>8, <1>9, <1>10 DEF Sorts, n, s

\* What a trie is once it is built of the words of S.
IsTrieOf(t, S) ==
  /\ S \in SUBSET (Words \ {<<>>}) /\ IsFiniteSet(S)
  /\ t.spls = Sorted(S)
  /\ t.halves \subseteq 1..HalfNum
  /\ \A h \in t.halves : \E s \in S : IsPrefix(HalfStrs[h], s)

LEMMA SplsAre ==
  ASSUME NEW t, NEW S, IsTrieOf(t, S)
  PROVE  /\ t.spls \in Seq(Words) /\ t.spls \in Seq(S)
         /\ Len(t.spls) = Cardinality(S) /\ Len(t.spls) \in Nat
         /\ \A i, j \in 1..Len(t.spls) : i < j => Before(t.spls[i], t.spls[j])
         /\ \A i \in 1..Len(t.spls) : t.spls[i] \in S /\ t.spls[i] \in Words /\ t.spls[i] # <<>>
         /\ \A x \in S : \E i \in 1..Len(t.spls) : t.spls[i] = x
         /\ ToSet(t.spls) = S
<1>1. S \in SUBSET Words /\ Sorts(t.spls, S) /\ Cardinality(S) \in Nat
  BY SortedSorts, FS_CardinalityType DEF IsTrieOf
<1>2. t.spls \in Seq(S) /\ Len(t.spls) = Cardinality(S) /\ DOMAIN t.spls = 1..Cardinality(S)
  BY <1>1 DEF Sorts
<1>3. t.spls \in Seq(Words)
  BY <1>1, <1>2
<1>4. \A i \in 1..Len(t.spls) : t.spls[i] \in S /\ t.spls[i] \in Words /\ t.spls[i] # <<>>
  BY <1>1, <1>2 DEF Sorts, IsTrieOf
<1>5. \A x \in S : \E i \in 1..Len(t.spls) : t.spls[i] = x
  BY <1>1, <1>2 DEF Sorts
<1>6. ToSet(t.spls) = S
  BY <1>2, <1>4, <1>5 DEF ToSet
<1> QED
  BY <1>1, <1>2, <1>3, <1>4, <1>5, <1>6 DEF Sorts

\* The places of the spellings below a node.
SpelledFrom(t, h) == {k \in 1..Len(t.spls) : IsPrefix(HalfStrs[h], t.spls[k])}

LEMMA HalfStrIs ==
  ASSUME NEW h \in 1..HalfNum
  PROVE  HalfStrs[h] \in Words /\ HalfStrs[h] # <<>> /\ h \in Nat /\ HalfNum \in Nat
  BY SpellingAssumption DEF HalfNum

\* They are the range of the half id, and it is not empty.
LEMMA RangeOfHalf ==
  ASSUME NEW t, NEW S, IsTrieOf(t, S), NEW h \in t.halves
  PROVE  /\ HalfNum \in Nat
         /\ SpelledFrom(t, h) # {}
         /\ H2FStart(t, h) - HalfNum \in SpelledFrom(t, h) /\ H2FStart(t, h) \in Int
         /\ \A f : f \in HalfToFull(t, h) <=> \E k \in SpelledFrom(t, h) : f = HalfNum + k
<1> DEFINE K == SpelledFrom(t, h)
           n == Len(t.spls)
<1>1. h \in 1..HalfNum
  BY DEF IsTrieOf
<1>2. HalfStrs[h] \in Words /\ HalfNum \in Nat
  BY <1>1, HalfStrIs
<1>3. n \in Nat /\ K \in SUBSET Nat /\ \A k \in K : k \in 1..n /\ k <= n
  BY SplsAre DEF SpelledFrom
<1>4. K # {}
  <2>1. PICK s \in S : IsPrefix(HalfStrs[h], s)
    BY DEF IsTrieOf
  <2>2. PICK k \in 1..n : t.spls[k] = s
    BY SplsAre
  <2> QED
    BY <2>1, <2>2 DEF SpelledFrom
<1>5. PICK lo \in K : \A k \in K : lo <= k
  BY <1>3, <1>4, LeastExists
<1>6. PICK hi \in K : \A k \in K : k <= hi
  BY <1>3, <1>4, GreatestExists
<1>7. lo \in 1..n /\ hi \in 1..n /\ lo <= hi
  BY <1>3, <1>5, <1>6
<1>8. ASSUME NEW k \in lo..hi PROVE k \in K
  <2>1. k \in 1..n /\ lo <= k /\ k <= hi
    BY <1>7, <1>3
  <2>2. CASE k = lo \/ k = hi
    BY <2>2, <1>5, <1>6
  <2>3. CASE lo < k /\ k < hi
    <3>1. Before(t.spls[lo], t.spls[k]) /\ Before(t.spls[k], t.spls[hi])
      BY <1>7, <2>1, <2>3, SplsAre
    <3>2. t.spls[lo] \in Words /\ t.spls[k] \in Words /\ t.spls[hi] \in Words
      BY <1>7, <2>1, SplsAre
    <3>3. IsPrefix(HalfStrs[h], t.spls[lo]) /\ IsPrefix(HalfStrs[h], t.spls[hi])
      BY <1>5, <1>6 DEF SpelledFrom
    <3>4. IsPrefix(HalfStrs[h], t.spls[k])
      BY <1>2, <3>1, <3>2, <3>3, PrefixesAreTogether
    <3> QED
      BY <2>1, <3>4 DEF SpelledFrom
  <2> QED
    BY <1>7, <1>3, <2>1, <2>2, <2>3
<1>9. K = lo..hi
  <2>1. \A k \in K : k \in lo..hi
    BY <1>3, <1>5, <1>6
  <2> HIDE DEF K
  <2> QED
    BY <1>8, <2>1
<1>10. Cardinality(K) = hi - lo + 1
  <2>1. lo \in Int /\ hi \in Int /\ ~(lo > hi)
    BY <1>7, <1>3
  <2> HIDE DEF K
  <2> QED
    BY <2>1, <1>9, FS_Interval
<1>11. H2FStart(t, h) = HalfNum + lo /\ H2FNum(t, h) = hi - lo + 1
  <2>1. Min(K) = lo
    <3> HIDE DEF K
    <3>1. Min(K) \in K /\ Min(K) <= lo /\ lo <= Min(K)
      BY <1>3, <1>4, <1>5, MinIs
    <3>2. Min(K) \in Nat /\ lo \in Nat
      BY <1>3, <1>5, <3>1
    <3> QED
      BY <3>1, <3>2
  <2> QED
    BY <1>10, <2>1 DEF H2FStart, H2FNum, SpelledFrom
<1>12. HalfToFull(t, h) = HalfNum + lo..HalfNum + hi
  <2>1. HalfNum + lo + (hi - lo + 1) - 1 = HalfNum + hi
    BY <1>2, <1>3, <1>7
  <2> QED
    BY <1>11, <2>1 DEF HalfToFull
<1>13. ASSUME NEW f PROVE f \in HalfToFull(t, h) <=> \E k \in lo..hi : f = HalfNum + k
  <2>1. ASSUME f \in HalfNum + lo..HalfNum + hi PROVE f - HalfNum \in lo..hi /\ f = HalfNum + (f - HalfNum)
    BY <1>2, <1>3, <1>7, <2>1
  <2>2. ASSUME NEW k \in lo..hi, f = HalfNum + k PROVE f \in HalfNum + lo..HalfNum + hi
    BY <1>2, <1>3, <1>7, <2>2
  <2> QED
    BY <1>12, <2>1, <2>2
<1>14. H2FStart(t, h) - HalfNum = lo /\ H2FStart(t, h) \in Int
  BY <1>2, <1>3, <1>7, <1>11
<1> QED
  BY <1>2, <1>4, <1>5, <1>9, <1>13, <1>14

\* Of two words that begin the same word, the shorter begins the longer.
LEMMA PrefixesNest ==
  ASSUME NEW p \in Words, NEW q \in Words, NEW s \in Words, IsPrefix(p, s), IsPrefix(q, s)
  PROVE  Len(p) <= Len(q) => IsPrefix(p, q)
<1> SUFFICES ASSUME Len(p) <= Len(q) PROVE IsPrefix(p, q)
  OBVIOUS
<1>1. Len(p) \in Nat /\ Len(q) \in Nat
  BY DEF Words
<1>2. Agree(p, s, Len(p)) /\ Agree(q, s, Len(q))
  BY PrefixIs
<1>3. Agree(p, q, Len(p))
  BY <1>1, <1>2 DEF Agree
<1> QED
  BY <1>3, PrefixIs

\* The spelling of a full id.
LEMMA FullStr ==
  ASSUME NEW t, NEW k \in Nat \ {0}
  PROVE  ~IsHalf(HalfNum + k) /\ SpellingStr(t, HalfNum + k) = t.spls[k]
<1>1. HalfNum \in Nat
  BY SpellingAssumption DEF HalfNum
<1>2. ~(HalfNum + k \in 1..HalfNum) /\ (HalfNum + k) - HalfNum = k
  BY <1>1
<1> QED
  BY <1>2, Zenon DEF SpellingStr, IsHalf

LEMMA HalvesStandForTheirRange ==
  ASSUME NEW t, NEW S, IsTrieOf(t, S), NEW h \in t.halves
  PROVE  {SpellingStr(t, f) : f \in HalfToFull(t, h)} = {s \in S : IsPrefix(HalfStrs[h], s)}
<1>1. ASSUME NEW k \in SpelledFrom(t, h)
      PROVE  SpellingStr(t, HalfNum + k) = t.spls[k] /\ t.spls[k] \in S /\ IsPrefix(HalfStrs[h], t.spls[k])
  <2>1. k \in 1..Len(t.spls) /\ Len(t.spls) \in Nat /\ k \in Nat \ {0}
    BY SplsAre DEF SpelledFrom
  <2> QED
    BY <2>1, FullStr, SplsAre DEF SpelledFrom
<1>2. ASSUME NEW f \in HalfToFull(t, h) PROVE SpellingStr(t, f) \in S /\ IsPrefix(HalfStrs[h], SpellingStr(t, f))
  BY <1>1, RangeOfHalf
<1>3. ASSUME NEW s \in S, IsPrefix(HalfStrs[h], s) PROVE \E f \in HalfToFull(t, h) : SpellingStr(t, f) = s
  <2>1. PICK k \in 1..Len(t.spls) : t.spls[k] = s
    BY SplsAre
  <2>2. k \in SpelledFrom(t, h)
    BY <1>3, <2>1 DEF SpelledFrom
  <2>3. HalfNum + k \in HalfToFull(t, h)
    BY <2>2, RangeOfHalf
  <2> QED
    BY <1>1, <2>1, <2>2, <2>3
<1> QED
  BY <1>2, <1>3

LEMMA FullIdsFindTheirHalf ==
  ASSUME NEW t, NEW S, IsTrieOf(t, S), NEW h \in t.halves, NEW f \in HalfToFull(t, h)
  PROVE  \E g \in FullToHalf(t, f) :
           IsPrefix(HalfStrs[h], HalfStrs[g]) /\ IsPrefix(HalfStrs[g], SpellingStr(t, f))
<1> DEFINE in == {i \in t.halves : f \in HalfToFull(t, i)}
           g == Max(in)
<1>1. in \in SUBSET Nat /\ h \in in /\ HalfNum \in Nat /\ (\A i \in in : i <= HalfNum)
  BY HalfStrIs DEF IsTrieOf
<1>2. g \in in /\ g >= h
  <2> HIDE DEF in
  <2> QED
    BY <1>1, MaxIs
<1>3. g \in FullToHalf(t, f)
  BY <1>1 DEF FullToHalf
<1>4. g \in t.halves /\ f \in HalfToFull(t, g) /\ g \in 1..HalfNum /\ h \in 1..HalfNum
  BY <1>2 DEF IsTrieOf
<1> HIDE DEF g
<1>5. SpellingStr(t, f) \in S /\ IsPrefix(HalfStrs[h], SpellingStr(t, f)) /\ IsPrefix(HalfStrs[g], SpellingStr(t, f))
  BY <1>4, HalvesStandForTheirRange
<1>6. SpellingStr(t, f) \in Words /\ HalfStrs[g] \in Words /\ HalfStrs[h] \in Words
  BY <1>4, <1>5, HalfStrIs DEF IsTrieOf
<1>7. IsPrefix(HalfStrs[h], HalfStrs[g])
  <2>1. CASE Len(HalfStrs[h]) <= Len(HalfStrs[g])
    BY <2>1, <1>5, <1>6, PrefixesNest
  <2>2. CASE Len(HalfStrs[g]) <= Len(HalfStrs[h])
    <3>1. IsPrefix(HalfStrs[g], HalfStrs[h])
      BY <2>2, <1>5, <1>6, PrefixesNest
    <3>2. g <= h
      BY <3>1, <1>4, SpellingAssumption DEF HalfNum
    <3>3. g = h
      BY <1>1, <1>2, <1>4, <3>2
    <3> QED
      BY <3>1, <3>3
  <2>3. Len(HalfStrs[h]) \in Nat /\ Len(HalfStrs[g]) \in Nat
    BY <1>6 DEF Words
  <2> QED
    BY <2>1, <2>2, <2>3
<1> QED
  BY <1>3, <1>5, <1>7

-----------------------------------------------------------------------------
(* The parser.                                                                *)

ParseStates == [node : Words, ids : Seq(Int), starts : Seq(Nat),
                split : BOOLEAN, stop : BOOLEAN, pre : BOOLEAN]

\* The letters between two positions begin the spelling of an id.
Spells(t, str, from, to, id) ==
  from < to /\ to <= Len(str) /\ IsPrefix(SubSeq(str, from + 1, to), SpellingStr(t, id))

LastStart(p) == p.starts[Len(p.starts)]

\* The first k letters are cut into pieces of which each begins its spelling,
\* and, while the walk goes on, a rest that it has walked.
CutSoFar(t, str, p, k) ==
  /\ p \in ParseStates
  /\ Len(p.starts) = Len(p.ids) + 1
  /\ LastStart(p) <= k
  /\ \A i \in 1..Len(p.ids) : Spells(t, str, p.starts[i], p.starts[i + 1], p.ids[i])
Walked(str, p, k) == p.node = SubSeq(str, LastStart(p) + 1, k)

\* The id that a walk ends with is that of a spelling it begins.
LEMMA IdSpells ==
  ASSUME NEW t, NEW S, IsTrieOf(t, S), NEW n \in Words, ValidId(t, NodeId(t, n)) # 0
  PROVE  /\ IsPrefix(n, SpellingStr(t, ValidId(t, NodeId(t, n))))
         /\ ValidId(t, NodeId(t, n)) \in Int
<1> DEFINE half == {h \in t.halves : HalfStrs[h] = n}
           full == {k \in 1..Len(t.spls) : t.spls[k] = n}
           id == NodeId(t, n)
<1>1. id = IF half # {} THEN Min(half) ELSE IF full # {} THEN HalfNum + Min(full) ELSE 0
  BY DEF NodeId
<1>2. HalfNum \in Nat /\ Len(t.spls) \in Nat /\ half \in SUBSET Nat /\ full \in SUBSET Nat
  BY SplsAre, SpellingAssumption DEF IsTrieOf, HalfNum
<1>3. IsPrefix(n, n)
  BY PrefixIs DEF Agree, Words
<1> HIDE DEF id
<1>4. CASE half # {}
  <2>1. id \in half
    <3> HIDE DEF half
    <3> QED
      BY <1>1, <1>2, <1>4, MinIs
  <2>2. id \in t.halves /\ HalfStrs[id] = n /\ id \in 1..HalfNum /\ id \in Int
    BY <2>1, <1>2 DEF IsTrieOf
  <2>3. SpellingStr(t, id) = n
    BY <2>2 DEF SpellingStr, IsHalf
  <2>4. CASE ValidId(t, id) = id
    BY <2>2, <2>3, <2>4, <1>3 DEF id
  <2>5. CASE ValidId(t, id) = H2FStart(t, id)
    <3> DEFINE k == H2FStart(t, id) - HalfNum
    <3>1. k \in SpelledFrom(t, id) /\ H2FStart(t, id) \in Int
      BY <2>2, RangeOfHalf
    <3>2. k \in Nat \ {0} /\ IsPrefix(n, t.spls[k]) /\ HalfNum + k = H2FStart(t, id)
      BY <1>2, <2>2, <3>1 DEF SpelledFrom
    <3> HIDE DEF k
    <3>3. SpellingStr(t, H2FStart(t, id)) = t.spls[k]
      BY <3>2, FullStr
    <3> QED
      BY <2>5, <3>1, <3>2, <3>3 DEF id
  <2>6. ValidId(t, id) \in {id, H2FStart(t, id), 0}
    BY DEF ValidId
  <2> QED
    BY <2>4, <2>5, <2>6 DEF id
<1>5. CASE half = {} /\ full # {}
  <2> DEFINE k == Min(full)
  <2>1. k \in full
    <3> HIDE DEF full
    <3> QED
      BY <1>2, <1>5, MinIs
  <2>2. k \in Nat \ {0} /\ t.spls[k] = n /\ id = HalfNum + k
    BY <1>1, <1>2, <1>5, <2>1
  <2> HIDE DEF k
  <2>3. ~IsHalf(id) /\ SpellingStr(t, id) = n /\ id \in Int
    BY <1>2, <2>2, FullStr
  <2>4. ValidId(t, id) = id
    BY <2>3 DEF ValidId
  <2> QED
    BY <1>3, <2>3, <2>4 DEF id
<1>6. CASE half = {} /\ full = {}
  <2>1. id = 0 /\ ~IsHalf(id)
    BY <1>1, <1>2, <1>6 DEF IsHalf
  <2>2. ValidId(t, id) = 0
    BY <2>1 DEF ValidId
  <2> QED
    BY <2>2 DEF id
<1> QED
  BY <1>4, <1>5, <1>6

LEMMA EmitCuts ==
  ASSUME NEW t, NEW S, IsTrieOf(t, S), NEW str \in Words, NEW k \in Nat, k <= Len(str),
         NEW p, CutSoFar(t, str, p, k), Walked(str, p, k), Endable(t, p)
  PROVE  /\ CutSoFar(t, str, Emit(t, p, k), k)
         /\ LastStart(Emit(t, p, k)) = k
<1> DEFINE id == ValidId(t, NodeId(t, p.node))
           q == Emit(t, p, k)
           n == Len(p.ids)
<1>1. p \in ParseStates /\ p.node \in Words /\ p.ids \in Seq(Int) /\ p.starts \in Seq(Nat)
  BY DEF CutSoFar, ParseStates
<1>2. id \in Int /\ IsPrefix(p.node, SpellingStr(t, id)) /\ p.node # <<>>
  BY <1>1, IdSpells DEF Endable
<1>3. n \in Nat /\ Len(p.starts) = n + 1 /\ LastStart(p) = p.starts[n + 1] /\ LastStart(p) \in Nat /\ LastStart(p) <= k
  <2>1. n \in Nat /\ Len(p.starts) = n + 1
    BY <1>1 DEF CutSoFar
  <2>2. n + 1 \in 1..Len(p.starts)
    BY <2>1
  <2> QED
    BY <1>1, <2>1, <2>2, ElementOfSeq DEF CutSoFar, LastStart
<1>4. LastStart(p) < k
  <2>1. CASE LastStart(p) = k
    <3>1. SubSeq(str, k + 1, k) = <<>>
      BY SubSeqEmpty
    <3> QED
      BY <1>2, <2>1, <3>1 DEF Walked
  <2> QED
    BY <1>3, <2>1
<1> HIDE DEF id
<1>5. /\ q = [node |-> <<>>, ids |-> Append(p.ids, id), starts |-> Append(p.starts, k),
              split |-> p.split, stop |-> p.stop, pre |-> p.pre]
  <2>1. p = [node |-> p.node, ids |-> p.ids, starts |-> p.starts,
             split |-> p.split, stop |-> p.stop, pre |-> p.pre]
    BY <1>1 DEF ParseStates
  <2>2. q = [p EXCEPT !.ids = Append(p.ids, id), !.starts = Append(p.starts, k), !.node = <<>>]
    BY <2>1 DEF Emit, id
  <2> QED
    BY <2>1, <2>2
<1> HIDE DEF q
<1>6. /\ q.ids \in Seq(Int) /\ Len(q.ids) = n + 1 /\ q.ids[n + 1] = id
      /\ \A i \in 1..n : q.ids[i] = p.ids[i]
  BY <1>1, <1>2, <1>5, AppendProperties
<1>7. /\ q.starts \in Seq(Nat) /\ Len(q.starts) = n + 2 /\ q.starts[n + 2] = k
      /\ \A i \in 1..n + 1 : q.starts[i] = p.starts[i]
  <2>1. /\ q.starts \in Seq(Nat) /\ Len(q.starts) = Len(p.starts) + 1 /\ q.starts[Len(p.starts) + 1] = k
        /\ \A i \in 1..Len(p.starts) : q.starts[i] = p.starts[i]
    BY <1>1, <1>5, AppendProperties
  <2> QED
    BY <2>1, <1>3
<1>8. q \in ParseStates
  <2>1. <<>> \in Words
    BY DEF Words
  <2> QED
    BY <1>1, <1>5, <1>6, <1>7, <2>1 DEF ParseStates
<1>9. LastStart(q) = k
  BY <1>7 DEF LastStart
<1>10. ASSUME NEW i \in 1..n + 1 PROVE Spells(t, str, q.starts[i], q.starts[i + 1], q.ids[i])
  <2>1. CASE i \in 1..n
    <3>1. i \in 1..n + 1 /\ i + 1 \in 1..n + 1
      BY <1>3, <2>1
    <3>2. Spells(t, str, p.starts[i], p.starts[i + 1], p.ids[i])
      BY <2>1 DEF CutSoFar
    <3> QED
      BY <1>6, <1>7, <2>1, <3>1, <3>2
  <2>2. CASE i = n + 1
    <3>0. i + 1 = n + 2 /\ i \in 1..n + 1
      BY <1>3, <2>2
    <3>1. q.starts[i] = LastStart(p) /\ q.starts[i + 1] = k /\ q.ids[i] = id
      BY <1>3, <1>6, <1>7, <2>2, <3>0
    <3>2. SubSeq(str, LastStart(p) + 1, k) = p.node
      BY DEF Walked
    <3> QED
      BY <1>2, <1>4, <3>1, <3>2 DEF Spells
  <2> QED
    BY <1>3, <2>1, <2>2
<1>11. k <= k
  OBVIOUS
<1>12. CutSoFar(t, str, q, k)
  <2>1. n + 2 = (n + 1) + 1
    BY <1>3
  <2> QED
    BY <1>6, <1>7, <1>8, <1>9, <1>10, <1>11, <2>1 DEF CutSoFar
<1> QED
  BY <1>9, <1>12 DEF q

LEMMA OneLetterMore ==
  ASSUME NEW str \in Words, NEW a \in Nat, NEW k \in Nat, a <= k, k < Len(str)
  PROVE  /\ Append(SubSeq(str, a + 1, k), str[k + 1]) = SubSeq(str, a + 1, k + 1)
         /\ <<str[k + 1]>> = SubSeq(str, k + 1, k + 1)
         /\ str[k + 1] \in Letters
<1>1. Len(str) \in Nat /\ \A i \in 1..Len(str) : str[i] \in Letters
  BY DEF Words
<1>2. str[k + 1] \in Letters
  BY <1>1
<1>3. ASSUME NEW b \in Nat, NEW m \in Nat, b <= m, m <= Len(str)
      PROVE  /\ SubSeq(str, b + 1, m) \in Seq(Letters) /\ Len(SubSeq(str, b + 1, m)) = m - b
             /\ \A i \in 1..m - b : SubSeq(str, b + 1, m)[i] = str[b + i]
  <2>1. b + 1 \in Int /\ m \in Int /\ m - (b + 1) + 1 = m - b /\ (b + 1 <= m \/ m - b = 0)
    BY <1>3
  <2>2. \A i \in b + 1..m : str[i] \in Letters
    BY <1>1, <1>3
  <2>3. /\ SubSeq(str, b + 1, m) \in Seq(Letters)
        /\ Len(SubSeq(str, b + 1, m)) = IF b + 1 <= m THEN m - (b + 1) + 1 ELSE 0
        /\ \A i \in 1..m - (b + 1) + 1 : SubSeq(str, b + 1, m)[i] = str[b + 1 + i - 1]
    BY <2>1, <2>2, SubSeqProperties
  <2>4. \A i \in 1..m - b : b + 1 + i - 1 = b + i
    BY <1>3
  <2> QED
    BY <1>3, <2>1, <2>3, <2>4
<1> DEFINE u == SubSeq(str, a + 1, k)
           v == SubSeq(str, a + 1, k + 1)
           w == SubSeq(str, k + 1, k + 1)
<1>4. /\ u \in Seq(Letters) /\ Len(u) = k - a /\ \A i \in 1..k - a : u[i] = str[a + i]
  BY <1>1, <1>3
<1>5. /\ v \in Seq(Letters) /\ Len(v) = k + 1 - a /\ \A i \in 1..k + 1 - a : v[i] = str[a + i]
  <2> DEFINE m == k + 1
  <2>1. m \in Nat /\ a <= m /\ m <= Len(str)
    BY <1>1
  <2>2. /\ SubSeq(str, a + 1, m) \in Seq(Letters) /\ Len(SubSeq(str, a + 1, m)) = m - a
        /\ \A i \in 1..m - a : SubSeq(str, a + 1, m)[i] = str[a + i]
    <3> HIDE DEF m
    <3> QED
      BY <1>3, <2>1
  <2> QED
    BY <2>2
<1>6. /\ w \in Seq(Letters) /\ Len(w) = 1 /\ w[1] = str[k + 1]
  <2>1. k + 1 \in Nat /\ k <= k + 1 /\ k + 1 <= Len(str) /\ k + 1 - k = 1
    BY <1>1
  <2> QED
    BY <1>3, <2>1
<1> HIDE DEF u, v, w
<1>7. Append(u, str[k + 1]) = v
  <2> DEFINE x == Append(u, str[k + 1])
  <2>1. x \in Seq(Letters) /\ Len(x) = k - a + 1 /\ x[k - a + 1] = str[k + 1] /\ \A i \in 1..k - a : x[i] = u[i]
    BY <1>2, <1>4, AppendProperties
  <2>2. Len(x) = Len(v)
    BY <1>5, <2>1
  <2>3. ASSUME NEW i \in 1..Len(x) PROVE x[i] = v[i]
    <3>1. i \in 1..k + 1 - a /\ v[i] = str[a + i]
      BY <1>5, <2>2
    <3>2. CASE i = k - a + 1
      <4>1. a + i = k + 1
        BY <3>2
      <4> QED
        BY <2>1, <3>1, <3>2, <4>1
    <3>3. CASE i # k - a + 1
      <4>1. i \in 1..k - a
        BY <3>1, <3>3
      <4> QED
        BY <1>4, <2>1, <3>1, <4>1
    <3> QED
      BY <3>2, <3>3
  <2> HIDE DEF x
  <2>4. x = v
    BY <1>5, <2>1, <2>2, <2>3, SeqEqual
  <2> QED
    BY <2>4 DEF x
<1>8. <<str[k + 1]>> = w
  BY <1>2, <1>6
<1> QED
  BY <1>2, <1>7, <1>8 DEF u, v, w

LEMMA CutStep ==
  ASSUME NEW t, NEW S, IsTrieOf(t, S), NEW str \in Words, NEW max, NEW k \in Nat, k < Len(str),
         NEW p, CutSoFar(t, str, p, k), p.stop \/ Walked(str, p, k)
  PROVE  /\ CutSoFar(t, str, ParseStep(t, str, max, p, k + 1), k + 1)
         /\ \/ ParseStep(t, str, max, p, k + 1).stop
            \/ Walked(str, ParseStep(t, str, max, p, k + 1), k + 1)
<1> DEFINE q == ParseStep(t, str, max, p, k + 1)
           c == str[k + 1]
           a == LastStart(p)
           e == Emit(t, p, k)
<1>1. p \in ParseStates /\ a \in Nat /\ a <= k
  <2>1. p \in ParseStates /\ Len(p.ids) \in Nat /\ p.starts \in Seq(Nat) /\ Len(p.starts) = Len(p.ids) + 1
    BY DEF CutSoFar, ParseStates
  <2>2. Len(p.starts) \in 1..Len(p.starts)
    BY <2>1
  <2> QED
    BY <2>1, <2>2, ElementOfSeq DEF CutSoFar, LastStart
<1>2. c \in Letters /\ Len(str) \in Nat /\ IsLetter(c) /\ k + 1 - 1 = k
  BY <1>1, OneLetterMore DEF IsLetter, Words
\* The cuts are those of the ids and the starts.
<1>3. ASSUME NEW x, CutSoFar(t, str, x, k), NEW y \in ParseStates, y.ids = x.ids, y.starts = x.starts
      PROVE  CutSoFar(t, str, y, k + 1) /\ LastStart(y) = LastStart(x)
  <2>1. LastStart(x) \in Nat
    <3>1. Len(x.ids) \in Nat /\ x.starts \in Seq(Nat) /\ Len(x.starts) = Len(x.ids) + 1
      BY <1>3 DEF CutSoFar, ParseStates
    <3>2. Len(x.starts) \in 1..Len(x.starts)
      BY <3>1
    <3> QED
      BY <3>1, <3>2, ElementOfSeq DEF LastStart
  <2>2. LastStart(y) = LastStart(x) /\ LastStart(y) <= k + 1
    BY <1>3, <2>1 DEF CutSoFar, LastStart
  <2> QED
    BY <1>3, <2>2 DEF CutSoFar
<1>4. CASE p.stop
  <2>1. q = p
    BY <1>4 DEF ParseStep
  <2> QED
    BY <1>1, <1>3, <1>4, <2>1
<1>5. CASE ~p.stop
  <2> DEFINE open == [p EXCEPT !.split = FALSE]
  <2>w. Walked(str, p, k)
    BY <1>5
  <2>0. q = ParseLetter(t, p, c, k, max)
    BY <1>2, <1>5 DEF ParseStep
  <2>1. p.node \in Words /\ p.split \in BOOLEAN /\ p.stop \in BOOLEAN /\ Append(p.node, c) \in Words
    BY <1>1, <1>2 DEF ParseStates, Words
  <2>2. CASE HasNode(t, Append(p.node, c))
    <3>1. q = [open EXCEPT !.node = Append(@, c)]
      BY <2>0, <2>2 DEF ParseLetter
    <3>2. q \in ParseStates /\ q.ids = p.ids /\ q.starts = p.starts /\ q.node = Append(p.node, c)
      BY <1>1, <2>1, <3>1 DEF ParseStates
    <3> HIDE DEF q
    <3>3. CutSoFar(t, str, q, k + 1) /\ LastStart(q) = a
      BY <1>3, <3>2
    <3>5. q.node = SubSeq(str, a + 1, k + 1)
      BY <1>1, <2>w, <3>2, OneLetterMore DEF Walked
    <3> QED
      BY <3>3, <3>5 DEF Walked, q
  <2>3. CASE ~HasNode(t, Append(p.node, c)) /\ ~Endable(t, p)
    <3>1. q = [open EXCEPT !.stop = TRUE]
      BY <2>0, <2>3 DEF ParseLetter
    <3>2. q \in ParseStates /\ q.ids = p.ids /\ q.starts = p.starts /\ q.stop
      BY <1>1, <3>1 DEF ParseStates
    <3> HIDE DEF q
    <3> QED
      BY <1>3, <3>2 DEF q
  <2>4. CASE ~HasNode(t, Append(p.node, c)) /\ Endable(t, p)
    <3>1. CutSoFar(t, str, e, k) /\ LastStart(e) = k
      BY <1>2, <2>w, <2>4, EmitCuts
    <3>2. e \in ParseStates /\ e.node \in Words /\ e.split \in BOOLEAN /\ e.stop \in BOOLEAN /\ <<c>> \in Words
      BY <1>2, <3>1 DEF CutSoFar, ParseStates, Words
    <3>3. q \in {[e EXCEPT !.stop = TRUE], [e EXCEPT !.node = <<c>>, !.split = FALSE]}
      BY <2>0, <2>4 DEF ParseLetter
    <3> HIDE DEF e
    <3>4. CASE q = [e EXCEPT !.stop = TRUE]
      <4>1. q \in ParseStates /\ q.ids = e.ids /\ q.starts = e.starts /\ q.stop
        BY <3>2, <3>4 DEF ParseStates
      <4> HIDE DEF q
      <4> QED
        BY <1>3, <3>1, <4>1 DEF q
    <3>5. CASE q = [e EXCEPT !.node = <<c>>, !.split = FALSE]
      <4>1. q \in ParseStates /\ q.ids = e.ids /\ q.starts = e.starts /\ q.node = <<c>>
        BY <3>2, <3>5 DEF ParseStates
      <4> HIDE DEF q
      <4>2. CutSoFar(t, str, q, k + 1) /\ LastStart(q) = k
        BY <1>3, <3>1, <4>1
      <4>3. q.node = SubSeq(str, k + 1, k + 1)
        BY <1>1, <4>1, OneLetterMore
      <4> QED
        BY <4>2, <4>3 DEF Walked, q
    <3> QED
      BY <3>3, <3>4, <3>5
  <2> QED
    BY <2>2, <2>3, <2>4
<1> QED
  BY <1>4, <1>5

\* The states of a walk are the values of a recursive function, which exists.
IsWalk(f, t, str, max, n) ==
  f = [k \in 0..n |-> IF k = 0 THEN ParseBegin(str) ELSE ParseStep(t, str, max, f[k - 1], k)]

LEMMA WalkExists ==
  ASSUME NEW t, NEW str, NEW max, NEW n \in Nat
  PROVE  \E f : IsWalk(f, t, str, max, n)
<1> DEFINE Body(k, f) == IF k = 0 THEN ParseBegin(str) ELSE ParseStep(t, str, max, f[k - 1], k)
           A == {m \in Nat : \E f : f = [k \in 0..m |-> Body(k, f)]}
<1>1. 0 \in A
  <2> DEFINE g == [k \in 0..0 |-> ParseBegin(str)]
  <2>1. g = [k \in 0..0 |-> Body(k, g)]
    OBVIOUS
  <2> HIDE DEF g, Body
  <2> QED
    BY <2>1
<1>2. ASSUME NEW m \in A PROVE m + 1 \in A
  <2>1. PICK f : f = [k \in 0..m |-> Body(k, f)]
    OBVIOUS
  <2> DEFINE g == [k \in 0..m + 1 |-> IF k \in 0..m THEN f[k] ELSE ParseStep(t, str, max, f[m], m + 1)]
  <2>2. ASSUME NEW k \in 0..m + 1 PROVE g[k] = Body(k, g)
    <3>1. m \in Nat
      OBVIOUS
    <3>2. CASE k = 0
      BY <2>1, <3>1, <3>2
    <3>3. CASE k \in 1..m
      <4>1. k \in 0..m /\ k - 1 \in 0..m /\ k - 1 \in 0..m + 1 /\ k # 0
        BY <3>1, <3>3
      <4>2. g[k] = f[k] /\ g[k - 1] = f[k - 1]
        BY <4>1
      <4>3. f[k] = Body(k, f)
        BY <2>1, <4>1
      <4> QED
        BY <4>1, <4>2, <4>3
    <3>4. CASE k = m + 1
      <4>1. k \notin 0..m /\ k - 1 = m /\ m \in 0..m /\ m \in 0..m + 1 /\ k # 0
        BY <3>1, <3>4
      <4>2. g[m] = f[m]
        BY <4>1
      <4> QED
        BY <3>4, <4>1, <4>2
    <3> QED
      BY <3>1, <3>2, <3>3, <3>4
  <2>3. g = [k \in 0..m + 1 |-> Body(k, g)]
    <3> HIDE DEF Body
    <3> QED
      BY <2>2
  <2> HIDE DEF g, Body
  <2> QED
    BY <2>3
<1>3. A = Nat
  <2> HIDE DEF A
  <2>1. A \in SUBSET Nat
    BY DEF A
  <2> QED
    BY <1>1, <1>2, <2>1, Induction
<1>4. n \in A
  <2> HIDE DEF A
  <2> QED
    BY <1>3
<1> QED
  BY <1>4 DEF IsWalk

LEMMA WalkIs ==
  ASSUME NEW t, NEW str \in Words, NEW max
  PROVE  \E f : /\ f = [k \in 0..Len(str) |-> IF k = 0 THEN ParseBegin(str) ELSE ParseStep(t, str, max, f[k - 1], k)]
               /\ Walk(t, str, max) = f[Len(str)]
<1>1. Len(str) \in Nat
  BY DEF Words
<1>2. \E f : IsWalk(f, t, str, max, Len(str))
  BY <1>1, WalkExists
<1> QED
  BY <1>2, Zenon DEF Walk, IsWalk

LEMMA BeginCuts ==
  ASSUME NEW t, NEW str \in Words
  PROVE  CutSoFar(t, str, ParseBegin(str), 0) /\ Walked(str, ParseBegin(str), 0)
<1> DEFINE p == ParseBegin(str)
<1>1. /\ p.node = <<>> /\ p.ids = <<>> /\ p.starts = <<0>> /\ p.split \in BOOLEAN
      /\ p.stop \in BOOLEAN /\ p.pre \in BOOLEAN
  BY DEF ParseBegin
<1>2. p \in ParseStates
  BY DEF ParseBegin, ParseStates, Words
<1> HIDE DEF p
<1>3. Len(p.ids) = 0 /\ Len(p.starts) = 1 /\ LastStart(p) = 0
  BY <1>1 DEF LastStart
<1>4. SubSeq(str, 0 + 1, 0) = <<>>
  BY SubSeqEmpty
<1> QED
  BY <1>1, <1>2, <1>3, <1>4 DEF CutSoFar, Walked, p

LEMMA WalkCuts ==
  ASSUME NEW t, NEW S, IsTrieOf(t, S), NEW str \in Words, NEW max
  PROVE  /\ CutSoFar(t, str, Walk(t, str, max), Len(str))
         /\ Walk(t, str, max).stop \/ Walked(str, Walk(t, str, max), Len(str))
<1>1. PICK f : /\ f = [k \in 0..Len(str) |-> IF k = 0 THEN ParseBegin(str) ELSE ParseStep(t, str, max, f[k - 1], k)]
               /\ Walk(t, str, max) = f[Len(str)]
  BY WalkIs
<1> DEFINE Holds(p, k) == CutSoFar(t, str, p, k) /\ (p.stop \/ Walked(str, p, k))
           A == {k \in Nat : k <= Len(str) => Holds(f[k], k)}
<1>2. Len(str) \in Nat
  BY DEF Words
<1>3. 0 \in A
  <2>1. f[0] = ParseBegin(str)
    BY <1>1, <1>2
  <2> QED
    BY <2>1, BeginCuts
<1>4. ASSUME NEW k \in A PROVE k + 1 \in A
  <2> SUFFICES ASSUME k + 1 <= Len(str) PROVE Holds(f[k + 1], k + 1)
    OBVIOUS
  <2>1. k \in Nat /\ k < Len(str) /\ k <= Len(str) /\ k + 1 \in 0..Len(str) /\ k + 1 # 0 /\ k + 1 - 1 = k
    BY <1>2
  <2>2. f[k + 1] = ParseStep(t, str, max, f[k], k + 1)
    BY <1>1, <2>1
  <2>3. Holds(f[k], k)
    BY <2>1
  <2> QED
    BY <2>1, <2>2, <2>3, CutStep
<1>5. A = Nat
  <2> HIDE DEF A
  <2>1. A \in SUBSET Nat
    BY DEF A
  <2> QED
    BY <1>3, <1>4, <2>1, Induction
<1>6. Len(str) \in A /\ Len(str) <= Len(str)
  <2> HIDE DEF A
  <2> QED
    BY <1>2, <1>5
<1>7. Holds(f[Len(str)], Len(str))
  <2> HIDE DEF Holds
  <2> QED
    BY <1>6
<1> QED
  BY <1>1, <1>7

\* The ids of a parse spell out the string they cover.
LEMMA ParseCuts ==
  ASSUME NEW t, NEW S, IsTrieOf(t, S), NEW str \in Words, NEW max,
         NEW k \in 1..Len(Parse(t, str, max).ids)
  PROVE  LET p == Parse(t, str, max)
         IN  /\ Spells(t, str, p.starts[k], p.starts[k + 1], p.ids[k])
             /\ p.starts[k] \in Nat /\ p.starts[k + 1] \in Nat
<1> DEFINE end  == Walk(t, str, max)
           last == IF Endable(t, end) THEN Emit(t, end, Len(str)) ELSE end
           p    == Parse(t, str, max)
<1>1. p = IF end.stop THEN end ELSE [last EXCEPT !.pre = ~end.split]
  BY DEF Parse
<1>2. Len(str) \in Nat /\ Len(str) <= Len(str)
  BY DEF Words
<1>3. CutSoFar(t, str, end, Len(str)) /\ (end.stop \/ Walked(str, end, Len(str)))
  BY WalkCuts
<1>4. ~end.stop => CutSoFar(t, str, last, Len(str))
  BY <1>2, <1>3, EmitCuts
<1> HIDE DEF end, last
<1>5. \E x : CutSoFar(t, str, x, Len(str)) /\ p.ids = x.ids /\ p.starts = x.starts
  <2>1. CASE end.stop
    BY <1>1, <1>3, <2>1
  <2>2. CASE ~end.stop
    <3>1. last \in ParseStates /\ p = [last EXCEPT !.pre = ~end.split]
      BY <1>1, <1>4, <2>2 DEF CutSoFar
    <3>2. p.ids = last.ids /\ p.starts = last.starts
      BY <3>1 DEF ParseStates
    <3> QED
      BY <1>4, <2>2, <3>2
  <2> QED
    BY <2>1, <2>2
<1> HIDE DEF p
<1>6. k \in 1..Len(p.ids)
  BY DEF p
<1>7. Spells(t, str, p.starts[k], p.starts[k + 1], p.ids[k])
  BY <1>5, <1>6 DEF CutSoFar
<1>8. p.starts[k] \in Nat /\ p.starts[k + 1] \in Nat
  <2>1. p.ids \in Seq(Int) /\ p.starts \in Seq(Nat) /\ Len(p.starts) = Len(p.ids) + 1
    BY <1>5 DEF CutSoFar, ParseStates
  <2>2. k \in 1..Len(p.starts) /\ k + 1 \in 1..Len(p.starts)
    BY <1>6, <2>1
  <2> QED
    BY <2>1, <2>2, ElementOfSeq
<1> QED
  BY <1>7, <1>8 DEF p

LEMMA StartsHaveNodes ==
  ASSUME NEW t, NEW S, IsTrieOf(t, S), NEW str \in S, NEW k \in Nat, k <= Len(str)
  PROVE  HasNode(t, SubSeq(str, 1, k))
<1>0. ToSet(t.spls) = S
  BY SplsAre
<1>1. str \in Words /\ ToSet(t.spls) = S /\ Len(str) \in Nat
  BY <1>0 DEF IsTrieOf, Words
<1> DEFINE p == SubSeq(str, 1, k)
<1>2. p \in Words /\ Len(p) = k /\ \A i \in 1..k : p[i] = str[i]
  BY <1>1 DEF Words
<1>3. Agree(p, str, Len(p))
  BY <1>1, <1>2 DEF Agree
<1> HIDE DEF p
<1>4. IsPrefix(p, str)
  BY <1>1, <1>2, <1>3, PrefixIs
<1> QED
  BY <1>1, <1>4 DEF HasNode, p

\* The walk along a spelling does not end before its end.
LEMMA WholeWalk ==
  ASSUME NEW t, NEW S, IsTrieOf(t, S), NEW str \in S, NEW max
  PROVE  LET end == Walk(t, str, max)
         IN  end \in ParseStates /\ ~end.stop /\ end.node = str /\ end.ids = <<>> /\ end.starts = <<0>>
<1>1. str \in Words /\ Len(str) \in Nat /\ Len(str) # 0 /\ (\A k \in 1..Len(str) : str[k] \in Letters)
  BY DEF IsTrieOf, Words
<1>2. PICK f : /\ f = [k \in 0..Len(str) |-> IF k = 0 THEN ParseBegin(str) ELSE ParseStep(t, str, max, f[k - 1], k)]
               /\ Walk(t, str, max) = f[Len(str)]
  BY <1>1, WalkIs
<1> DEFINE Holds(p, k) == /\ p \in ParseStates /\ ~p.stop /\ p.node = SubSeq(str, 1, k)
                          /\ p.ids = <<>> /\ p.starts = <<0>>
           A == {k \in Nat : k <= Len(str) => Holds(f[k], k)}
<1>3. 0 \in A
  <2>1. f[0] = ParseBegin(str)
    BY <1>1, <1>2
  <2>2. IsLetter(str[1]) /\ SubSeq(str, 1, 0) = <<>>
    BY <1>1, SubSeqEmpty DEF IsLetter
  <2>3. Holds(ParseBegin(str), 0)
    <3>1. ParseBegin(str) \in ParseStates
      BY <1>1, BeginCuts DEF CutSoFar
    <3>2. ~ParseBegin(str).stop
      BY <1>1, <2>2 DEF ParseBegin
    <3>3. ParseBegin(str).node = <<>> /\ ParseBegin(str).ids = <<>> /\ ParseBegin(str).starts = <<0>>
      BY DEF ParseBegin
    <3> QED
      BY <2>2, <3>1, <3>2, <3>3
  <2> QED
    BY <2>1, <2>3
<1>4. ASSUME NEW k \in A PROVE k + 1 \in A
  <2> SUFFICES ASSUME k + 1 <= Len(str) PROVE Holds(f[k + 1], k + 1)
    OBVIOUS
  <2>1. k \in Nat /\ k < Len(str) /\ k <= Len(str) /\ k + 1 \in 0..Len(str) /\ k + 1 # 0 /\ k + 1 - 1 = k
    BY <1>1
  <2> DEFINE p == f[k]
             c == str[k + 1]
             q == f[k + 1]
  <2>2. q = ParseStep(t, str, max, p, k + 1)
    BY <1>2, <2>1
  <2>3. Holds(p, k)
    BY <2>1
  <2> HIDE DEF p, q
  <2>4. IsLetter(c) /\ Append(SubSeq(str, 1, k), c) = SubSeq(str, 1, k + 1)
    <3>1. 0 \in Nat /\ 0 <= k /\ 0 + 1 = 1
      BY <2>1
    <3> QED
      BY <1>1, <2>1, <3>1, OneLetterMore DEF IsLetter
  <2>5. HasNode(t, SubSeq(str, 1, k + 1))
    BY <2>1, StartsHaveNodes
  <2>6. q = ParseLetter(t, p, c, k, max)
    BY <2>1, <2>2, <2>3, <2>4 DEF ParseStep
  <2>7. q = [[p EXCEPT !.split = FALSE] EXCEPT !.node = Append(@, c)]
    BY <2>3, <2>4, <2>5, <2>6 DEF ParseLetter
  <2>8. SubSeq(str, 1, k + 1) \in Words
    BY <1>1, <2>1 DEF Words
  <2>9. Holds(q, k + 1)
    BY <2>3, <2>4, <2>7, <2>8 DEF ParseStates
  <2> QED
    BY <2>9 DEF q
<1>5. A = Nat
  <2> HIDE DEF A
  <2>1. A \in SUBSET Nat
    BY DEF A
  <2> QED
    BY <1>3, <1>4, <2>1, Induction
<1>6. Len(str) \in A /\ Len(str) <= Len(str)
  <2> HIDE DEF A
  <2> QED
    BY <1>1, <1>5
<1>7. Holds(f[Len(str)], Len(str))
  <2> HIDE DEF Holds
  <2> QED
    BY <1>6
<1>8. SubSeq(str, 1, Len(str)) = str
  <2>1. /\ SubSeq(str, 1, Len(str)) \in Seq(Letters) /\ Len(SubSeq(str, 1, Len(str))) = Len(str)
        /\ \A i \in 1..Len(str) : SubSeq(str, 1, Len(str))[i] = str[i]
    BY <1>1 DEF Words
  <2>2. str \in Seq(Letters)
    BY <1>1 DEF Words
  <2> QED
    BY <2>1, <2>2, SeqEqual
<1> QED
  BY <1>2, <1>7, <1>8

\* A spelling that is no half string is parsed as the one id it has.
LEMMA WholeParse ==
  ASSUME NEW t, NEW S, IsTrieOf(t, S), NEW str \in S, NEW max,
         \A h \in t.halves : HalfStrs[h] # str
  PROVE  Parse(t, str, max).ids = <<NodeId(t, str)>> /\ Parse(t, str, max).starts = <<0, Len(str)>>
<1> DEFINE end  == Walk(t, str, max)
           full == {k \in 1..Len(t.spls) : t.spls[k] = str}
           id   == NodeId(t, str)
<1>1. /\ end \in ParseStates /\ ~end.stop /\ end.node = str /\ end.ids = <<>> /\ end.starts = <<0>>
  BY WholeWalk
<1>2. full # {} /\ full \in SUBSET Nat /\ HalfNum \in Nat
  <2>1. \E k \in 1..Len(t.spls) : t.spls[k] = str
    BY SplsAre
  <2> QED
    BY <2>1, SpellingAssumption DEF HalfNum
<1>3. Min(full) \in Nat \ {0}
  <2>1. Min(full) \in full
    <3> HIDE DEF full
    <3> QED
      BY <1>2, MinIs
  <2> QED
    BY <2>1
<1>4. id = HalfNum + Min(full)
  BY <1>2 DEF NodeId
<1>5. ~IsHalf(id) /\ id # 0
  <2> HIDE DEF full, id
  <2> QED
    BY <1>2, <1>3, <1>4 DEF IsHalf
<1> HIDE DEF id
<1>6. ValidId(t, id) = id
  BY <1>5 DEF ValidId
<1> HIDE DEF end
<1>7. Endable(t, end)
  <2>1. str # <<>>
    BY DEF IsTrieOf
  <2> QED
    BY <1>1, <1>5, <1>6, <2>1 DEF Endable, id
<1> DEFINE last == Emit(t, end, Len(str))
<1>8. last = [end EXCEPT !.ids = Append(<<>>, id), !.starts = Append(<<0>>, Len(str)), !.node = <<>>]
  BY <1>1, <1>6 DEF Emit, id, ParseStates
<1>9. Parse(t, str, max) = [last EXCEPT !.pre = ~end.split]
  BY <1>1, <1>7 DEF Parse, end
<1>10. last.ids = Append(<<>>, id) /\ last.starts = Append(<<0>>, Len(str))
  BY <1>1, <1>8 DEF ParseStates
<1>11. Parse(t, str, max).ids = last.ids /\ Parse(t, str, max).starts = last.starts
  <2>1. DOMAIN last = {"node", "ids", "starts", "split", "stop", "pre"}
    BY <1>1, <1>8 DEF ParseStates
  <2> HIDE DEF last
  <2> QED
    BY <1>9, <2>1
<1>12. Append(<<>>, id) = <<id>> /\ Append(<<0>>, Len(str)) = <<0, Len(str)>>
  <2>1. id \in Int /\ Len(str) \in Int
    BY <1>2, <1>3, <1>4 DEF IsTrieOf, Words
  <2>2. ASSUME NEW x \in Int PROVE Append(<<>>, x) = <<x>> /\ Append(<<0>>, x) = <<0, x>>
    <3>1. <<>> \in Seq(Int) /\ <<0>> \in Seq(Int) /\ <<x>> \in Seq(Int) /\ <<0, x>> \in Seq(Int)
      OBVIOUS
    <3>2. /\ Append(<<>>, x) \in Seq(Int) /\ Len(Append(<<>>, x)) = 1 /\ Append(<<>>, x)[1] = x
          /\ Append(<<0>>, x) \in Seq(Int) /\ Len(Append(<<0>>, x)) = 2
          /\ Append(<<0>>, x)[1] = 0 /\ Append(<<0>>, x)[2] = x
      BY <3>1, AppendProperties
    <3>3. /\ Len(<<x>>) = 1 /\ \A i \in 1..1 : Append(<<>>, x)[i] = <<x>>[i]
          /\ Len(<<0, x>>) = 2 /\ \A i \in 1..2 : Append(<<0>>, x)[i] = <<0, x>>[i]
      BY <3>2
    <3> DEFINE one == Append(<<>>, x)
               two == Append(<<0>>, x)
               one1 == <<x>>
               two2 == <<0, x>>
    <3>4. /\ one \in Seq(Int) /\ one1 \in Seq(Int) /\ Len(one) = Len(one1) /\ \A i \in 1..Len(one) : one[i] = one1[i]
          /\ two \in Seq(Int) /\ two2 \in Seq(Int) /\ Len(two) = Len(two2) /\ \A i \in 1..Len(two) : two[i] = two2[i]
      BY <3>1, <3>2, <3>3
    <3> HIDE DEF one, two, one1, two2
    <3>5. one = one1
      BY <3>4, SeqEqual
    <3>6. two = two2
      BY <3>4, SeqEqual
    <3> QED
      BY <3>5, <3>6 DEF one, two, one1, two2
  <2> QED
    BY <2>1, <2>2
<1> QED
  BY <1>10, <1>11, <1>12 DEF id

-----------------------------------------------------------------------------
(* The hash table.                                                            *)

IsSum(f, s, n) == f = [k \in 0..n |-> IF k = 0 THEN 0 ELSE f[k - 1] + Code(s[k])]

LEMMA SumExists ==
  ASSUME NEW s, NEW n \in Nat
  PROVE  \E f : IsSum(f, s, n)
<1> DEFINE Body(k, f) == IF k = 0 THEN 0 ELSE f[k - 1] + Code(s[k])
           A == {m \in Nat : \E f : f = [k \in 0..m |-> Body(k, f)]}
<1>1. 0 \in A
  <2> DEFINE g == [k \in 0..0 |-> 0]
  <2>1. g = [k \in 0..0 |-> Body(k, g)]
    OBVIOUS
  <2> HIDE DEF g, Body
  <2> QED
    BY <2>1
<1>2. ASSUME NEW m \in A PROVE m + 1 \in A
  <2>1. PICK f : f = [k \in 0..m |-> Body(k, f)]
    OBVIOUS
  <2> DEFINE g == [k \in 0..m + 1 |-> IF k \in 0..m THEN f[k] ELSE f[m] + Code(s[m + 1])]
  <2>2. ASSUME NEW k \in 0..m + 1 PROVE g[k] = Body(k, g)
    <3>1. m \in Nat
      OBVIOUS
    <3>2. CASE k = 0
      BY <2>1, <3>1, <3>2
    <3>3. CASE k \in 1..m
      <4>1. k \in 0..m /\ k - 1 \in 0..m /\ k - 1 \in 0..m + 1 /\ k # 0
        BY <3>1, <3>3
      <4>2. g[k] = f[k] /\ g[k - 1] = f[k - 1]
        BY <4>1
      <4>3. f[k] = Body(k, f)
        BY <2>1, <4>1
      <4> QED
        BY <4>1, <4>2, <4>3
    <3>4. CASE k = m + 1
      <4>1. k \notin 0..m /\ k - 1 = m /\ m \in 0..m /\ m \in 0..m + 1 /\ k # 0
        BY <3>1, <3>4
      <4>2. g[m] = f[m]
        BY <4>1
      <4> QED
        BY <3>4, <4>1, <4>2
    <3> QED
      BY <3>1, <3>2, <3>3, <3>4
  <2>3. g = [k \in 0..m + 1 |-> Body(k, g)]
    <3> HIDE DEF Body
    <3> QED
      BY <2>2
  <2> HIDE DEF g, Body
  <2> QED
    BY <2>3
<1>3. A = Nat
  <2> HIDE DEF A
  <2>1. A \in SUBSET Nat
    BY DEF A
  <2> QED
    BY <1>1, <1>2, <2>1, Induction
<1>4. n \in A
  <2> HIDE DEF A
  <2> QED
    BY <1>3
<1> QED
  BY <1>4 DEF IsSum

LEMMA HashIsAPlace ==
  ASSUME NEW s \in Words
  PROVE  HashPos(s) \in Places
<1>1. Len(s) \in Nat /\ (\A k \in 1..Len(s) : s[k] \in Letters)
  BY DEF Words
<1>2. \E f : IsSum(f, s, Len(s))
  BY <1>1, SumExists
<1>3. \E f : IsSum(f, s, Len(s)) /\ HashPos(s) = f[Len(s)] % TableSize
  BY <1>2, Zenon DEF HashPos, Fold, IsSum
<1>4. PICK f : IsSum(f, s, Len(s)) /\ HashPos(s) = f[Len(s)] % TableSize
  BY <1>3
<1> DEFINE A == {k \in Nat : k <= Len(s) => f[k] \in Nat}
<1>5. 0 \in A
  BY <1>1, <1>4 DEF IsSum
<1>6. ASSUME NEW k \in A PROVE k + 1 \in A
  <2> SUFFICES ASSUME k + 1 <= Len(s) PROVE f[k + 1] \in Nat
    OBVIOUS
  <2>1. k \in Nat /\ k + 1 \in 0..Len(s) /\ k + 1 \in 1..Len(s) /\ k + 1 # 0 /\ k + 1 - 1 = k /\ k <= Len(s)
    BY <1>1
  <2>2. f[k + 1] = f[k] + Code(s[k + 1])
    BY <1>4, <2>1 DEF IsSum
  <2>3. f[k] \in Nat /\ Code(s[k + 1]) \in Nat
    BY <1>1, <2>1, CodeIs
  <2> QED
    BY <2>2, <2>3
<1>7. A = Nat
  <2> HIDE DEF A
  <2>1. A \in SUBSET Nat
    BY DEF A
  <2> QED
    BY <1>5, <1>6, <2>1, Induction
<1>8. f[Len(s)] \in Nat
  <2>1. Len(s) \in A /\ Len(s) <= Len(s)
    <3> HIDE DEF A
    <3> QED
      BY <1>1, <1>7
  <2> QED
    BY <2>1
<1> QED
  BY <1>4, <1>8, TableAssumption DEF Places

LEMMA ProbeIsAPlace ==
  ASSUME NEW s \in Words, NEW k \in Places
  PROVE  Probe(s, k) \in Places
<1>1. HashPos(s) \in Nat /\ k \in Nat /\ ProbeStep \in Nat /\ TableSize \in Nat \ {0}
  BY HashIsAPlace, TableAssumption DEF Places
<1> DEFINE offset == k * ProbeStep
<1>2. offset \in Nat
  BY <1>1
<1> HIDE DEF offset
<1>3. (HashPos(s) + offset) % TableSize \in 0..TableSize - 1
  BY <1>1, <1>2
<1> QED
  BY <1>3 DEF Probe, Places, offset

Tries == [spls : Seq(Words), halves : SUBSET (1..HalfNum), shm : BOOLEAN, ym : BOOLEAN]

\* A search for what was put does not meet an empty place before it.
Reached(s) ==
  \E k \in Places : /\ raw[Probe(s, k)] = s
                    /\ \A j \in Places : j < k => raw[Probe(s, j)] # <<>>

RawInv ==
  /\ raw \in [Places -> Syllables \cup {<<>>}]
  /\ put = {raw[h] : h \in Places} \ {<<>>}
  /\ \A s \in put : Reached(s)

TrieInv ==
  /\ frozen \in BOOLEAN /\ trie \in Tries
  /\ IF frozen THEN IsTrieOf(trie, put) ELSE trie = NoTrie

TableInv == RawInv /\ TrieInv

LEMMA PutIs ==
  ASSUME RawInv
  PROVE  put \in SUBSET Syllables /\ put \in SUBSET (Words \ {<<>>}) /\ IsFiniteSet(put)
<1>1. put \in SUBSET Syllables
  BY DEF RawInv
<1> QED
  BY <1>1, TableAssumption, FS_Subset

LEMMA TableStart == TableInit => TableInv
<1> SUFFICES ASSUME TableInit PROVE TableInv
  OBVIOUS
<1>1. raw = [h \in Places |-> <<>>] /\ put = {} /\ frozen = FALSE /\ trie = NoTrie
  BY DEF TableInit
<1>2. RawInv
  <2>1. {raw[h] : h \in Places} \ {<<>>} = {}
    BY <1>1
  <2> QED
    BY <1>1, <2>1 DEF RawInv
<1>3. NoTrie \in Tries
  BY DEF NoTrie, Tries
<1> QED
  BY <1>1, <1>2, <1>3 DEF TableInv, TrieInv

LEMMA PutInv ==
  ASSUME TableInv, NEW s \in Syllables, PutSpelling(s)
  PROVE  TableInv'
<1> DEFINE free == {k \in Places : raw[Probe(s, k)] \in {s, <<>>}}
           m == Min(free)
           p == Probe(s, m)
<1>1. /\ ~frozen /\ free # {} /\ raw' = [raw EXCEPT ![p] = s] /\ put' = put \cup {s}
      /\ frozen' = frozen /\ trie' = trie
  BY DEF PutSpelling
<1>2. Places \in SUBSET Nat
  BY TableAssumption DEF Places
<1>3. m \in Places /\ raw[p] \in {s, <<>>} /\ \A j \in Places : j < m => raw[Probe(s, j)] \notin {s, <<>>}
  <2>1. free \in SUBSET Nat
    BY <1>2
  <2>2. m \in free /\ \A j \in free : m <= j
    <3> HIDE DEF free
    <3> QED
      BY <1>1, <2>1, MinIs
  <2>3. ASSUME NEW j \in Places, j < m PROVE j \notin free
    <3>1. j \in Nat /\ m \in Nat
      BY <1>2, <2>1, <2>2
    <3> HIDE DEF free, m
    <3> QED
      BY <2>2, <2>3, <3>1
  <2> QED
    BY <2>2, <2>3
<1>4. s \in Words /\ s # <<>>
  BY TableAssumption
<1>5. p \in Places
  BY <1>3, <1>4, ProbeIsAPlace
<1> HIDE DEF free, m, p
<1>6. raw' \in [Places -> Syllables \cup {<<>>}]
  BY <1>1 DEF TableInv, RawInv
<1>7. raw'[p] = s /\ \A h \in Places : h # p => raw'[h] = raw[h]
  BY <1>1, <1>5 DEF TableInv, RawInv
<1>8. put' = {raw'[h] : h \in Places} \ {<<>>}
  <2>1. put = {raw[h] : h \in Places} \ {<<>>}
    BY DEF TableInv, RawInv
  <2>2. ASSUME NEW x \in put' PROVE x # <<>> /\ \E h \in Places : raw'[h] = x
    <3>1. CASE x = s
      BY <3>1, <1>4, <1>5, <1>7
    <3>2. CASE x # s
      <4>1. x # <<>> /\ \E h \in Places : raw[h] = x
        BY <1>1, <2>1, <3>2
      <4> QED
        BY <4>1, <1>3, <1>7, <3>2
    <3> QED
      BY <3>1, <3>2
  <2>3. ASSUME NEW h \in Places, raw'[h] # <<>> PROVE raw'[h] \in put'
    BY <1>1, <1>7, <2>1, <2>3
  <2> QED
    BY <2>2, <2>3
\* No place becomes empty, and none loses its spelling.
<1>9. \A h \in Places : raw[h] # <<>> => raw'[h] = raw[h]
  BY <1>3, <1>7
<1>10. Reached(s)'
  <2>1. raw'[Probe(s, m)] = s
    BY <1>7 DEF p
  <2>2. ASSUME NEW j \in Places, j < m PROVE raw'[Probe(s, j)] # <<>>
    <3>1. Probe(s, j) \in Places /\ raw[Probe(s, j)] # <<>>
      BY <1>3, <1>4, <2>2, ProbeIsAPlace
    <3> QED
      BY <1>9, <3>1
  <2> QED
    BY <1>3, <2>1, <2>2 DEF Reached
<1>11. ASSUME NEW x \in put PROVE Reached(x)'
  <2>1. PICK k \in Places : raw[Probe(x, k)] = x /\ \A j \in Places : j < k => raw[Probe(x, j)] # <<>>
    BY DEF TableInv, RawInv, Reached
  <2>2. x \in Words /\ x # <<>>
    BY PutIs DEF TableInv
  <2>3. \A j \in Places : Probe(x, j) \in Places
    BY <2>2, ProbeIsAPlace
  <2>4. raw'[Probe(x, k)] = x /\ \A j \in Places : j < k => raw'[Probe(x, j)] # <<>>
    BY <1>9, <2>1, <2>2, <2>3
  <2> QED
    BY <2>4 DEF Reached
<1>12. RawInv'
  BY <1>1, <1>6, <1>8, <1>10, <1>11 DEF RawInv
<1>13. TrieInv'
  BY <1>1 DEF TableInv, TrieInv
<1> QED
  BY <1>12, <1>13 DEF TableInv

\* A trie is built of the sorted array.
LEMMA TrieIsBuilt ==
  ASSUME NEW S \in SUBSET (Words \ {<<>>}), IsFiniteSet(S), NEW shm \in BOOLEAN, NEW ym \in BOOLEAN
  PROVE  IsTrieOf(Trie(Sorted(S), shm, ym), S) /\ Trie(Sorted(S), shm, ym) \in Tries
<1> DEFINE spls == Sorted(S)
           t == Trie(spls, shm, ym)
<1>1. t.spls = spls /\ t.halves = Halves(spls, shm, ym) /\ t.shm = shm /\ t.ym = ym
  BY DEF Trie
<1>2. Sorts(spls, S) /\ Cardinality(S) \in Nat
  BY SortedSorts, FS_CardinalityType
<1>3. spls \in Seq(S) /\ ToSet(spls) = S
  BY <1>2 DEF Sorts, ToSet
<1>4. spls \in Seq(Words)
  BY <1>2 DEF Sorts
<1> HIDE DEF spls
<1>5. Halves(spls, shm, ym) \subseteq 1..HalfNum
  BY DEF Halves
<1>6. ASSUME NEW h \in Halves(spls, shm, ym) PROVE \E s \in S : IsPrefix(HalfStrs[h], s)
  <2>1. \/ \E s \in S : HalfStrs[h] = <<s[1]>>
        \/ \E s \in S : Len(s) > 1 /\ HalfStrs[h] = SubSeq(s, 1, 2)
    BY <1>3, <1>6, Zenon DEF Halves
  <2>2. HalfStrs[h] \in Words
    BY <1>5, HalfStrIs
  <2>3. ASSUME NEW s \in S, HalfStrs[h] = <<s[1]>> PROVE IsPrefix(HalfStrs[h], s)
    <3>1. s \in Words /\ s # <<>> /\ Len(s) \in Nat /\ Len(s) # 0
      BY DEF Words
    <3>2. Len(<<s[1]>>) = 1 /\ <<s[1]>>[1] = s[1] /\ 1 <= Len(s)
      BY <3>1
    <3>3. Agree(HalfStrs[h], s, Len(HalfStrs[h]))
      BY <2>3, <3>2 DEF Agree
    <3> QED
      BY <2>2, <3>1, <3>3, PrefixIs
  <2>4. ASSUME NEW s \in S, Len(s) > 1, HalfStrs[h] = SubSeq(s, 1, 2) PROVE IsPrefix(HalfStrs[h], s)
    <3>1. s \in Words /\ Len(s) \in Nat /\ 2 <= Len(s)
      BY <2>4 DEF Words
    <3>2. Len(SubSeq(s, 1, 2)) = 2 /\ \A i \in 1..2 : SubSeq(s, 1, 2)[i] = s[i]
      BY <3>1 DEF Words
    <3>3. Agree(HalfStrs[h], s, Len(HalfStrs[h]))
      BY <2>4, <3>1, <3>2 DEF Agree
    <3> QED
      BY <2>2, <3>1, <3>3, PrefixIs
  <2> QED
    BY <2>1, <2>3, <2>4
<1>7. t \in Tries
  BY <1>4, <1>5 DEF Trie, Tries
<1>8. IsTrieOf(t, S)
  <2>1. S \in SUBSET (Words \ {<<>>}) /\ IsFiniteSet(S)
    OBVIOUS
  <2> HIDE DEF t
  <2> QED
    BY <1>1, <1>5, <1>6, <2>1 DEF IsTrieOf, spls
<1> QED
  BY <1>7, <1>8 DEF spls

LEMMA ArrangeInv == TableInv /\ ArrangeAndConstruct => TableInv'
<1> SUFFICES ASSUME TableInv, ArrangeAndConstruct PROVE TableInv'
  OBVIOUS
<1>1. put = {raw[h] : h \in Places} \ {<<>>} /\ trie \in Tries
  BY DEF TableInv, RawInv, TrieInv
<1>2. /\ frozen' = TRUE /\ trie' = Trie(Sorted(put), trie.shm, trie.ym) /\ raw' = raw /\ put' = put
  BY <1>1 DEF ArrangeAndConstruct
<1>3. trie.shm \in BOOLEAN /\ trie.ym \in BOOLEAN
  BY <1>1 DEF Tries
<1>4. put \in SUBSET (Words \ {<<>>}) /\ IsFiniteSet(put)
  BY PutIs DEF TableInv
<1>5. IsTrieOf(trie', put) /\ trie' \in Tries
  BY <1>2, <1>3, <1>4, TrieIsBuilt
<1>6. RawInv'
  BY <1>2 DEF TableInv, RawInv, Reached
<1> QED
  BY <1>2, <1>5, <1>6 DEF TableInv, TrieInv

LEMMA LoadInv == TableInv /\ LoadSplTrie => TableInv'
<1> SUFFICES ASSUME TableInv, LoadSplTrie PROVE TableInv'
  OBVIOUS
<1>1. frozen /\ trie \in Tries /\ IsTrieOf(trie, put)
  BY DEF TableInv, TrieInv, LoadSplTrie
<1>2. /\ frozen' = frozen /\ trie' = Trie(trie.spls, trie.shm, trie.ym) /\ raw' = raw /\ put' = put
  BY DEF LoadSplTrie
<1>3. trie.shm \in BOOLEAN /\ trie.ym \in BOOLEAN /\ trie.spls = Sorted(put)
  BY <1>1 DEF Tries, IsTrieOf
<1>4. put \in SUBSET (Words \ {<<>>}) /\ IsFiniteSet(put)
  BY PutIs DEF TableInv
<1>5. IsTrieOf(trie', put) /\ trie' \in Tries
  BY <1>2, <1>3, <1>4, TrieIsBuilt
<1>6. RawInv'
  BY <1>2 DEF TableInv, RawInv, Reached
<1> QED
  BY <1>1, <1>2, <1>5, <1>6 DEF TableInv, TrieInv

LEMMA EnableInv ==
  ASSUME TableInv, NEW b \in BOOLEAN, SzmEnableShm(b) \/ SzmEnableYm(b)
  PROVE  TableInv'
<1>1. frozen /\ trie \in Tries /\ IsTrieOf(trie, put)
  BY DEF TableInv, TrieInv, SzmEnableShm, SzmEnableYm
<1>2. /\ frozen' = frozen /\ raw' = raw /\ put' = put
      /\ trie' = [trie EXCEPT !.shm = b] \/ trie' = [trie EXCEPT !.ym = b]
  BY DEF SzmEnableShm, SzmEnableYm
<1>3. trie' \in Tries /\ trie'.spls = trie.spls /\ trie'.halves = trie.halves
  BY <1>1, <1>2 DEF Tries
<1>4. IsTrieOf(trie', put')
  BY <1>1, <1>2, <1>3 DEF IsTrieOf
<1>5. RawInv'
  BY <1>2 DEF TableInv, RawInv, Reached
<1> QED
  BY <1>1, <1>2, <1>3, <1>4, <1>5 DEF TableInv, TrieInv

LEMMA TableStep == TableInv /\ [TableNext]_stVars => TableInv'
<1> SUFFICES ASSUME TableInv, [TableNext]_stVars PROVE TableInv'
  OBVIOUS
<1>1. ASSUME NEW s \in Syllables, PutSpelling(s) PROVE TableInv'
  BY <1>1, PutInv
<1>2. CASE ArrangeAndConstruct
  BY <1>2, ArrangeInv
<1>3. CASE LoadSplTrie
  BY <1>3, LoadInv
<1>4. ASSUME NEW b \in BOOLEAN, SzmEnableShm(b) \/ SzmEnableYm(b) PROVE TableInv'
  BY <1>4, EnableInv
<1>5. CASE UNCHANGED stVars
  BY <1>5 DEF stVars, TableInv, RawInv, TrieInv, Reached, IsTrieOf
<1> QED
  BY <1>1, <1>2, <1>3, <1>4, <1>5 DEF TableNext

\* The search finds a spelling exactly when it has been put.
LEMMA ContainsWhatWasPut ==
  ASSUME RawInv, ~frozen, NEW s \in Syllables
  PROVE  Contain(s) <=> s \in put
<1> DEFINE stops == {k \in Places : raw[Probe(s, k)] \in {s, <<>>}}
           m == Min(stops)
<1>1. s \in Words /\ s # <<>> /\ Places \in SUBSET Nat /\ put = {raw[h] : h \in Places} \ {<<>>}
  BY TableAssumption DEF Places, RawInv
<1>2. stops \in SUBSET Nat
  BY <1>1
<1>3. Contain(s) <=> stops # {} /\ raw[Probe(s, m)] = s
  BY DEF Contain
<1>4. stops # {} => m \in stops /\ \A j \in stops : m <= j
  <2> HIDE DEF stops
  <2> QED
    BY <1>2, MinIs
<1>5. ASSUME Contain(s) PROVE s \in put
  <2>1. m \in Places /\ raw[Probe(s, m)] = s
    BY <1>3, <1>4, <1>5
  <2> HIDE DEF m
  <2>2. Probe(s, m) \in Places
    BY <1>1, <2>1, ProbeIsAPlace
  <2> QED
    BY <1>1, <2>1, <2>2
<1>6. ASSUME s \in put PROVE Contain(s)
  <2>1. PICK k \in Places : raw[Probe(s, k)] = s /\ \A j \in Places : j < k => raw[Probe(s, j)] # <<>>
    BY <1>6 DEF RawInv, Reached
  <2>2. k \in stops
    BY <2>1
  <2>3. m \in stops /\ m <= k
    BY <1>4, <2>2
  <2>4. m \in Places /\ m \in Nat /\ k \in Nat /\ raw[Probe(s, m)] \in {s, <<>>}
    BY <1>1, <2>3
  <2>5. stops # {}
    BY <2>2
  <2> HIDE DEF m, stops
  <2>6. raw[Probe(s, m)] = s
    BY <2>1, <2>3, <2>4
  <2> QED
    BY <1>3, <2>5, <2>6
<1> QED
  BY <1>5, <1>6

LEMMA ParseIsSound ==
  ASSUME NEW t, NEW S, IsTrieOf(t, S), NEW str \in Strings(4)
  PROVE  LET p == Parse(t, str, 4)
             n == Len(p.ids)
         IN  /\ \A k \in 1..n : LET piece == SubSeq(str, p.starts[k] + 1, p.starts[k + 1])
                                IN  IsPrefix(piece, SpellingStr(t, p.ids[k])) /\ piece # <<>>
             /\ str \in S /\ Len(str) > 1 /\ (\A h \in t.halves : HalfStrs[h] # str)
                  => p.ids = <<NodeId(t, str)>> /\ GetSplidByStr(t, str).id = p.ids[1]
<1> DEFINE p == Parse(t, str, 4)
<1>1. str \in Words
  <2>1. PICK k \in 1..4 : str \in [1..k -> Letters]
    BY DEF Strings
  <2>2. k \in Nat
    OBVIOUS
  <2> QED
    BY <2>1, <2>2 DEF Words
<1>2. ASSUME NEW k \in 1..Len(p.ids)
      PROVE  LET piece == SubSeq(str, p.starts[k] + 1, p.starts[k + 1])
             IN  IsPrefix(piece, SpellingStr(t, p.ids[k])) /\ piece # <<>>
  <2>1. Spells(t, str, p.starts[k], p.starts[k + 1], p.ids[k]) /\ p.starts[k] \in Nat /\ p.starts[k + 1] \in Nat
    BY <1>1, ParseCuts
  <2> HIDE DEF p
  <2> DEFINE a == p.starts[k]
             b == p.starts[k + 1]
  <2>2. a \in Nat /\ b \in Nat /\ a < b /\ b <= Len(str)
    BY <2>1 DEF Spells
  <2>3. Len(SubSeq(str, a + 1, b)) = b - a
    <3>1. \A i \in a + 1..b : str[i] \in Letters
      BY <1>1, <2>2 DEF Words
    <3>2. a + 1 \in Int /\ b \in Int /\ a + 1 <= b /\ b - (a + 1) + 1 = b - a
      BY <2>2
    <3> HIDE DEF a, b
    <3> QED
      BY <3>1, <3>2, SubSeqProperties
  <2>4. SubSeq(str, a + 1, b) # <<>>
    <3> HIDE DEF a, b
    <3> QED
      BY <2>2, <2>3
  <2> QED
    BY <2>1, <2>4 DEF Spells
<1>3. ASSUME str \in S, \A h \in t.halves : HalfStrs[h] # str
      PROVE  p.ids = <<NodeId(t, str)>> /\ GetSplidByStr(t, str).id = p.ids[1]
  <2>1. p.ids = <<NodeId(t, str)>>
    BY <1>3, WholeParse
  <2>2. Parse(t, str, 2).ids = <<NodeId(t, str)>> /\ Parse(t, str, 2).starts = <<0, Len(str)>>
    BY <1>3, WholeParse
  <2>3. GetSplidByStr(t, str).id = NodeId(t, str)
    <3> DEFINE q == Parse(t, str, 2)
    <3>1. GetSplidByStr(t, str).id = IF Len(q.ids) = 1 /\ q.starts[2] = Len(str) THEN q.ids[1] ELSE 0
      BY DEF GetSplidByStr
    <3> HIDE DEF q
    <3>2. q.ids = <<NodeId(t, str)>> /\ q.starts = <<0, Len(str)>>
      BY <2>2 DEF q
    <3>3. Len(q.ids) = 1 /\ q.ids[1] = NodeId(t, str) /\ q.starts[2] = Len(str)
      BY <3>2
    <3> QED
      BY <3>1, <3>3
  <2> QED
    BY <2>1, <2>3
<1> QED
  BY <1>2, <1>3

LEMMA SpellingsHold == TableInv => SpellingsAreSound
<1> SUFFICES ASSUME TableInv PROVE SpellingsAreSound
  OBVIOUS
<1>1. RawInv /\ (frozen => IsTrieOf(trie, put)) /\ (~frozen => trie.halves = {})
  BY DEF TableInv, TrieInv, NoTrie
<1>2. TableHoldsWhatWasPut
  <2>1. ~frozen => \A s \in Syllables : Contain(s) <=> s \in put
    BY <1>1, ContainsWhatWasPut
  <2>2. frozen => ToSet(trie.spls) = put /\ Len(trie.spls) = Cardinality(put)
    BY <1>1, SplsAre
  <2> QED
    BY <2>1, <2>2 DEF TableHoldsWhatWasPut
<1>3. HalfIdsAreRanges
  BY <1>1, HalvesStandForTheirRange, FullIdsFindTheirHalf DEF HalfIdsAreRanges
<1>4. ParseSpells
  BY <1>1, ParseIsSound DEF ParseSpells
<1> QED
  BY <1>2, <1>3, <1>4 DEF SpellingsAreSound

\* However the spellings collide in the table and whichever letters are switched
\* on and off, the table contains what was put, the array has it sorted, each
\* half id stands for the range of the spellings it begins, and the parser cuts
\* a string into pieces that begin their spellings (spellingtable.cpp,
\* spellingtrie.cpp, splparser.cpp).
THEOREM SpellingsCorrect == TableSpec => []SpellingsAreSound
<1>1. TableInit => TableInv
  BY TableStart
<1>2. TableInv /\ [TableNext]_stVars => TableInv'
  BY TableStep
<1>3. TableInv => SpellingsAreSound
  BY SpellingsHold
<1> QED
  BY <1>1, <1>2, <1>3, PTL DEF TableSpec

-----------------------------------------------------------------------------
(* TextReader: the tokens of a line.                                          *)

LEMMA StopIsBehind ==
  ASSUME NEW S, NEW line \in Seq(S), NEW k \in 1..Len(line) + 1, Begins(line, k) # {}
  PROVE  LET i == Min(Begins(line, k))
         IN  /\ i \in k..Len(line) /\ line[i] # "blank" /\ \A h \in k..(i - 1) : line[h] = "blank"
             /\ Stop(line, i) \in (i + 1)..(Len(line) + 1)
             /\ \A h \in i..(Stop(line, i) - 1) : line[h] # "blank"
             /\ Blanks(line, i) # {} => Stop(line, i) <= Len(line) /\ line[Stop(line, i)] = "blank"
             /\ Blanks(line, i) = {} => Stop(line, i) = Len(line) + 1
<1> DEFINE i == Min(Begins(line, k))
<1>1. Len(line) \in Nat
  BY LenProperties
<1>2. Begins(line, k) \in SUBSET Nat
  BY <1>1 DEF Begins
<1>3. i \in Begins(line, k) /\ \A h \in Begins(line, k) : i <= h
  BY <1>2, MinIs
<1> HIDE DEF i
<1>4. i \in k..Len(line) /\ line[i] # "blank" /\ \A h \in k..(i - 1) : line[h] = "blank"
  BY <1>1, <1>3 DEF Begins
<1>5. CASE Blanks(line, i) = {}
  <2>1. Stop(line, i) = Len(line) + 1
    BY <1>5 DEF Stop
  <2>2. \A h \in i..Len(line) : line[h] # "blank"
    BY <1>5 DEF Blanks
  <2> QED
    BY <1>1, <1>4, <1>5, <2>1, <2>2 DEF i
<1>6. CASE Blanks(line, i) # {}
  <2>1. Blanks(line, i) \in SUBSET Nat
    BY <1>1, <1>4 DEF Blanks
  <2>2. Stop(line, i) \in Blanks(line, i) /\ \A h \in Blanks(line, i) : Stop(line, i) <= h
    BY <1>6, <2>1, MinIs DEF Stop
  <2>3. Stop(line, i) \in i..Len(line) /\ line[Stop(line, i)] = "blank" /\ Stop(line, i) # i
    BY <1>4, <2>2 DEF Blanks
  <2>4. \A h \in i..(Stop(line, i) - 1) : line[h] # "blank"
    BY <1>1, <1>4, <2>2, <2>3 DEF Blanks
  <2> QED
    BY <1>1, <1>4, <1>6, <2>3, <2>4 DEF i
<1> QED
  BY <1>5, <1>6

\* The tokens from each place of the line on exist: from the end backwards, what
\* a call gives depends on what is behind it only.
LEMMA CallsExist ==
  ASSUME NEW S, NEW line \in Seq(S)
  PROVE  \E f : f = [k \in 1..Len(line) + 1 |-> TokensFrom(line, k, f)]
<1>1. Len(line) \in Nat
  BY LenProperties
<1> DEFINE n == Len(line)
           Good(g, m) == \A k \in 1..n + 1 : k + m > n => g[k] = TokensFrom(line, k, g)
           A == {m \in Nat : m <= n => \E g : g = [k \in 1..n + 1 |-> g[k]] /\ Good(g, m)}
<1>2. ASSUME NEW g, NEW h, NEW k \in 1..n + 1, \A j \in 1..n + 1 : j > k => g[j] = h[j]
      PROVE  TokensFrom(line, k, g) = TokensFrom(line, k, h)
  <2>1. CASE Begins(line, k) = {}
    BY <2>1 DEF TokensFrom
  <2>2. CASE Begins(line, k) # {}
    <3> DEFINE i == Min(Begins(line, k))
    <3>1. /\ i \in k..n /\ Stop(line, i) \in (i + 1)..(n + 1)
          /\ Blanks(line, i) # {} => Stop(line, i) <= n
      BY <2>2, StopIsBehind
    <3> HIDE DEF i
    <3>2. Blanks(line, i) # {} => g[Stop(line, i) + 1] = h[Stop(line, i) + 1]
      BY <1>1, <1>2, <3>1
    <3> QED
      BY <3>2 DEF TokensFrom, i
  <2> QED
    BY <2>1, <2>2
<1>n. n \in Nat
  BY <1>1
<1> HIDE DEF n
<1>3. 0 \in A
  <2> DEFINE g0 == [k \in 1..n + 1 |-> <<>>]
             g == [k \in 1..n + 1 |-> TokensFrom(line, k, g0)]
  <2>1. ASSUME NEW k \in 1..n + 1, k + 0 > n PROVE g[k] = TokensFrom(line, k, g)
    <3>1. TokensFrom(line, k, g0) = TokensFrom(line, k, g)
      BY <1>n, <1>2, <2>1
    <3> QED
      BY <3>1
  <2> QED
    BY <2>1
<1>4. ASSUME NEW m \in A PROVE m + 1 \in A
  <2> SUFFICES ASSUME m + 1 <= n PROVE \E g : g = [k \in 1..n + 1 |-> g[k]] /\ Good(g, m + 1)
    OBVIOUS
  <2>1. PICK h : h = [k \in 1..n + 1 |-> h[k]] /\ Good(h, m)
    BY <1>n
  <2> DEFINE g == [k \in 1..n + 1 |-> IF k + m > n THEN h[k] ELSE TokensFrom(line, k, h)]
  <2>2. ASSUME NEW k \in 1..n + 1, k + (m + 1) > n PROVE g[k] = TokensFrom(line, k, g)
    <3>1. \A j \in 1..n + 1 : j > k => h[j] = g[j]
      BY <1>n, <2>2
    <3>2. TokensFrom(line, k, h) = TokensFrom(line, k, g)
      BY <1>2, <3>1
    <3> QED
      BY <2>1, <3>2
  <2> QED
    BY <2>2
<1>5. A = Nat
  BY <1>3, <1>4, Induction
<1>6. PICK f : f = [k \in 1..n + 1 |-> f[k]] /\ Good(f, n)
  BY <1>n, <1>5
<1>7. \A k \in 1..n + 1 : f[k] = TokensFrom(line, k, f)
  BY <1>n, <1>6
<1>8. f = [k \in 1..n + 1 |-> TokensFrom(line, k, f)]
  BY <1>6, <1>7
<1> QED
  BY <1>8 DEF n

LEMMA TokensAreCut ==
  ASSUME NEW S, NEW line \in Seq(S)
  PROVE  \E f : f = [k \in 1..Len(line) + 1 |-> TokensFrom(line, k, f)] /\ Tokens(line) = f[1]
  BY CallsExist, Zenon DEF Tokens

\* A run of what is not blank, from a to b.
IsRun(line, a, b) ==
  /\ a <= b /\ \A m \in a..b : line[m] # "blank"
  /\ a = 1 \/ line[a - 1] = "blank"
  /\ b = Len(line) \/ line[b + 1] = "blank"

\* What the calls from place k on have to find.
RunsFrom(line, k) == {SubSeq(line, r[1], r[2]) : r \in {q \in Runs(line) : k <= q[1]}}

LEMMA InRunsFrom ==
  ASSUME NEW S, NEW line \in Seq(S), NEW k \in Nat, NEW t
  PROVE  t \in RunsFrom(line, k) <=>
           \E a \in 1..Len(line), b \in 1..Len(line) : k <= a /\ IsRun(line, a, b) /\ t = SubSeq(line, a, b)
<1>1. ASSUME t \in RunsFrom(line, k)
      PROVE  \E a \in 1..Len(line), b \in 1..Len(line) : k <= a /\ IsRun(line, a, b) /\ t = SubSeq(line, a, b)
  <2>1. PICK r \in Runs(line) : k <= r[1] /\ t = SubSeq(line, r[1], r[2])
    BY <1>1 DEF RunsFrom
  <2>2. r[1] \in 1..Len(line) /\ r[2] \in 1..Len(line) /\ IsRun(line, r[1], r[2])
    BY DEF Runs, IsRun
  <2> QED
    BY <2>1, <2>2
<1>2. ASSUME NEW a \in 1..Len(line), NEW b \in 1..Len(line), k <= a, IsRun(line, a, b), t = SubSeq(line, a, b)
      PROVE  t \in RunsFrom(line, k)
  <2>1. <<a, b>> \in (1..Len(line)) \X (1..Len(line)) /\ <<a, b>>[1] = a /\ <<a, b>>[2] = b
    OBVIOUS
  <2>2. <<a, b>> \in Runs(line)
    BY <1>2, <2>1, Zenon DEF Runs, IsRun
  <2>3. <<a, b>> \in {q \in Runs(line) : k <= q[1]}
    BY <1>2, <2>1, <2>2
  <2> QED
    BY <1>2, <2>1, <2>3, Zenon DEF RunsFrom
<1> QED
  BY <1>1, <1>2

LEMMA ToSetOfTwo ==
  ASSUME NEW T, NEW x \in T, NEW s \in Seq(T)
  PROVE  <<x>> \o s \in Seq(T) /\ ToSet(<<x>> \o s) = {x} \cup ToSet(s)
<1>1. <<x>> \in Seq(T) /\ Len(<<x>>) = 1 /\ <<x>>[1] = x
  OBVIOUS
<1>2. Len(s) \in Nat /\ DOMAIN s = 1..Len(s)
  BY LenProperties
<1> DEFINE both == <<x>> \o s
<1>3. /\ both \in Seq(T) /\ Len(both) = 1 + Len(s)
      /\ \A i \in 1..1 + Len(s) : both[i] = IF i <= 1 THEN x ELSE s[i - 1]
  BY <1>1, ConcatProperties
<1> HIDE DEF both
<1>4. DOMAIN both = 1..1 + Len(s)
  BY <1>3, LenProperties
<1>5. ASSUME NEW i \in DOMAIN both PROVE both[i] \in {x} \cup ToSet(s)
  <2>1. CASE i = 1
    BY <2>1, <1>2, <1>3, <1>4
  <2>2. CASE i # 1
    <3>1. i - 1 \in DOMAIN s /\ both[i] = s[i - 1]
      BY <2>2, <1>2, <1>3, <1>4
    <3> QED
      BY <3>1 DEF ToSet
  <2> QED
    BY <2>1, <2>2
<1>6. x \in ToSet(both)
  <2>1. 1 \in DOMAIN both /\ both[1] = x
    BY <1>2, <1>3, <1>4
  <2> QED
    BY <2>1 DEF ToSet
<1>7. ASSUME NEW i \in DOMAIN s PROVE s[i] \in ToSet(both)
  <2>1. i + 1 \in DOMAIN both /\ both[i + 1] = s[i]
    BY <1>2, <1>3, <1>4
  <2> QED
    BY <2>1 DEF ToSet
<1>8. ToSet(both) = {x} \cup ToSet(s)
  BY <1>5, <1>6, <1>7 DEF ToSet
<1> QED
  BY <1>3, <1>8 DEF both

LEMMA ToSetOfOne == ASSUME NEW T, NEW x \in T PROVE <<x>> \in Seq(T) /\ ToSet(<<x>>) = {x}
<1>1. <<x>> \in Seq(T) /\ DOMAIN <<x>> = {1} /\ <<x>>[1] = x
  OBVIOUS
<1> QED
  BY <1>1 DEF ToSet

\* One call finds the first run at or behind its place, if it is not within one.
LEMMA CallFindsRun ==
  ASSUME NEW S, NEW line \in Seq(S), NEW k \in 1..Len(line) + 1,
         k = 1 \/ line[k - 1] = "blank",
         Begins(line, k) # {},
         NEW i, i = Min(Begins(line, k)), NEW s, s = Stop(line, i)
  PROVE  /\ i \in 1..Len(line) /\ s - 1 \in 1..Len(line) /\ k <= i /\ IsRun(line, i, s - 1)
         /\ \A a \in 1..Len(line), b \in 1..Len(line) :
              k <= a /\ IsRun(line, a, b) => (a = i /\ b = s - 1) \/ (Blanks(line, i) # {} /\ s + 1 <= a)
<1>1. Len(line) \in Nat
  BY LenProperties
<1>2. /\ i \in k..Len(line) /\ line[i] # "blank" /\ \A h \in k..(i - 1) : line[h] = "blank"
      /\ s \in (i + 1)..(Len(line) + 1)
      /\ \A h \in i..(s - 1) : line[h] # "blank"
      /\ Blanks(line, i) # {} => s <= Len(line) /\ line[s] = "blank"
      /\ Blanks(line, i) = {} => s = Len(line) + 1
  BY StopIsBehind
<1>3. i = 1 \/ line[i - 1] = "blank"
  BY <1>1, <1>2
<1>4. s - 1 = Len(line) \/ line[(s - 1) + 1] = "blank"
  BY <1>1, <1>2
<1>5. IsRun(line, i, s - 1)
  BY <1>1, <1>2, <1>3, <1>4 DEF IsRun
<1>6. ASSUME NEW a \in 1..Len(line), NEW b \in 1..Len(line), k <= a, IsRun(line, a, b)
      PROVE  (a = i /\ b = s - 1) \/ (Blanks(line, i) # {} /\ s + 1 <= a)
  <2>1. line[a] # "blank" /\ a <= b /\ \A m \in a..b : line[m] # "blank"
    BY <1>6 DEF IsRun
  <2>2. i <= a
    BY <1>1, <1>2, <1>6, <2>1
  <2>3. CASE a = i
    <3>1. b <= s - 1
      BY <1>1, <1>2, <2>1, <2>3
    <3>2. b >= s - 1
      BY <1>1, <1>2, <1>6, <2>1, <2>3 DEF IsRun
    <3>3. b \in Int /\ s \in Int
      BY <1>1, <1>2
    <3>4. b = s - 1
      BY <3>1, <3>2, <3>3
    <3> QED
      BY <2>3, <3>4
  <2>4. CASE a # i
    <3>1. a - 1 \in i..Len(line) /\ line[a - 1] = "blank"
      BY <1>1, <1>2, <1>6, <2>2, <2>4 DEF IsRun
    <3>2. Blanks(line, i) # {}
      BY <3>1 DEF Blanks
    <3>3. a - 1 >= s
      BY <1>1, <1>2, <3>1
    <3>4. a # s
      BY <1>2, <2>1, <3>2
    <3> QED
      BY <1>1, <1>2, <3>2, <3>3, <3>4
  <2> QED
    BY <2>3, <2>4
<1> QED
  BY <1>1, <1>2, <1>5, <1>6

\* The tokens are the runs of what is not blank.
LEMMA TokensAreRuns ==
  ASSUME NEW S, NEW line \in Seq(S)
  PROVE  ToSet(Tokens(line)) = {SubSeq(line, r[1], r[2]) : r \in Runs(line)}
<1>1. Len(line) \in Nat /\ \A h \in 1..Len(line) : line[h] \in S
  BY LenProperties, ElementOfSeq
<1> DEFINE n == Len(line)
           Right(g, k) == g[k] \in Seq(Seq(S)) /\ ToSet(g[k]) = RunsFrom(line, k)
           AtStart(k) == k = 1 \/ line[k - 1] = "blank"
<1>2. PICK f : f = [k \in 1..n + 1 |-> TokensFrom(line, k, f)] /\ Tokens(line) = f[1]
  BY TokensAreCut
<1>3. \A k \in 1..n + 1 : f[k] = TokensFrom(line, k, f)
  BY <1>2
<1> DEFINE A == {m \in Nat : \A k \in 1..n + 1 : k + m > n /\ AtStart(k) => Right(f, k)}
<1>n. n \in Nat
  BY <1>1
<1>4. ASSUME NEW k \in 1..n + 1, AtStart(k), \A j \in 1..n + 1 : j > k /\ AtStart(j) => Right(f, j)
      PROVE  Right(f, k)
  <2>1. CASE Begins(line, k) = {}
    <3>1. f[k] = <<>>
      BY <1>3, <2>1 DEF TokensFrom
    <3>2. ToSet(<<>>) = {} /\ <<>> \in Seq(Seq(S))
      BY EmptySeq DEF ToSet
    <3>3. ASSUME NEW a \in 1..n, NEW b \in 1..n, k <= a, IsRun(line, a, b) PROVE FALSE
      <4>1. line[a] # "blank"
        BY <1>1, <3>3 DEF IsRun
      <4>2. a \in k..Len(line)
        BY <1>1, <3>3
      <4> QED
        BY <2>1, <4>1, <4>2 DEF Begins
    <3>4. RunsFrom(line, k) = {}
      BY <3>3, InRunsFrom
    <3> QED
      BY <3>1, <3>2, <3>4
  <2>2. CASE Begins(line, k) # {}
    <3>1. PICK i : i = Min(Begins(line, k))
      OBVIOUS
    <3>2. PICK s : s = Stop(line, i)
      OBVIOUS
    <3>3. /\ i \in 1..n /\ s - 1 \in 1..n /\ k <= i /\ IsRun(line, i, s - 1)
          /\ \A a \in 1..n, b \in 1..n :
               k <= a /\ IsRun(line, a, b) => (a = i /\ b = s - 1) \/ (Blanks(line, i) # {} /\ s + 1 <= a)
      BY <1>4, <2>2, <3>1, <3>2, CallFindsRun
    <3>4. s \in (i + 1)..(n + 1) /\ (Blanks(line, i) # {} => s <= n /\ line[s] = "blank")
      BY <2>2, <3>1, <3>2, StopIsBehind
    <3> DEFINE t == SubSeq(line, i, s - 1)
    <3>5. t \in Seq(S)
      <4>1. \A h \in i..(s - 1) : line[h] \in S
        BY <1>1, <3>3, <3>4
      <4>2. i \in Int /\ s - 1 \in Int
        BY <3>3
      <4> QED
        BY <4>1, <4>2, SubSeqProperties
    <3>6. t \in RunsFrom(line, k)
      <4>1. \E a \in 1..Len(line), b \in 1..Len(line) : k <= a /\ IsRun(line, a, b) /\ t = SubSeq(line, a, b)
        BY <3>3
      <4>2. k \in Nat
        BY <1>n
      <4> HIDE DEF t
      <4> QED
        BY <4>1, <4>2, InRunsFrom
    <3>7. f[k] = <<t>> \o (IF Blanks(line, i) = {} THEN <<>> ELSE f[s + 1])
      BY <1>3, <2>2, <3>1, <3>2 DEF TokensFrom
    <3> HIDE DEF t
    <3>8. CASE Blanks(line, i) = {}
      <4>1. f[k] = <<t>>
        <5>1. <<t>> \in Seq(Seq(S))
          BY <3>5, ToSetOfOne
        <5> QED
          BY <3>7, <3>8, <5>1, ConcatEmptySeq
      <4>2. f[k] \in Seq(Seq(S)) /\ ToSet(f[k]) = {t}
        BY <3>5, <4>1, ToSetOfOne
      <4>3. \A x \in RunsFrom(line, k) : x = t
        BY <3>3, <3>8, InRunsFrom DEF t
      <4> QED
        BY <3>6, <4>2, <4>3
    <3>9. CASE Blanks(line, i) # {}
      <4>1. s + 1 \in 1..n + 1 /\ s + 1 > k /\ (s + 1) - 1 = s
        BY <1>n, <3>3, <3>4, <3>9
      <4>2. AtStart(s + 1)
        BY <3>4, <3>9, <4>1
      <4>3. Right(f, s + 1)
        BY <1>4, <4>1, <4>2
      <4>4. f[k] \in Seq(Seq(S)) /\ ToSet(f[k]) = {t} \cup RunsFrom(line, s + 1)
        BY <3>5, <3>7, <3>9, <4>3, ToSetOfTwo
      <4>5. \A x \in RunsFrom(line, k) : x = t \/ x \in RunsFrom(line, s + 1)
        <5>1. k \in Nat /\ s + 1 \in Nat
          BY <1>n, <4>1
        <5>2. ASSUME NEW x \in RunsFrom(line, k) PROVE x = t \/ x \in RunsFrom(line, s + 1)
          <6>1. PICK a \in 1..n, b \in 1..n : k <= a /\ IsRun(line, a, b) /\ x = SubSeq(line, a, b)
            BY <5>1, InRunsFrom
          <6>2. (a = i /\ b = s - 1) \/ s + 1 <= a
            BY <3>3, <6>1
          <6> QED
            BY <5>1, <6>1, <6>2, InRunsFrom DEF t
        <5> QED
          BY <5>2
      <4>6. \A x \in RunsFrom(line, s + 1) : x \in RunsFrom(line, k)
        <5>1. \A a \in 1..n : s + 1 <= a => k <= a
          BY <1>n, <3>3, <3>4, <4>1
        <5> QED
          BY <1>n, <4>1, <5>1, InRunsFrom
      <4> QED
        BY <3>6, <4>4, <4>5, <4>6
    <3> QED
      BY <3>8, <3>9
  <2> QED
    BY <2>1, <2>2
<1> HIDE DEF n, Right, AtStart
<1>5. 0 \in A
  BY <1>n, <1>4
<1>6. ASSUME NEW m \in A PROVE m + 1 \in A
  <2>1. ASSUME NEW k \in 1..n + 1, k + (m + 1) > n, AtStart(k) PROVE Right(f, k)
    <3>1. \A j \in 1..n + 1 : j > k => j + m > n
      BY <1>n, <2>1
    <3> QED
      BY <1>4, <1>6, <2>1, <3>1
  <2> QED
    BY <2>1
<1>7. A = Nat
  BY <1>5, <1>6, Induction
<1>8. Right(f, 1)
  <2>1. 1 \in 1..n + 1 /\ 1 + n > n
    BY <1>n
  <2>2. n \in A
    BY <1>n, <1>7
  <2> QED
    BY <2>1, <2>2 DEF AtStart
<1>9. ToSet(Tokens(line)) = RunsFrom(line, 1)
  BY <1>2, <1>8 DEF Right
<1>10. {q \in Runs(line) : 1 <= q[1]} = Runs(line)
  BY <1>1 DEF Runs
<1> QED
  BY <1>9, <1>10 DEF RunsFrom

-----------------------------------------------------------------------------
(* TextReader: the invariant.                                                 *)

\* Where the line behind end e ends, and which line it is.
NextEnd(e) == LET next == {j \in Ends : j > e} IN IF next = {} THEN Len(text) + 1 ELSE Min(next)
Rank(e) == Cardinality({j \in Ends : j <= e})

\* The reader is in the line behind l, of which it has copied what is up to p; the
\* buffer holds what is up to c.  Or the last line has been returned.
At(l, p, c) ==
  /\ l <= p /\ p <= c /\ c <= Len(text)
  /\ part = SubSeq(text, l + 1, p) /\ buffer = SubSeq(text, p + 1, c) /\ rest = SubSeq(text, c + 1, Len(text))
  /\ \A h \in l + 1..p : text[h] # "LF"
  /\ \/ l \in Ends /\ Rank(l) = Len(got) + 1
     \/ l = Len(text) /\ Len(got) = Cardinality(Ends)

Returned(k) == \E e \in Ends : Rank(e) = k /\ got[k] = IF k < Cardinality(Ends) THEN WithoutCR(LineFrom(e)) ELSE LineFrom(e)

ReaderType ==
  /\ text \in Seq(Chars) /\ rest \in Seq(Chars) /\ buffer \in Seq(Chars) /\ part \in Seq(Chars)
  /\ got \in Seq(Seq(Chars))
  /\ reading \in {"closed", "line", "done"}

ReaderInv ==
  /\ ReaderType
  /\ reading = "closed" => buffer = <<>> /\ part = <<>> /\ got = <<>>
  /\ AllFit /\ reading # "closed" => \E l, p, c \in 0..Len(text) : At(l, p, c)
  /\ AllFit => \A k \in 1..Len(got) : Returned(k)
  /\ AllFit /\ reading = "done" => Len(got) >= Cardinality(Ends) - 1

LEMMA EndsAre ==
  ASSUME text \in Seq(Chars)
  PROVE  /\ Len(text) \in Nat /\ Ends \subseteq 0..Len(text) /\ Ends \in SUBSET Nat /\ 0 \in Ends
         /\ IsFiniteSet(Ends) /\ Cardinality(Ends) \in Nat
<1>1. Len(text) \in Nat
  BY LenProperties
<1>2. Ends \subseteq 0..Len(text) /\ Ends \in SUBSET Nat /\ 0 \in Ends
  BY <1>1 DEF Ends
<1>3. IsFiniteSet(Ends)
  <2>1. IsFiniteSet(0..Len(text))
    BY <1>1, FS_Interval
  <2> QED
    BY <1>2, <2>1, FS_Subset
<1> QED
  BY <1>1, <1>2, <1>3, FS_CardinalityType

\* The line behind an end reaches to the next one, and there is none within it.
LEMMA LineSpan ==
  ASSUME text \in Seq(Chars), NEW e \in Ends
  PROVE  /\ NextEnd(e) \in e + 1..Len(text) + 1
         /\ \A h \in e + 1..NextEnd(e) - 1 : h \notin Ends /\ text[h] # "LF"
         /\ NextEnd(e) <= Len(text) => NextEnd(e) \in Ends /\ text[NextEnd(e)] = "LF"
         /\ LineFrom(e) = SubSeq(text, e + 1, NextEnd(e) - 1)
         /\ LineFrom(e) \in Seq(Chars) /\ Len(LineFrom(e)) = NextEnd(e) - (e + 1)
<1>1. Len(text) \in Nat /\ Ends \subseteq 0..Len(text) /\ Ends \in SUBSET Nat /\ e \in 0..Len(text)
  BY EndsAre
<1> DEFINE next == {j \in Ends : j > e}
<1>2. next \in SUBSET Nat
  BY <1>1
<1>3. NextEnd(e) \in e + 1..Len(text) + 1 /\ (NextEnd(e) <= Len(text) => NextEnd(e) \in Ends)
      /\ \A j \in Ends : j > e => NextEnd(e) <= j
  <2>1. CASE next = {}
    BY <1>1, <2>1 DEF NextEnd
  <2>2. CASE next # {}
    <3>1. NextEnd(e) = Min(next)
      BY <2>2 DEF NextEnd
    <3>2. NextEnd(e) \in next /\ \A j \in next : NextEnd(e) <= j
      BY <1>2, <2>2, <3>1, MinIs
    <3>3. NextEnd(e) \in Ends /\ NextEnd(e) > e /\ \A j \in Ends : j > e => NextEnd(e) <= j
      BY <3>2
    <3>4. NextEnd(e) \in 0..Len(text)
      BY <1>1, <3>3
    <3>5. NextEnd(e) \in e + 1..Len(text) + 1
      BY <1>1, <3>3, <3>4
    <3> QED
      BY <3>3, <3>5
  <2> QED
    BY <2>1, <2>2
<1>4. LineFrom(e) = SubSeq(text, e + 1, NextEnd(e) - 1)
  <2>1. CASE next = {}
    <3>1. LineFrom(e) = SubSeq(text, e + 1, Len(text)) /\ NextEnd(e) = Len(text) + 1
      BY <2>1 DEF LineFrom, NextEnd
    <3> QED
      BY <1>1, <3>1
  <2>2. CASE next # {}
    BY <2>2 DEF LineFrom, NextEnd
  <2> QED
    BY <2>1, <2>2
<1>5. \A h \in 1..Len(text) : text[h] = "LF" <=> h \in Ends
  BY <1>1 DEF Ends
<1>6. \A h \in e + 1..NextEnd(e) - 1 : h \notin Ends /\ text[h] # "LF"
  BY <1>1, <1>3, <1>5
<1>7. NextEnd(e) <= Len(text) => NextEnd(e) \in Ends /\ text[NextEnd(e)] = "LF"
  BY <1>1, <1>3, <1>5
<1>8. \A h \in e + 1..NextEnd(e) - 1 : text[h] \in Chars
  BY <1>1, <1>3, ElementOfSeq
<1>9. LineFrom(e) \in Seq(Chars) /\ Len(LineFrom(e)) = NextEnd(e) - (e + 1)
  <2>1. e + 1 \in Int /\ NextEnd(e) - 1 \in Int
    BY <1>1, <1>3
  <2> HIDE DEF next
  <2>2. Len(SubSeq(text, e + 1, NextEnd(e) - 1)) =
          IF e + 1 <= NextEnd(e) - 1 THEN (NextEnd(e) - 1) - (e + 1) + 1 ELSE 0
    BY <1>8, <2>1, SubSeqProperties
  <2>3. SubSeq(text, e + 1, NextEnd(e) - 1) \in Seq(Chars)
    BY <1>8, <2>1, SubSeqProperties
  <2> QED
    BY <1>1, <1>3, <1>4, <2>2, <2>3
<1> QED
  BY <1>3, <1>4, <1>6, <1>7, <1>9

LEMMA Ranks ==
  ASSUME text \in Seq(Chars), NEW e \in Ends
  PROVE  /\ Rank(e) \in 1..Cardinality(Ends)
         /\ \A d \in Ends : d < e => Rank(d) < Rank(e)
         /\ (\A d \in Ends : d <= e) => Rank(e) = Cardinality(Ends)
         /\ \A d \in Ends : d > e => Rank(e) < Cardinality(Ends)
<1>1. /\ Len(text) \in Nat /\ Ends \subseteq 0..Len(text) /\ Ends \in SUBSET Nat /\ IsFiniteSet(Ends)
      /\ Cardinality(Ends) \in Nat /\ e \in Nat
  BY EndsAre
<1> DEFINE Upto(d) == {j \in Ends : j <= d}
<1>2. \A d \in Ends : Upto(d) \in SUBSET Ends /\ IsFiniteSet(Upto(d)) /\ Cardinality(Upto(d)) \in Nat
                      /\ Cardinality(Upto(d)) <= Cardinality(Ends)
  BY <1>1, FS_Subset, FS_CardinalityType
<1>3. Rank(e) # 0
  <2>1. e \in Upto(e)
    BY <1>1
  <2> HIDE DEF Upto
  <2>2. Cardinality(Upto(e)) # 0
    BY <1>2, <2>1, FS_EmptySet
  <2> QED
    BY <2>2 DEF Rank, Upto
<1>4. ASSUME NEW d \in Ends, d < e PROVE Rank(d) < Rank(e)
  <2>1. Upto(d) \in SUBSET Upto(e) /\ e \in Upto(e) /\ e \notin Upto(d)
    <3>1. d \in Nat /\ e \in Nat /\ \A j \in Ends : j \in Nat
      BY <1>1
    <3>2. \A j \in Ends : j <= d => j <= e
      BY <1>4, <3>1
    <3>3. e <= e /\ ~(e <= d)
      BY <1>4, <3>1
    <3> QED
      BY <3>2, <3>3
  <2> HIDE DEF Upto
  <2>2. Cardinality(Upto(d)) <= Cardinality(Upto(e)) /\ Cardinality(Upto(e)) # Cardinality(Upto(d))
    BY <1>2, <2>1, FS_Subset
  <2>3. Cardinality(Upto(d)) \in Nat /\ Cardinality(Upto(e)) \in Nat
    BY <1>2
  <2>4. Cardinality(Upto(d)) < Cardinality(Upto(e))
    BY <2>2, <2>3
  <2> QED
    BY <2>4 DEF Rank, Upto
<1>5. ASSUME \A d \in Ends : d <= e PROVE Rank(e) = Cardinality(Ends)
  <2>1. Upto(e) = Ends
    BY <1>5
  <2> QED
    BY <2>1 DEF Rank
<1>6. ASSUME NEW d \in Ends, d > e PROVE Rank(e) < Cardinality(Ends)
  <2>1. Upto(e) \in SUBSET Ends /\ d \notin Upto(e)
    BY <1>1, <1>6
  <2> HIDE DEF Upto
  <2>2. Cardinality(Upto(e)) <= Cardinality(Ends) /\ Cardinality(Ends) # Cardinality(Upto(e))
    BY <1>1, <1>6, <2>1, FS_Subset
  <2>3. Cardinality(Upto(e)) < Cardinality(Ends)
    BY <1>1, <1>2, <2>2
  <2> QED
    BY <2>3 DEF Rank, Upto
<1>7. Rank(e) \in Nat /\ Rank(e) <= Cardinality(Ends)
  BY <1>2 DEF Rank
<1> QED
  BY <1>1, <1>3, <1>4, <1>5, <1>6, <1>7

\* The rank of an end tells its line; that of the next one is the next.
LEMMA RankOfLine ==
  ASSUME text \in Seq(Chars), NEW e \in Ends
  PROVE  /\ LineAt(Rank(e)) = LineFrom(e)
         /\ NextEnd(e) <= Len(text) => Rank(NextEnd(e)) = Rank(e) + 1 /\ Rank(e) < Cardinality(Ends)
         /\ NextEnd(e) = Len(text) + 1 => Rank(e) = Cardinality(Ends)
<1>1. Ends \in SUBSET Nat /\ Ends \subseteq 0..Len(text) /\ Len(text) \in Nat /\ IsFiniteSet(Ends)
  BY EndsAre
<1>2. \A d \in Ends : Rank(d) = Rank(e) => d = e
  <2>1. \A d \in Ends : d < e \/ e < d \/ d = e
    BY <1>1
  <2>2. \A d \in Ends : Rank(d) \in Nat /\ (d < e => Rank(d) < Rank(e)) /\ (e < d => Rank(e) < Rank(d))
    BY Ranks
  <2> QED
    BY <2>1, <2>2
<1>3. (CHOOSE d \in Ends : Cardinality({j \in Ends : j <= d}) = Rank(e)) = e
  BY <1>2 DEF Rank
<1>4. LineAt(Rank(e)) = LineFrom(e)
  BY <1>3 DEF LineAt
<1>5. ASSUME NextEnd(e) <= Len(text) PROVE Rank(NextEnd(e)) = Rank(e) + 1 /\ Rank(e) < Cardinality(Ends)
  <2>1. NextEnd(e) \in Ends /\ NextEnd(e) > e /\ NextEnd(e) \in Nat
        /\ \A h \in e + 1..NextEnd(e) - 1 : h \notin Ends
    BY <1>1, <1>5, LineSpan
  <2>2. {j \in Ends : j <= NextEnd(e)} = {j \in Ends : j <= e} \cup {NextEnd(e)}
    <3>1. e \in Nat /\ \A j \in Ends : j \in Nat
      BY <1>1
    <3>2. \A j \in Ends : j <= NextEnd(e) <=> j <= e \/ j = NextEnd(e)
      BY <2>1, <3>1
    <3> QED
      BY <2>1, <3>2
  <2>3. IsFiniteSet({j \in Ends : j <= e}) /\ NextEnd(e) \notin {j \in Ends : j <= e}
    BY <1>1, <2>1, FS_Subset
  <2>4. Rank(NextEnd(e)) = Rank(e) + 1
    BY <2>2, <2>3, FS_AddElement DEF Rank
  <2> QED
    BY <2>1, <2>4, Ranks
<1>6. ASSUME NextEnd(e) = Len(text) + 1 PROVE Rank(e) = Cardinality(Ends)
  <2>1. \A d \in Ends : d <= e
    BY <1>1, <1>6, LineSpan
  <2> QED
    BY <2>1, Ranks
<1> QED
  BY <1>4, <1>5, <1>6

\* A piece of the text, and its beginning and its rest.
LEMMA Pieces ==
  ASSUME text \in Seq(Chars), NEW a \in 0..Len(text), NEW b \in a..Len(text),
         NEW s, s = SubSeq(text, a + 1, b), NEW w \in 0..b - a
  PROVE  /\ s \in Seq(Chars) /\ Len(s) = b - a /\ \A i \in 1..b - a : s[i] = text[a + i]
         /\ SubSeq(s, 1, w) = SubSeq(text, a + 1, a + w)
         /\ SubSeq(s, w + 1, Len(s)) = SubSeq(text, a + w + 1, b)
<1>1. Len(text) \in Nat /\ \A i \in 1..Len(text) : text[i] \in Chars
  BY LenProperties, ElementOfSeq
<1>2. /\ a + 1 \in Int /\ b \in Int /\ a \in Nat /\ w \in Nat /\ b <= Len(text) /\ a <= b
      /\ \A i \in a + 1..b : text[i] \in Chars
  BY <1>1
<1>3. s \in Seq(Chars) /\ Len(s) = b - a
  <2>1. Len(s) = IF a + 1 <= b THEN b - (a + 1) + 1 ELSE 0
    BY <1>2, SubSeqProperties
  <2>2. s \in Seq(Chars)
    BY <1>2, SubSeqProperties
  <2> QED
    BY <1>1, <1>2, <2>1, <2>2
<1>4. \A i \in 1..b - a : s[i] = text[a + i]
  <2>1. \A i \in 1..b - (a + 1) + 1 : s[i] = text[(a + 1) + i - 1]
    BY <1>2, SubSeqProperties
  <2> QED
    BY <1>1, <1>2, <2>1
<1>5. \A i \in 1..Len(s) : s[i] \in Chars
  BY <1>3, ElementOfSeq
<1>6. SubSeq(s, 1, w) = SubSeq(text, a + 1, a + w)
  <2> DEFINE t == SubSeq(s, 1, w)
             u == SubSeq(text, a + 1, a + w)
  <2>1. 1 \in Int /\ w \in Int /\ a + w \in Int /\ (\A i \in 1..w : s[i] \in Chars)
        /\ (\A i \in a + 1..a + w : text[i] \in Chars)
    BY <1>1, <1>2, <1>3, <1>5
  <2>2. /\ t \in Seq(Chars) /\ Len(t) = (IF 1 <= w THEN w - 1 + 1 ELSE 0)
        /\ \A i \in 1..w - 1 + 1 : t[i] = s[1 + i - 1]
    BY <2>1, SubSeqProperties
  <2>3. /\ u \in Seq(Chars) /\ Len(u) = (IF a + 1 <= a + w THEN (a + w) - (a + 1) + 1 ELSE 0)
        /\ \A i \in 1..(a + w) - (a + 1) + 1 : u[i] = text[(a + 1) + i - 1]
    BY <1>2, <2>1, SubSeqProperties
  <2> HIDE DEF t, u
  <2>4. Len(t) = w /\ Len(u) = w
    BY <1>2, <2>2, <2>3
  <2>5. \A i \in 1..w : t[i] = u[i]
    BY <1>2, <1>4, <2>2, <2>3
  <2>6. t = u
    BY <2>2, <2>3, <2>4, <2>5, SeqEqual
  <2> QED
    BY <2>6 DEF t, u
<1>7. SubSeq(s, w + 1, Len(s)) = SubSeq(text, a + w + 1, b)
  <2> DEFINE t == SubSeq(s, w + 1, b - a)
             u == SubSeq(text, a + w + 1, b)
  <2>1. w + 1 \in Int /\ b - a \in Int /\ a + w + 1 \in Int /\ (\A i \in w + 1..b - a : s[i] \in Chars)
        /\ (\A i \in a + w + 1..b : text[i] \in Chars)
    BY <1>1, <1>2, <1>3, <1>5
  <2>2. /\ t \in Seq(Chars) /\ Len(t) = (IF w + 1 <= b - a THEN (b - a) - (w + 1) + 1 ELSE 0)
        /\ \A i \in 1..(b - a) - (w + 1) + 1 : t[i] = s[(w + 1) + i - 1]
    BY <2>1, SubSeqProperties
  <2>3. /\ u \in Seq(Chars) /\ Len(u) = (IF a + w + 1 <= b THEN b - (a + w + 1) + 1 ELSE 0)
        /\ \A i \in 1..b - (a + w + 1) + 1 : u[i] = text[(a + w + 1) + i - 1]
    <3> DEFINE q == a + w + 1
    <3>1. q \in Int /\ b \in Int /\ \A i \in q..b : text[i] \in Chars
      BY <1>2, <2>1
    <3> HIDE DEF q
    <3>2. /\ SubSeq(text, q, b) \in Seq(Chars) /\ Len(SubSeq(text, q, b)) = (IF q <= b THEN b - q + 1 ELSE 0)
          /\ \A i \in 1..b - q + 1 : SubSeq(text, q, b)[i] = text[q + i - 1]
      BY <3>1, SubSeqProperties
    <3> QED
      BY <3>2 DEF q
  <2> HIDE DEF t, u
  <2>4. Len(t) = b - a - w /\ Len(u) = b - a - w
    BY <1>2, <2>2, <2>3
  <2>5. \A i \in 1..b - a - w : t[i] = u[i]
    BY <1>2, <1>4, <2>2, <2>3
  <2>6. t = u
    BY <2>2, <2>3, <2>4, <2>5, SeqEqual
  <2> QED
    BY <1>3, <2>6 DEF t, u
<1> QED
  BY <1>3, <1>4, <1>6, <1>7

LEMMA WithoutCRIsSeq == ASSUME NEW s \in Seq(Chars) PROVE WithoutCR(s) \in Seq(Chars)
<1>1. Len(s) \in Nat /\ \A i \in 1..Len(s) : s[i] \in Chars
  BY LenProperties, ElementOfSeq
<1>2. Front(s) \in Seq(Chars)
  <2>1. 1 \in Int /\ Len(s) - 1 \in Int /\ \A i \in 1..Len(s) - 1 : s[i] \in Chars
    BY <1>1
  <2> QED
    BY <2>1, SubSeqProperties DEF Front
<1> QED
  BY <1>2 DEF WithoutCR

\* While the text stays, so do its lines.
LEMMA TextStays ==
  ASSUME text' = text
  PROVE  /\ Ends' = Ends /\ AllFit' = AllFit
         /\ \A e : Rank(e)' = Rank(e) /\ LineFrom(e)' = LineFrom(e)
<1>1. Ends' = Ends
  BY DEF Ends
<1>2. \A e : Rank(e)' = Rank(e) /\ LineFrom(e)' = LineFrom(e)
  BY <1>1 DEF Rank, LineFrom
<1> QED
  BY <1>1, <1>2 DEF AllFit

\* The lines that were returned before remain right.
LEMMA ReturnedStays ==
  ASSUME text' = text, NEW k, Returned(k), got'[k] = got[k]
  PROVE  Returned(k)'
  BY TextStays DEF Returned

LEMMA Positions ==
  ASSUME ReaderType, NEW l \in 0..Len(text), NEW p \in 0..Len(text), NEW c \in 0..Len(text), At(l, p, c)
  PROVE  /\ Len(part) = p - l /\ Len(buffer) = c - p /\ Len(rest) = Len(text) - c
         /\ \A i \in 1..c - p : buffer[i] = text[p + i]
<1>1. Len(text) \in Nat /\ text \in Seq(Chars)
  BY LenProperties DEF ReaderType
<1>2. p \in l..Len(text) /\ c \in p..Len(text) /\ Len(text) \in c..Len(text)
  BY <1>1 DEF At
<1>3. 0 \in 0..p - l /\ 0 \in 0..c - p /\ 0 \in 0..Len(text) - c
  BY <1>1, <1>2
<1>4. Len(part) = p - l
  BY <1>1, <1>2, <1>3, Pieces DEF At
<1>5. Len(buffer) = c - p /\ \A i \in 1..c - p : buffer[i] = text[p + i]
  BY <1>1, <1>2, <1>3, Pieces DEF At
<1>6. Len(rest) = Len(text) - c
  BY <1>1, <1>2, <1>3, Pieces DEF At
<1> QED
  BY <1>4, <1>5, <1>6

LEMMA FirstRank ==
  ASSUME NEW E \in SUBSET Nat, 0 \in E
  PROVE  Cardinality({j \in E : j <= 0}) = 1
<1>1. \A j \in E : j <= 0 <=> j = 0
  OBVIOUS
<1>2. {j \in E : j <= 0} = {0}
  BY <1>1
<1> QED
  BY <1>2, FS_Singleton

LEMMA OpenInv ==
  ASSUME ReaderInv, Open
  PROVE  ReaderInv'
<1>1. text' \in Seq(Chars) /\ rest' = text' /\ reading' = "line" /\ buffer' = <<>> /\ part' = <<>> /\ got' = <<>>
  BY ReaderAssumption DEF Open, ReaderInv
<1>2. Len(text') \in Nat /\ Len(<<>>) = 0
  BY <1>1, LenProperties
<1>3. ReaderType'
  BY <1>1, EmptySeq DEF ReaderType
<1>4. \E l, p, c \in 0..Len(text') : At(l, p, c)'
  <2>1. SubSeq(text', 0 + 1, 0) = <<>> /\ SubSeq(text', 0 + 1, Len(text')) = text'
    BY <1>1, SubSeqEmpty, SubSeqFull
  <2>2. Ends' \in SUBSET Nat /\ 0 \in Ends'
    BY <1>2 DEF Ends
  <2>4. Rank(0)' = 1
    BY <2>2, FirstRank DEF Rank
  <2>5. At(0, 0, 0)'
    BY <1>1, <1>2, <2>1, <2>2, <2>4 DEF At
  <2>6. 0 \in 0..Len(text')
    BY <1>2
  <2> QED
    BY <2>5, <2>6
<1>5. 1..Len(got') = {}
  BY <1>1, <1>2
<1> QED
  BY <1>1, <1>3, <1>4, <1>5 DEF ReaderInv

\* What a step does to a reader that is where the line behind l is read.
LEMMA StepInv ==
  ASSUME ReaderInv, text' = text, ReaderType', reading = "line", reading' \in {"line", "done"},
         ASSUME AllFit
         PROVE  /\ \E l, p, c \in 0..Len(text) : At(l, p, c)'
                /\ \A k \in 1..Len(got') : Returned(k)'
                /\ reading' = "done" => Len(got') >= Cardinality(Ends) - 1
  PROVE  ReaderInv'
<1>1. Ends' = Ends /\ AllFit' = AllFit
  BY TextStays
<1>2. ReaderType'
  OBVIOUS
<1>3. reading' # "closed"
  OBVIOUS
<1>4. AllFit' => /\ \E l, p, c \in 0..Len(text') : At(l, p, c)'
                 /\ \A k \in 1..Len(got') : Returned(k)'
                 /\ reading' = "done" => Len(got') >= Cardinality(Ends') - 1
  BY <1>1
<1> QED
  BY <1>2, <1>3, <1>4 DEF ReaderInv

LEMMA FillInv ==
  ASSUME ReaderInv, Fill
  PROVE  ReaderInv'
<1>1. /\ reading = "line" /\ buffer = <<>> /\ rest \in Seq(Chars) /\ buffer' = FirstN(rest, BufferLen)
      /\ rest' = SubSeq(rest, BufferLen + 1, Len(rest)) /\ UNCHANGED <<text, part, reading, got>>
      /\ ReaderType /\ BufferLen \in Nat
  BY ReaderAssumption DEF Fill, ReaderInv, ReaderType
<1>2. Len(rest) \in Nat /\ \A i \in 1..Len(rest) : rest[i] \in Chars
  BY <1>1, LenProperties, ElementOfSeq
<1>3. PICK w : w = Min({BufferLen, Len(rest)})
  OBVIOUS
<1>4. w \in Nat /\ w <= Len(rest) /\ (w = BufferLen \/ w = Len(rest))
  <2>1. {BufferLen, Len(rest)} \in SUBSET Nat /\ {BufferLen, Len(rest)} # {}
    BY <1>1, <1>2
  <2>2. w \in {BufferLen, Len(rest)} /\ \A y \in {BufferLen, Len(rest)} : w <= y
    BY <1>3, <2>1, MinIs
  <2> QED
    BY <1>1, <1>2, <2>2
<1>5. buffer' = SubSeq(rest, 1, w)
  BY <1>1, <1>3 DEF FirstN
<1>6. rest' = SubSeq(rest, w + 1, Len(rest))
  <2>1. CASE w = BufferLen
    BY <1>1, <2>1
  <2>2. CASE w = Len(rest) /\ w # BufferLen
    <3>1. BufferLen + 1 \in Int /\ w + 1 \in Int /\ Len(rest) < BufferLen + 1 /\ Len(rest) < w + 1
      <4>1. {BufferLen, Len(rest)} \in SUBSET Nat /\ BufferLen \in {BufferLen, Len(rest)}
        BY <1>1, <1>2
      <4>2. w <= BufferLen
        BY <1>3, <4>1, MinIs
      <4> QED
        BY <1>1, <1>2, <2>2, <4>2
    <3> QED
      BY <1>1, <1>2, <3>1, SubSeqEmpty
  <2> QED
    BY <1>4, <2>1, <2>2
<1>7. ReaderType'
  <2>1. SubSeq(rest, 1, w) \in Seq(Chars) /\ SubSeq(rest, w + 1, Len(rest)) \in Seq(Chars)
    <3>1. 1 \in Int /\ w \in Int /\ w + 1 \in Int /\ Len(rest) \in Int
          /\ (\A i \in 1..w : rest[i] \in Chars) /\ (\A i \in w + 1..Len(rest) : rest[i] \in Chars)
      BY <1>2, <1>4
    <3> QED
      BY <3>1, SubSeqProperties
  <2> QED
    BY <1>1, <1>5, <1>6, <2>1 DEF ReaderType
<1>8. ASSUME AllFit
      PROVE  /\ \E l, p, c \in 0..Len(text) : At(l, p, c)'
             /\ \A k \in 1..Len(got') : Returned(k)'
             /\ reading' = "done" => Len(got') >= Cardinality(Ends) - 1
  <2>1. PICK l \in 0..Len(text), p \in 0..Len(text), c \in 0..Len(text) : At(l, p, c)
    BY <1>1, <1>8 DEF ReaderInv
  <2>2. text \in Seq(Chars) /\ Len(text) \in Nat
    BY <1>1, LenProperties DEF ReaderType
  <2>3. Len(buffer) = c - p /\ Len(rest) = Len(text) - c /\ Len(<<>>) = 0
    BY <1>1, <2>1, Positions
  <2>4. p = c /\ w \in 0..Len(text) - c /\ c + w \in 0..Len(text)
    BY <1>1, <1>2, <1>4, <2>2, <2>3
  <2>5. /\ SubSeq(rest, 1, w) = SubSeq(text, c + 1, c + w)
        /\ SubSeq(rest, w + 1, Len(rest)) = SubSeq(text, c + w + 1, Len(text))
    <3>1. Len(text) \in c..Len(text) /\ rest = SubSeq(text, c + 1, Len(text))
      BY <2>1, <2>2 DEF At
    <3>2. c + w + 1 = c + (w + 1) /\ Len(rest) = Len(text) - c
      BY <2>2, <2>3, <2>4
    <3>3. SubSeq(rest, 1, w) = SubSeq(text, c + 1, c + w)
      BY <2>2, <2>4, <3>1, Pieces
    <3>4. SubSeq(rest, w + 1, Len(rest)) = SubSeq(text, c + w + 1, Len(text))
      BY <2>2, <2>4, <3>1, Pieces
    <3> QED
      BY <3>3, <3>4
  <2>6. At(l, p, c + w)'
    <3>1. Ends' = Ends /\ Rank(l)' = Rank(l)
      BY <1>1, TextStays
    <3>2. l <= p /\ p <= c + w /\ c + w <= Len(text)
      BY <2>1, <2>2, <2>4 DEF At
    <3> QED
      BY <1>1, <1>5, <1>6, <2>1, <2>4, <2>5, <3>1, <3>2 DEF At
  <2>7. \A k \in 1..Len(got') : Returned(k)'
    BY <1>1, <1>8, ReturnedStays DEF ReaderInv
  <2> QED
    BY <1>1, <2>4, <2>6, <2>7
<1> QED
  BY <1>1, <1>7, <1>8, StepInv

LEMMA CopyAllInv ==
  ASSUME ReaderInv, CopyAll
  PROVE  ReaderInv'
<1>1. /\ reading = "line" /\ LineEnds = {} /\ part' = part \o buffer /\ buffer' = <<>>
      /\ UNCHANGED <<text, rest, reading, got>> /\ ReaderType
  BY DEF CopyAll, ReaderInv
<1>2. ReaderType'
  <2>1. part \o buffer \in Seq(Chars) /\ <<>> \in Seq(Chars)
    BY <1>1, ConcatProperties, EmptySeq DEF ReaderType
  <2> QED
    BY <1>1, <2>1 DEF ReaderType
<1>3. ASSUME AllFit
      PROVE  /\ \E l, p, c \in 0..Len(text) : At(l, p, c)'
             /\ \A k \in 1..Len(got') : Returned(k)'
             /\ reading' = "done" => Len(got') >= Cardinality(Ends) - 1
  <2>1. PICK l \in 0..Len(text), p \in 0..Len(text), c \in 0..Len(text) : At(l, p, c)
    BY <1>1, <1>3 DEF ReaderInv
  <2>2. text \in Seq(Chars) /\ Len(text) \in Nat
    BY <1>1, LenProperties DEF ReaderType
  <2>3. l <= p /\ p <= c /\ c <= Len(text) /\ Len(buffer) = c - p /\ \A i \in 1..c - p : buffer[i] = text[p + i]
    BY <1>1, <2>1, Positions DEF At
  <2>4. part \o buffer = SubSeq(text, l + 1, c)
    <3>1. l + 1 \in 1..Len(text) + 1 /\ p \in (l + 1) - 1..Len(text) /\ c \in p..Len(text)
      BY <2>2, <2>3
    <3>2. part = SubSeq(text, l + 1, p) /\ buffer = SubSeq(text, p + 1, c)
      BY <2>1 DEF At
    <3> QED
      BY <2>2, <3>1, <3>2, ConcatAdjacentSubSeq
  <2>5. \A h \in l + 1..c : text[h] # "LF"
    <3>1. \A i \in 1..c - p : text[p + i] # "LF"
      BY <1>1, <2>3 DEF LineEnds
    <3>2. \A h \in p + 1..c : h - p \in 1..c - p /\ p + (h - p) = h
      BY <2>3
    <3>3. \A h \in p + 1..c : text[h] # "LF"
      BY <3>1, <3>2
    <3>4. \A h \in l + 1..p : text[h] # "LF"
      BY <2>1 DEF At
    <3> QED
      BY <2>3, <3>3, <3>4
  <2>6. At(l, c, c)'
    <3>1. Ends' = Ends /\ Rank(l)' = Rank(l)
      BY <1>1, TextStays
    <3>2. SubSeq(text, c + 1, c) = <<>>
      BY <2>2, SubSeqEmpty
    <3>3. l <= c /\ c <= c
      BY <2>3
    <3> QED
      BY <1>1, <2>1, <2>3, <2>4, <2>5, <3>1, <3>2, <3>3 DEF At
  <2>7. \A k \in 1..Len(got') : Returned(k)'
    BY <1>1, <1>3, ReturnedStays DEF ReaderInv
  <2> QED
    BY <1>1, <2>6, <2>7
<1> QED
  BY <1>1, <1>2, <1>3, StepInv

LEMMA TakeLineInv ==
  ASSUME ReaderInv, TakeLine
  PROVE  ReaderInv'
<1>m. PICK m : m = Min(LineEnds)
  OBVIOUS
<1> DEFINE s == SubSeq(buffer, 1, m - 1)
           line == WithoutCR(part \o s)
<1>1. /\ reading = "line" /\ LineEnds # {} /\ got' = Append(got, line)
      /\ buffer' = SubSeq(buffer, m + 1, Len(buffer)) /\ part' = <<>>
      /\ UNCHANGED <<text, rest, reading>> /\ ReaderType /\ MaxLine \in Nat
  BY <1>m, ReaderAssumption DEF TakeLine, ReaderInv
<1>2. Len(buffer) \in Nat /\ \A i \in 1..Len(buffer) : buffer[i] \in Chars
  BY <1>1, LenProperties, ElementOfSeq DEF ReaderType
<1>3. m \in LineEnds /\ \A k \in LineEnds : m <= k
  <2>1. LineEnds \in SUBSET Nat
    BY <1>2 DEF LineEnds
  <2> QED
    BY <1>1, <1>m, <2>1, MinIs
<1>4. m \in 1..Len(buffer) /\ (m = MaxLine \/ buffer[m] = "LF")
  BY <1>3 DEF LineEnds
<1>5. \A i \in 1..m - 1 : buffer[i] # "LF"
  BY <1>2, <1>3, <1>4 DEF LineEnds
<1>6. s \in Seq(Chars) /\ SubSeq(buffer, m + 1, Len(buffer)) \in Seq(Chars)
  <2>1. /\ 1 \in Int /\ m - 1 \in Int /\ m + 1 \in Int /\ Len(buffer) \in Int
        /\ (\A i \in 1..m - 1 : buffer[i] \in Chars) /\ (\A i \in m + 1..Len(buffer) : buffer[i] \in Chars)
    BY <1>2, <1>4
  <2> QED
    BY <2>1, SubSeqProperties
<1> HIDE DEF s
<1>7. part \o s \in Seq(Chars) /\ line \in Seq(Chars)
  BY <1>1, <1>6, ConcatProperties, WithoutCRIsSeq DEF ReaderType
<1> HIDE DEF line
<1>8. /\ got \in Seq(Seq(Chars)) /\ got' \in Seq(Seq(Chars)) /\ Len(got) \in Nat /\ Len(got') = Len(got) + 1
      /\ \A k \in 1..Len(got) : got'[k] = got[k]
      /\ got'[Len(got) + 1] = line
  BY <1>1, <1>7, AppendProperties, LenProperties DEF ReaderType
<1>9. ReaderType'
  BY <1>1, <1>6, <1>8, EmptySeq DEF ReaderType
<1>10. ASSUME AllFit
       PROVE  /\ \E l, p, c \in 0..Len(text) : At(l, p, c)'
              /\ \A k \in 1..Len(got') : Returned(k)'
              /\ reading' = "done" => Len(got') >= Cardinality(Ends) - 1
  <2>1. PICK l \in 0..Len(text), p \in 0..Len(text), c \in 0..Len(text) : At(l, p, c)
    BY <1>1, <1>10 DEF ReaderInv
  <2>2. text \in Seq(Chars) /\ Len(text) \in Nat
    BY <1>1, LenProperties DEF ReaderType
  <2>3. l <= p /\ p <= c /\ c <= Len(text) /\ Len(buffer) = c - p /\ \A i \in 1..c - p : buffer[i] = text[p + i]
    BY <1>1, <2>1, Positions DEF At
  <2>4. m \in 1..c - p /\ p + m \in 1..Len(text) /\ p < Len(text)
    BY <1>4, <2>2, <2>3
  <2>5. l \in Ends /\ Rank(l) = Len(got) + 1
    <3>1. l # Len(text)
      BY <2>2, <2>3, <2>4
    <3> QED
      BY <2>1, <3>1 DEF At
  <2>6. \A h \in l + 1..p + m - 1 : text[h] # "LF"
    <3>1. \A h \in p + 1..p + m - 1 : h - p \in 1..m - 1 /\ h - p \in 1..c - p /\ p + (h - p) = h
      BY <2>3, <2>4
    <3>2. \A h \in p + 1..p + m - 1 : text[h] # "LF"
      BY <1>5, <2>3, <3>1
    <3>3. \A h \in l + 1..p : text[h] # "LF"
      BY <2>1 DEF At
    <3> QED
      BY <2>3, <2>4, <3>2, <3>3
  <2>7. /\ NextEnd(l) \in l + 1..Len(text) + 1
        /\ \A h \in l + 1..NextEnd(l) - 1 : text[h] # "LF"
        /\ NextEnd(l) <= Len(text) => text[NextEnd(l)] = "LF"
        /\ LineFrom(l) = SubSeq(text, l + 1, NextEnd(l) - 1) /\ Len(LineFrom(l)) = NextEnd(l) - (l + 1)
    BY <2>2, <2>5, LineSpan
  <2>8. NextEnd(l) >= p + m
    <3>1. NextEnd(l) <= p + m - 1 => NextEnd(l) \in l + 1..p + m - 1 /\ NextEnd(l) <= Len(text)
      BY <2>2, <2>3, <2>4, <2>7
    <3>2. NextEnd(l) <= p + m - 1 => FALSE
      BY <2>6, <2>7, <3>1
    <3> QED
      BY <2>2, <2>3, <2>4, <2>7, <3>2
  <2>i. PICK n : n = NextEnd(l)
    OBVIOUS
  <2>j. /\ l \in Nat /\ p \in Nat /\ c \in Nat /\ m \in Nat /\ n \in Nat /\ MaxLine \in Nat
        /\ l <= p /\ 1 <= m /\ p + m <= n /\ l + 1 <= n
    BY <1>1, <2>2, <2>3, <2>4, <2>7, <2>8, <2>i
  <2>9. text[p + m] = "LF"
    <3>1. CASE buffer[m] = "LF"
      BY <2>3, <2>4, <3>1
    <3>2. CASE m = MaxLine /\ buffer[m] # "LF"
      <4>1. text[p + m] # "LF"
        BY <2>3, <2>4, <3>2
      <4>2. NextEnd(l) # p + m
        BY <2>4, <2>7, <4>1
      <4>3. Len(LineFrom(l)) >= p + m - l
        <5>1. Len(LineFrom(l)) = n - (l + 1) /\ n # p + m
          BY <2>7, <2>i, <4>2
        <5> QED
          BY <2>j, <5>1
      <4>4. Len(LineFrom(l)) < MaxLine /\ Len(LineFrom(l)) = n - (l + 1)
        BY <1>10, <2>5, <2>7, <2>i DEF AllFit
      <4> QED
        BY <2>j, <3>2, <4>3, <4>4
    <3> QED
      BY <1>4, <3>1, <3>2
  <2>10. NextEnd(l) = p + m
    <3>1. p + m <= NextEnd(l) - 1 => p + m \in l + 1..NextEnd(l) - 1
      BY <2>2, <2>3, <2>4, <2>7
    <3>2. ~(p + m <= NextEnd(l) - 1)
      BY <2>7, <2>9, <3>1
    <3> QED
      BY <2>i, <2>j, <3>2
  <2>11. part \o s = LineFrom(l)
    <3>1. s = SubSeq(text, p + 1, p + (m - 1)) /\ p + (m - 1) = p + m - 1
      <4>1. p \in 0..Len(text) /\ c \in p..Len(text) /\ m - 1 \in 0..c - p /\ buffer = SubSeq(text, p + 1, c)
        BY <2>1, <2>2, <2>3, <2>4 DEF At
      <4>2. SubSeq(buffer, 1, m - 1) = SubSeq(text, p + 1, p + (m - 1))
        BY <2>2, <4>1, Pieces
      <4> QED
        BY <2>2, <2>4, <4>2 DEF s
    <3>2. l + 1 \in 1..Len(text) + 1 /\ p \in (l + 1) - 1..Len(text) /\ p + m - 1 \in p..Len(text)
      BY <2>2, <2>3, <2>4
    <3>3. part = SubSeq(text, l + 1, p)
      BY <2>1 DEF At
    <3>4. part \o s = SubSeq(text, l + 1, p + m - 1)
      BY <2>2, <3>1, <3>2, <3>3, ConcatAdjacentSubSeq
    <3>5. LineFrom(l) = SubSeq(text, l + 1, NextEnd(l) - 1)
      BY <2>7
    <3>6. NextEnd(l) - 1 = p + m - 1
      BY <2>10, <2>j
    <3>7. LineFrom(l) = SubSeq(text, l + 1, p + m - 1)
      BY <3>5, <3>6
    <3> QED
      BY <3>4, <3>7
  <2>12. Rank(p + m) = Rank(l) + 1 /\ Rank(l) < Cardinality(Ends) /\ p + m \in Ends
    BY <2>2, <2>4, <2>5, <2>10, RankOfLine, LineSpan
  <2>13. Ends' = Ends /\ \A e : Rank(e)' = Rank(e) /\ LineFrom(e)' = LineFrom(e)
    BY <1>1, TextStays
  <2>14. At(p + m, p + m, c)'
    <3>1. p + m <= p + m /\ p + m <= c /\ c <= Len(text)
      BY <2>2, <2>3, <2>4
    <3>2. SubSeq(text, p + m + 1, p + m) = <<>>
      BY <2>2, <2>4, SubSeqEmpty
    <3>3. buffer' = SubSeq(text, p + m + 1, c)
      <4>1. p \in 0..Len(text) /\ c \in p..Len(text) /\ m \in 0..c - p /\ buffer = SubSeq(text, p + 1, c)
        BY <2>1, <2>2, <2>3, <2>4 DEF At
      <4>2. SubSeq(buffer, m + 1, Len(buffer)) = SubSeq(text, p + m + 1, c)
        BY <2>2, <4>1, Pieces
      <4> QED
        BY <1>1, <4>2
    <3>4. rest' = SubSeq(text, c + 1, Len(text)) /\ part' = <<>> /\ text' = text
      BY <1>1, <2>1 DEF At
    <3>5. Rank(p + m) = Len(got') + 1
      BY <1>8, <2>5, <2>12
    <3>6. \A h \in p + m + 1..p + m : text[h] # "LF"
      BY <2>4
    <3>7. p + m \in Ends' /\ Rank(p + m)' = Len(got') + 1
      BY <2>12, <2>13, <3>5
    <3>8. part' = SubSeq(text', p + m + 1, p + m) /\ buffer' = SubSeq(text', p + m + 1, c)
          /\ rest' = SubSeq(text', c + 1, Len(text')) /\ c <= Len(text')
      BY <3>1, <3>2, <3>3, <3>4
    <3>9. \A h \in p + m + 1..p + m : text'[h] # "LF"
      BY <3>4, <3>6
    <3> QED
      BY <3>1, <3>7, <3>8, <3>9 DEF At
  <2>15. ASSUME NEW k \in 1..Len(got') PROVE Returned(k)'
    <3>1. CASE k \in 1..Len(got)
      BY <1>1, <1>8, <1>10, <3>1, ReturnedStays DEF ReaderInv
    <3>2. CASE k = Len(got) + 1
      <4>1. Rank(l) = k /\ got'[k] = WithoutCR(LineFrom(l)) /\ k < Cardinality(Ends)
        BY <1>8, <2>5, <2>11, <2>12, <3>2 DEF line
      <4> QED
        BY <2>5, <2>13, <4>1 DEF Returned
    <3> QED
      BY <1>8, <3>1, <3>2
  <2>16. p + m \in 0..Len(text)
    BY <2>2, <2>4
  <2>17. \E a, b, d \in 0..Len(text) : At(a, b, d)'
    BY <2>14, <2>16
  <2> QED
    BY <1>1, <2>15, <2>17
<1> QED
  BY <1>1, <1>9, <1>10, StepInv

LEMMA EndOfFileInv ==
  ASSUME ReaderInv, EndOfFile
  PROVE  ReaderInv'
<1>1. /\ reading = "line" /\ buffer = <<>> /\ rest = <<>> /\ part' = <<>>
      /\ UNCHANGED <<text, rest, buffer>> /\ ReaderType
  BY DEF EndOfFile, ReaderInv
<1>2. \/ part = <<>> /\ reading' = "done" /\ got' = got
      \/ part # <<>> /\ got' = Append(got, part) /\ reading' = reading
  BY DEF EndOfFile
<1>3. part # <<>> =>
        /\ got \in Seq(Seq(Chars)) /\ got' \in Seq(Seq(Chars)) /\ Len(got) \in Nat /\ Len(got') = Len(got) + 1
        /\ \A k \in 1..Len(got) : got'[k] = got[k]
        /\ got'[Len(got) + 1] = part
  <2>1. got \in Seq(Seq(Chars)) /\ part \in Seq(Chars)
    BY <1>1 DEF ReaderType
  <2>2. Len(got) \in Nat
    BY <2>1, LenProperties
  <2>3. /\ Append(got, part) \in Seq(Seq(Chars)) /\ Len(Append(got, part)) = Len(got) + 1
        /\ \A k \in 1..Len(got) : Append(got, part)[k] = got[k]
        /\ Append(got, part)[Len(got) + 1] = part
    BY <2>1, AppendProperties
  <2> QED
    BY <1>2, <2>1, <2>2, <2>3
<1>4. ReaderType'
  BY <1>1, <1>2, <1>3, EmptySeq DEF ReaderType
<1>5. ASSUME AllFit
      PROVE  /\ \E l, p, c \in 0..Len(text) : At(l, p, c)'
             /\ \A k \in 1..Len(got') : Returned(k)'
             /\ reading' = "done" => Len(got') >= Cardinality(Ends) - 1
  <2>1. PICK l \in 0..Len(text), p \in 0..Len(text), c \in 0..Len(text) : At(l, p, c)
    BY <1>1, <1>5 DEF ReaderInv
  <2>2. text \in Seq(Chars) /\ Len(text) \in Nat /\ Len(got) \in Nat /\ Cardinality(Ends) \in Nat
    BY <1>1, LenProperties, EndsAre DEF ReaderType
  <2>3. l <= p /\ p <= c /\ c <= Len(text) /\ Len(part) = p - l /\ Len(buffer) = c - p /\ Len(rest) = Len(text) - c
    BY <1>1, <2>1, Positions DEF At
  <2>4. p = Len(text) /\ c = Len(text)
    <3>1. Len(buffer) = 0 /\ Len(rest) = 0
      BY <1>1
    <3> QED
      BY <2>2, <2>3, <3>1
  <2>5. Ends' = Ends /\ \A e : Rank(e)' = Rank(e) /\ LineFrom(e)' = LineFrom(e)
    BY <1>1, TextStays
  <2>6. SubSeq(text, Len(text) + 1, Len(text)) = <<>>
    BY <2>2, SubSeqEmpty
  <2>7. PICK n \in 0..Len(text) : n = Len(text) /\ n <= n
    BY <2>2
  <2>8. CASE part = <<>>
    <3>1. l = Len(text)
      <4>1. Len(part) = 0
        BY <2>8
      <4> QED
        BY <2>2, <2>3, <2>4, <4>1
    <3>2. got' = got
      BY <1>2, <2>8
    <3>3. At(l, p, c)'
      BY <1>1, <2>1, <2>5, <2>8, <3>2 DEF At
    <3>4. \A k \in 1..Len(got') : Returned(k)'
      BY <1>1, <1>5, <3>2, ReturnedStays DEF ReaderInv
    <3>5. Len(got') >= Cardinality(Ends) - 1
      <4>1. CASE l \in Ends /\ Rank(l) = Len(got) + 1
        <5>1. \A d \in Ends : d <= l
          BY <2>2, <3>1, EndsAre
        <5>2. Rank(l) = Cardinality(Ends)
          BY <2>2, <4>1, <5>1, Ranks
        <5> QED
          BY <2>2, <3>2, <4>1, <5>2
      <4>2. CASE Len(got) = Cardinality(Ends)
        BY <2>2, <3>2, <4>2
      <4> QED
        BY <2>1, <4>1, <4>2 DEF At
    <3> QED
      BY <3>3, <3>4, <3>5
  <2>9. CASE part # <<>>
    <3>1. l # Len(text)
      <4>1. Len(part) # 0
        BY <1>1, <2>9, EmptySeq DEF ReaderType
      <4> QED
        BY <2>2, <2>3, <2>4, <4>1
    <3>2. l \in Ends /\ Rank(l) = Len(got) + 1 /\ part = SubSeq(text, l + 1, Len(text))
          /\ \A h \in l + 1..Len(text) : text[h] # "LF"
      BY <2>1, <2>4, <3>1 DEF At
    <3>3. NextEnd(l) = Len(text) + 1
      <4>1. NextEnd(l) \in l + 1..Len(text) + 1 /\ (NextEnd(l) <= Len(text) => text[NextEnd(l)] = "LF")
        BY <2>2, <3>2, LineSpan
      <4>2. ~(NextEnd(l) <= Len(text))
        BY <2>2, <3>2, <4>1
      <4> QED
        BY <2>2, <4>1, <4>2
    <3>4. part = LineFrom(l) /\ Rank(l) = Cardinality(Ends)
      <4>1. LineFrom(l) = SubSeq(text, l + 1, NextEnd(l) - 1) /\ (Len(text) + 1) - 1 = Len(text)
        BY <2>2, <3>2, LineSpan
      <4> QED
        BY <2>2, <3>2, <3>3, <4>1, RankOfLine
    <3>5. At(n, n, n)'
      <4>1. Len(got') = Cardinality(Ends)
        BY <1>3, <2>9, <3>2, <3>4
      <4>2. \A h \in n + 1..n : text[h] # "LF"
        BY <2>2, <2>7
      <4> QED
        BY <1>1, <2>5, <2>6, <2>7, <4>1, <4>2 DEF At
    <3>6. ASSUME NEW k \in 1..Len(got') PROVE Returned(k)'
      <4>1. CASE k \in 1..Len(got)
        BY <1>1, <1>3, <1>5, <2>9, <4>1, ReturnedStays DEF ReaderInv
      <4>2. CASE k = Len(got) + 1
        <5>1. Rank(l) = k /\ got'[k] = LineFrom(l) /\ ~(k < Cardinality(Ends))
          <6>1. Rank(l) = k /\ k = Cardinality(Ends) /\ got'[k] = part
            BY <1>3, <2>9, <3>2, <3>4, <4>2
          <6> QED
            BY <2>2, <3>4, <6>1
        <5> QED
          BY <2>5, <3>2, <5>1 DEF Returned
      <4> QED
        BY <1>3, <2>9, <4>1, <4>2
    <3>7. reading' # "done"
      BY <1>1, <1>2, <2>9
    <3>8. \E a, b, d \in 0..Len(text) : At(a, b, d)'
      BY <2>7, <3>5
    <3> QED
      BY <3>6, <3>7, <3>8
  <2> QED
    BY <2>8, <2>9
<1>6. reading' \in {"line", "done"}
  BY <1>1, <1>2
<1> QED
  BY <1>1, <1>4, <1>5, <1>6, StepInv

LEMMA ReaderIsWhole == ReaderInv => LinesAreWhole
<1> SUFFICES ASSUME ReaderInv, AllFit, NEW k \in 1..Len(got)
             PROVE  /\ got[k] = IF k < Cardinality(Ends) THEN WithoutCR(LineAt(k)) ELSE LineAt(k)
                    /\ got[k] = LineAt(k) =>
                         ToSet(Tokens(LineAt(k))) = {SubSeq(LineAt(k), r[1], r[2]) : r \in Runs(LineAt(k))}
                    /\ reading = "done" => Len(got) >= Cardinality(Ends) - 1
  BY Zenon DEF LinesAreWhole
<1>1. PICK e \in Ends : Rank(e) = k /\ got[k] = IF k < Cardinality(Ends) THEN WithoutCR(LineFrom(e)) ELSE LineFrom(e)
  BY DEF ReaderInv, Returned
<1>2. text \in Seq(Chars)
  BY DEF ReaderInv, ReaderType
<1>3. LineAt(k) = LineFrom(e) /\ LineFrom(e) \in Seq(Chars)
  BY <1>1, <1>2, RankOfLine, LineSpan
<1>4. ToSet(Tokens(LineAt(k))) = {SubSeq(LineAt(k), r[1], r[2]) : r \in Runs(LineAt(k))}
  BY <1>3, TokensAreRuns
<1>5. reading = "done" => Len(got) >= Cardinality(Ends) - 1
  BY DEF ReaderInv
<1> QED
  BY <1>1, <1>3, <1>4, <1>5

\* Whatever the file, the size of the buffer and the room for a line, the lines
\* that fit are returned whole and in their order, and the tokens of each are its
\* runs of what is not blank.
THEOREM LinesCorrect == ReaderSpec => []LinesAreWhole
<1>1. ReaderInit => ReaderInv
  <2>1. 1..Len(<<>>) = {}
    OBVIOUS
  <2> QED
    BY <2>1, EmptySeq DEF ReaderInit, ReaderInv, ReaderType
<1>2. ReaderInv /\ [ReaderNext]_trVars => ReaderInv'
  <2> SUFFICES ASSUME ReaderInv, [ReaderNext]_trVars PROVE ReaderInv'
    OBVIOUS
  <2>1. CASE UNCHANGED trVars
    <3>1. text' = text /\ rest' = rest /\ buffer' = buffer /\ part' = part /\ reading' = reading /\ got' = got
      BY <2>1 DEF trVars
    <3>2. Ends' = Ends /\ AllFit' = AllFit /\ \A e : Rank(e)' = Rank(e) /\ LineFrom(e)' = LineFrom(e)
      BY <3>1, TextStays
    <3>3. \A k : Returned(k)' = Returned(k)
      BY <3>1, <3>2 DEF Returned
    <3>4. \A l, p, c : At(l, p, c)' = At(l, p, c)
      BY <3>1, <3>2 DEF At
    <3> QED
      BY <3>1, <3>2, <3>3, <3>4 DEF ReaderInv, ReaderType
  <2> QED
    BY <2>1, OpenInv, FillInv, CopyAllInv, TakeLineInv, EndOfFileInv DEF ReaderNext
<1> QED
  BY <1>1, <1>2, ReaderIsWhole, PTL DEF ReaderSpec

-----------------------------------------------------------------------------
(* Codebook: fractions.  A code is the fraction c[1] / c[2].                  *)

Positive == Nat \ {0}
CodePairs == Positive \X Positive

\* Of fractions a < b: one is not below itself, and order is transitive.
LEMMA BelowOrders ==
  ASSUME NEW a \in CodePairs, NEW b \in CodePairs
  PROVE  /\ ~Below(a, a)
         /\ Below(a, b) => ~Below(b, a)
         /\ \A c \in CodePairs : Below(a, b) /\ Below(b, c) => Below(a, c)
<1> DEFINE a1 == a[1]  a2 == a[2]  b1 == b[1]  b2 == b[2]
<1>1. a1 \in Positive /\ a2 \in Positive /\ b1 \in Positive /\ b2 \in Positive
  BY DEF CodePairs
<1>2. a1 * b2 \in Nat /\ b1 * a2 \in Nat /\ a1 * a2 \in Nat
  BY <1>1 DEF Positive
<1>3. ~Below(a, a)
  BY <1>2 DEF Below
<1>4. Below(a, b) => ~Below(b, a)
  BY <1>2 DEF Below
<1>5. ASSUME NEW c \in CodePairs, Below(a, b), Below(b, c)
      PROVE  Below(a, c)
  <2> DEFINE c1 == c[1]  c2 == c[2]
  <2>1. c1 \in Positive /\ c2 \in Positive
    BY DEF CodePairs
  <2>2. a1 * b2 < b1 * a2 /\ b1 * c2 < c1 * b2
    BY <1>5 DEF Below
  <2> HIDE DEF a1, a2, b1, b2, c1, c2
  <2>3. (a1 * b2) * c2 < (b1 * a2) * c2
    <3>1. a1 * b2 \in Nat /\ b1 * a2 \in Nat
      BY <1>1 DEF Positive
    <3> QED
      BY <2>1, <2>2, <3>1, Cancel DEF Positive
  <2>4. (b1 * c2) * a2 < (c1 * b2) * a2
    <3>1. b1 * c2 \in Nat /\ c1 * b2 \in Nat
      BY <1>1, <2>1 DEF Positive
    <3> QED
      BY <1>1, <2>2, <3>1, Cancel DEF Positive
  <2>5. (a1 * c2) * b2 < (c1 * a2) * b2
    BY <1>1, <2>1, <2>3, <2>4 DEF Positive
  <2>6. a1 * c2 \in Nat /\ c1 * a2 \in Nat
    BY <1>1, <2>1 DEF Positive
  <2>7. a1 * c2 < c1 * a2
    BY <1>1, <2>5, <2>6, Cancel DEF Positive
  <2> QED
    BY <2>7 DEF Below, a1, a2, c1, c2
<1> QED
  BY <1>3, <1>4, <1>5

\* What is nearer than its neighbour is nearer than what is behind that.
LEMMA NearFromBelow ==
  ASSUME NEW f \in Positive, NEW b \in CodePairs, NEW c \in CodePairs, b[1] <= f * b[2], Below(c, b)
  PROVE  AsNear(f, b, c)
<1> DEFINE b1 == b[1]  b2 == b[2]  c1 == c[1]  c2 == c[2]
<1>1. f \in Nat /\ b1 \in Nat /\ b2 \in Positive /\ b2 \in Nat /\ c1 \in Nat /\ c2 \in Nat
  BY DEF CodePairs, Positive
<1>2. b1 <= f * b2 /\ c1 * b2 < b1 * c2
  BY DEF Below
<1>3. ~Below(b, c)
  BY BelowOrders
<1>4. Below(b, c) \/ f * f * b2 * c2 >= b1 * c1 => AsNear(f, b, c)
  BY <1>3 DEF AsNear
<1> HIDE DEF b1, b2, c1, c2
<1>5. f * b2 \in Nat /\ f * c2 \in Nat /\ c1 * b2 \in Nat /\ b1 * c2 \in Nat
  BY <1>1
<1>6. b1 * c2 <= (f * b2) * c2
  BY <1>1, <1>2, <1>5, TimesMono
<1>7. c1 * b2 <= (f * c2) * b2
  BY <1>1, <1>2, <1>5, <1>6
<1>8. c1 <= f * c2
  BY <1>1, <1>5, <1>7, Cancel DEF Positive
<1>9. b1 * c1 <= (f * b2) * c1
  BY <1>1, <1>2, <1>5, TimesMono
<1>10. (f * b2) * c1 <= (f * b2) * (f * c2)
  BY <1>1, <1>5, <1>8, TimesMono
<1>11. (f * b2) * (f * c2) = f * f * b2 * c2 /\ b1 * c1 \in Nat /\ (f * b2) * c1 \in Nat /\ f * f * b2 * c2 \in Nat
  BY <1>1
<1>12. f * f * b2 * c2 >= b1 * c1
  BY <1>9, <1>10, <1>11
<1> QED
  BY <1>4, <1>12

LEMMA NearFromAbove ==
  ASSUME NEW f \in Positive, NEW b \in CodePairs, NEW c \in CodePairs, f * b[2] < b[1], Below(b, c)
  PROVE  AsNear(f, b, c)
<1> DEFINE b1 == b[1]  b2 == b[2]  c1 == c[1]  c2 == c[2]
<1>1. f \in Nat /\ b1 \in Nat /\ b2 \in Positive /\ b2 \in Nat /\ c1 \in Nat /\ c2 \in Nat
  BY DEF CodePairs, Positive
<1>2. f * b2 <= b1 /\ b1 * c2 < c1 * b2
  BY <1>1 DEF Below
<1>3. ~Below(c, b)
  BY BelowOrders
<1>4. f * f * b2 * c2 <= b1 * c1 => AsNear(f, b, c)
  BY <1>3 DEF AsNear
<1> HIDE DEF b1, b2, c1, c2
<1>5. f * b2 \in Nat /\ f * c2 \in Nat /\ c1 * b2 \in Nat /\ b1 * c2 \in Nat
  BY <1>1
<1>6. (f * b2) * c2 <= b1 * c2
  BY <1>1, <1>2, <1>5, TimesMono
<1>7. (f * c2) * b2 <= c1 * b2
  BY <1>1, <1>2, <1>5, <1>6
<1>8. f * c2 <= c1
  BY <1>1, <1>5, <1>7, Cancel DEF Positive
<1>9. (f * b2) * (f * c2) <= (f * b2) * c1
  BY <1>1, <1>5, <1>8, TimesMono
<1>10. (f * b2) * c1 <= b1 * c1
  BY <1>1, <1>2, <1>5, TimesMono
<1>11. (f * b2) * (f * c2) = f * f * b2 * c2 /\ b1 * c1 \in Nat /\ (f * b2) * c1 \in Nat /\ f * f * b2 * c2 \in Nat
  BY <1>1
<1>12. f * f * b2 * c2 <= b1 * c1
  BY <1>9, <1>10, <1>11
<1> QED
  BY <1>4, <1>12

LEMMA NearBeyondBelow ==
  ASSUME NEW f \in Positive, NEW b \in CodePairs, NEW d \in CodePairs, NEW c \in CodePairs,
         AsNear(f, b, d), Below(d, b), Below(c, d)
  PROVE  AsNear(f, b, c)
<1> DEFINE b1 == b[1]  b2 == b[2]  c1 == c[1]  c2 == c[2]  d1 == d[1]  d2 == d[2]
<1>1. f \in Nat /\ b1 \in Nat /\ b2 \in Nat /\ c1 \in Nat /\ c2 \in Nat /\ d1 \in Nat /\ d2 \in Nat /\ d2 \in Positive
  BY DEF CodePairs, Positive
<1>2. f * f * b2 * d2 >= b1 * d1 /\ c1 * d2 < d1 * c2
  BY DEF Below, AsNear
<1>3. ~Below(b, c)
  BY BelowOrders
<1>4. f * f * b2 * c2 >= b1 * c1 => AsNear(f, b, c)
  BY <1>3 DEF AsNear
<1> HIDE DEF b1, b2, c1, c2, d1, d2
<1>5. f * f * b2 * d2 \in Nat /\ b1 * d1 \in Nat /\ c1 * d2 \in Nat /\ d1 * c2 \in Nat /\ f * f * b2 * c2 \in Nat /\ b1 * c1 \in Nat
  BY <1>1
<1>6. (b1 * d1) * c2 <= (f * f * b2 * d2) * c2
  BY <1>1, <1>2, <1>5, TimesMono
<1>7. b1 * (c1 * d2) <= b1 * (d1 * c2)
  BY <1>1, <1>2, <1>5, TimesMono
<1>8. b1 * (d1 * c2) = (b1 * d1) * c2 /\ b1 * (c1 * d2) = (b1 * c1) * d2 /\ (f * f * b2 * d2) * c2 = (f * f * b2 * c2) * d2
  BY <1>1
<1>n. (b1 * d1) * c2 \in Nat /\ (b1 * c1) * d2 \in Nat /\ (f * f * b2 * c2) * d2 \in Nat
  BY <1>1, <1>5
<1>9. (b1 * c1) * d2 <= (f * f * b2 * c2) * d2
  BY <1>6, <1>7, <1>8, <1>n
<1>10. b1 * c1 <= f * f * b2 * c2
  BY <1>1, <1>5, <1>9, Cancel DEF Positive
<1> QED
  BY <1>4, <1>5, <1>10

LEMMA NearBeyondAbove ==
  ASSUME NEW f \in Positive, NEW b \in CodePairs, NEW d \in CodePairs, NEW c \in CodePairs,
         AsNear(f, b, d), Below(b, d), Below(d, c)
  PROVE  AsNear(f, b, c)
<1> DEFINE b1 == b[1]  b2 == b[2]  c1 == c[1]  c2 == c[2]  d1 == d[1]  d2 == d[2]
<1>1. f \in Nat /\ b1 \in Nat /\ b2 \in Nat /\ c1 \in Nat /\ c2 \in Nat /\ d1 \in Nat /\ d2 \in Nat /\ d2 \in Positive
  BY DEF CodePairs, Positive
<1>2. f * f * b2 * d2 <= b1 * d1 /\ d1 * c2 < c1 * d2
  BY DEF Below, AsNear
<1>3. ~Below(c, b)
  BY BelowOrders
<1>4. f * f * b2 * c2 <= b1 * c1 => AsNear(f, b, c)
  BY <1>3 DEF AsNear
<1> HIDE DEF b1, b2, c1, c2, d1, d2
<1>5. f * f * b2 * d2 \in Nat /\ b1 * d1 \in Nat /\ c1 * d2 \in Nat /\ d1 * c2 \in Nat /\ f * f * b2 * c2 \in Nat /\ b1 * c1 \in Nat
  BY <1>1
<1>6. (f * f * b2 * d2) * c2 <= (b1 * d1) * c2
  BY <1>1, <1>2, <1>5, TimesMono
<1>7. b1 * (d1 * c2) <= b1 * (c1 * d2)
  BY <1>1, <1>2, <1>5, TimesMono
<1>8. b1 * (d1 * c2) = (b1 * d1) * c2 /\ b1 * (c1 * d2) = (b1 * c1) * d2 /\ (f * f * b2 * d2) * c2 = (f * f * b2 * c2) * d2
  BY <1>1
<1>n. (b1 * d1) * c2 \in Nat /\ (b1 * c1) * d2 \in Nat /\ (f * f * b2 * c2) * d2 \in Nat
  BY <1>1, <1>5
<1>9. (f * f * b2 * c2) * d2 <= (b1 * c1) * d2
  BY <1>6, <1>7, <1>8, <1>n
<1>10. f * f * b2 * c2 <= b1 * c1
  BY <1>1, <1>5, <1>9, Cancel DEF Positive
<1> QED
  BY <1>4, <1>5, <1>10

\* A higher frequency is not nearer to a lower code.
LEMMA NearestGrows ==
  ASSUME NEW f \in Positive, NEW g \in Positive, NEW c \in CodePairs, NEW d \in CodePairs,
         f < g, Below(d, c), AsNear(f, c, d), AsNear(g, d, c)
  PROVE  FALSE
<1> DEFINE c1 == c[1]  c2 == c[2]  d1 == d[1]  d2 == d[2]
<1>1. f \in Nat /\ g \in Nat /\ c1 \in Nat /\ c2 \in Positive /\ d1 \in Nat /\ d2 \in Positive /\ c2 \in Nat /\ d2 \in Nat
  BY DEF CodePairs, Positive
<1>2. f * f * c2 * d2 >= c1 * d1 /\ g * g * d2 * c2 <= d1 * c1
  BY DEF AsNear
<1> HIDE DEF c1, c2, d1, d2
<1>3. c2 * d2 \in Nat /\ c2 * d2 >= 1 /\ f * f \in Nat /\ g * g \in Nat /\ c1 * d1 \in Nat
  <2>1. c2 >= 1 /\ d2 >= 1
    BY <1>1 DEF Positive
  <2>2. c2 * 1 <= c2 * d2
    BY <1>1, <2>1, TimesMono
  <2> QED
    BY <1>1, <2>1, <2>2
<1>4. f * f < g * g
  <2>1. f * f <= f * g
    BY <1>1, TimesMono
  <2>2. f * g < g * g
    BY <1>1, Cancel DEF Positive
  <2> QED
    BY <1>1, <2>1, <2>2
<1>5. (f * f) * (c2 * d2) < (g * g) * (c2 * d2)
  <2>1. c2 * d2 \in Positive
    BY <1>3 DEF Positive
  <2> QED
    BY <1>3, <1>4, <2>1, Cancel DEF Positive
<1>6. (f * f) * (c2 * d2) = f * f * c2 * d2 /\ (g * g) * (c2 * d2) = g * g * d2 * c2 /\ d1 * c1 = c1 * d1
  BY <1>1
<1> QED
  BY <1>1, <1>2, <1>3, <1>5, <1>6

-----------------------------------------------------------------------------
(* Codebook: the search.                                                      *)

LEMMA RangeIs ==
  ASSUME NEW r \in Ranges
  PROVE  /\ r[1] \in 1..BookSize /\ r[2] \in 1..BookSize /\ r[1] <= r[2] /\ BookSize \in Nat
         /\ r = <<r[1], r[2]>>
  BY BookAssumption DEF Ranges, Book

LEMMA HalvesAre ==
  ASSUME NEW r \in Ranges, r[1] # r[2], r[1] + 1 # r[2]
  PROVE  LET mid == (r[1] + r[2]) \div 2
         IN  /\ mid \in Book /\ r[1] < mid /\ mid < r[2]
             /\ <<r[1], mid>> \in Ranges /\ <<mid, r[2]>> \in Ranges
<1> DEFINE mid == (r[1] + r[2]) \div 2
<1>1. r[1] \in 1..BookSize /\ r[2] \in 1..BookSize /\ r[1] + 1 < r[2] /\ BookSize \in Nat
  BY RangeIs
<1>2. mid \in Int /\ r[1] < mid /\ mid < r[2]
  BY <1>1
<1>3. mid \in Book
  BY <1>1, <1>2 DEF Book
<1> HIDE DEF mid
<1>4. <<r[1], mid>> \in Book \X Book /\ <<r[1], mid>>[1] <= <<r[1], mid>>[2]
  BY <1>1, <1>2, <1>3 DEF Book
<1>5. <<mid, r[2]>> \in Book \X Book /\ <<mid, r[2]>>[1] <= <<mid, r[2]>>[2]
  BY <1>1, <1>2, <1>3 DEF Book
<1>6. <<r[1], mid>> \in Ranges /\ <<mid, r[2]>> \in Ranges
  BY <1>4, <1>5, Zenon DEF Ranges
<1> QED
  BY <1>2, <1>3, <1>6 DEF mid

\* The search exists: a call looks at shorter ranges only.
LEMMA SearchExists ==
  ASSUME NEW f
  PROVE  \E s : s = [r \in Ranges |-> NearestIn(f, r, s)]
<1> DEFINE Good(s, m) == \A r \in Ranges : r[2] - r[1] < m => s[r] = NearestIn(f, r, s)
           A == {m \in Nat : \E s : s = [r \in Ranges |-> s[r]] /\ Good(s, m)}
<1>1. ASSUME NEW g, NEW h, NEW r \in Ranges, \A q \in Ranges : q[2] - q[1] < r[2] - r[1] => g[q] = h[q]
      PROVE  NearestIn(f, r, g) = NearestIn(f, r, h)
  <2> DEFINE mid == (r[1] + r[2]) \div 2
  <2>1. CASE r[1] = r[2] \/ r[1] + 1 = r[2]
    BY <2>1 DEF NearestIn
  <2>2. CASE r[1] # r[2] /\ r[1] + 1 # r[2]
    <3>1. /\ mid \in Book /\ r[1] < mid /\ mid < r[2]
          /\ <<r[1], mid>> \in Ranges /\ <<mid, r[2]>> \in Ranges
      BY <2>2, HalvesAre
    <3> HIDE DEF mid
    <3>2. r[1] \in Nat /\ r[2] \in Nat /\ mid \in Nat
      BY <3>1, RangeIs DEF Book
    <3>3. mid - r[1] < r[2] - r[1] /\ r[2] - mid < r[2] - r[1]
      BY <3>1, <3>2
    <3>4. g[<<r[1], mid>>] = h[<<r[1], mid>>] /\ g[<<mid, r[2]>>] = h[<<mid, r[2]>>]
      BY <1>1, <3>1, <3>3
    <3> QED
      BY <2>2, <3>4 DEF NearestIn, mid
  <2> QED
    BY <2>1, <2>2
<1>2. 0 \in A
  <2> DEFINE s == [r \in Ranges |-> 0]
  <2>1. s = [r \in Ranges |-> s[r]]
    OBVIOUS
  <2>2. Good(s, 0)
    <3>1. \A r \in Ranges : ~(r[2] - r[1] < 0)
      BY RangeIs
    <3> QED
      BY <3>1
  <2> HIDE DEF s
  <2> QED
    BY <2>1, <2>2
<1>3. ASSUME NEW m \in A PROVE m + 1 \in A
  <2>1. PICK h : h = [r \in Ranges |-> h[r]] /\ Good(h, m)
    OBVIOUS
  <2> DEFINE g == [r \in Ranges |-> IF r[2] - r[1] < m THEN h[r] ELSE NearestIn(f, r, h)]
  <2>2. ASSUME NEW r \in Ranges, r[2] - r[1] < m + 1 PROVE g[r] = NearestIn(f, r, g)
    <3>0. m \in Nat /\ \A q \in Ranges : q[2] - q[1] \in Int
      BY RangeIs
    <3>1. \A q \in Ranges : q[2] - q[1] < r[2] - r[1] => q[2] - q[1] < m
      BY <2>2, <3>0
    <3>2. \A q \in Ranges : q[2] - q[1] < r[2] - r[1] => h[q] = g[q]
      BY <3>1
    <3>3. NearestIn(f, r, h) = NearestIn(f, r, g)
      BY <1>1, <3>2
    <3>4. g[r] = NearestIn(f, r, h)
      BY <2>1
    <3> QED
      BY <3>3, <3>4
  <2>3. g = [r \in Ranges |-> g[r]] /\ m + 1 \in Nat
    OBVIOUS
  <2> HIDE DEF g
  <2> QED
    BY <2>2, <2>3
<1>4. A = Nat
  <2> HIDE DEF A
  <2>1. A \in SUBSET Nat
    BY DEF A
  <2> QED
    BY <1>2, <1>3, <2>1, Induction
<1>5. PICK s : s = [r \in Ranges |-> s[r]] /\ Good(s, BookSize)
  BY <1>4, BookAssumption
<1>6. \A r \in Ranges : r[2] - r[1] < BookSize
  BY RangeIs
<1>7. \A r \in Ranges : s[r] = NearestIn(f, r, s)
  BY <1>5, <1>6
<1>8. s = [r \in Ranges |-> NearestIn(f, r, s)]
  BY <1>5, <1>7
<1> QED
  BY <1>8

LEMMA SearchIs ==
  ASSUME NEW f
  PROVE  \E s : s = [r \in Ranges |-> NearestIn(f, r, s)] /\ QSearchNearest(f) = s[<<1, BookSize>>]
  BY SearchExists, Zenon DEF QSearchNearest

Ordered == \A c, d \in Book : c < d => Below(codes[c], codes[d])
Nearest(f, i) == i \in Book /\ \A c \in Book : AsNear(f, codes[i], codes[c])

LEMMA NearItself == ASSUME NEW f, NEW c \in CodePairs PROVE AsNear(f, c, c)
  BY BelowOrders DEF AsNear

\* Between a lower code that is below f and an upper one that is above f, the nearest
\* of all is the nearer of the two.
LEMMA NearestBetween ==
  ASSUME NEW f \in Positive, codes \in [Book -> CodePairs], Ordered,
         NEW b \in Book, NEW e \in Book, b = e \/ b + 1 = e,
         b = 1 \/ codes[b][1] <= f * codes[b][2], e = BookSize \/ f * codes[e][2] < codes[e][1]
  PROVE  /\ AsNear(f, codes[e], codes[b]) => Nearest(f, e)
         /\ AsNear(f, codes[b], codes[e]) => Nearest(f, b)
<1>1. /\ BookSize \in Nat /\ b \in 1..BookSize /\ e \in 1..BookSize
      /\ \A c \in Book : c \in 1..BookSize /\ codes[c] \in CodePairs
  BY BookAssumption DEF Book
<1>2. ASSUME AsNear(f, codes[e], codes[b]), NEW c \in Book PROVE AsNear(f, codes[e], codes[c])
  <2>1. CASE c = e
    BY <1>1, <2>1, NearItself
  <2>2. CASE c > e
    <3>1. e # BookSize /\ Below(codes[e], codes[c])
      BY <1>1, <2>2 DEF Ordered
    <3> QED
      BY <1>1, <3>1, NearFromAbove
  <2>3. CASE c = b
    BY <1>2, <2>3
  <2>4. CASE c < b
    <3>1. Below(codes[c], codes[b]) /\ b # 1
      BY <1>1, <2>4 DEF Ordered
    <3>2. CASE b = e
      BY <1>1, <3>1, <3>2, NearFromBelow
    <3>3. CASE b + 1 = e
      <4>1. Below(codes[b], codes[e])
        BY <1>1, <3>3 DEF Ordered
      <4> QED
        BY <1>1, <1>2, <3>1, <4>1, NearBeyondBelow
    <3> QED
      BY <3>2, <3>3
  <2> QED
    BY <1>1, <2>1, <2>2, <2>3, <2>4
<1>3. ASSUME AsNear(f, codes[b], codes[e]), NEW c \in Book PROVE AsNear(f, codes[b], codes[c])
  <2>1. CASE c = b
    BY <1>1, <2>1, NearItself
  <2>2. CASE c < b
    <3>1. b # 1 /\ Below(codes[c], codes[b])
      BY <1>1, <2>2 DEF Ordered
    <3> QED
      BY <1>1, <3>1, NearFromBelow
  <2>3. CASE c = e
    BY <1>3, <2>3
  <2>4. CASE c > e
    <3>1. Below(codes[e], codes[c]) /\ e # BookSize
      BY <1>1, <2>4 DEF Ordered
    <3>2. CASE b = e
      BY <1>1, <3>1, <3>2, NearFromAbove
    <3>3. CASE b + 1 = e
      <4>1. Below(codes[b], codes[e])
        BY <1>1, <3>3 DEF Ordered
      <4> QED
        BY <1>1, <1>3, <3>1, <4>1, NearBeyondAbove
    <3> QED
      BY <3>2, <3>3
  <2> QED
    BY <1>1, <2>1, <2>2, <2>3, <2>4
<1> QED
  BY <1>2, <1>3 DEF Nearest

LEMMA OneIsNearer ==
  ASSUME NEW f \in Positive, NEW b \in CodePairs, NEW c \in CodePairs
  PROVE  AsNear(f, b, c) \/ AsNear(f, c, b)
<1> DEFINE b1 == b[1]  b2 == b[2]  c1 == c[1]  c2 == c[2]
<1>1. f \in Nat /\ b1 \in Nat /\ b2 \in Nat /\ c1 \in Nat /\ c2 \in Nat
  BY DEF CodePairs, Positive
<1>2. ~(Below(b, c) /\ Below(c, b))
  BY BelowOrders
<1>3. f * f * b2 * c2 \in Nat /\ b1 * c1 \in Nat /\ f * f * b2 * c2 = f * f * c2 * b2 /\ b1 * c1 = c1 * b1
  BY <1>1
<1>4. f * f * b2 * c2 <= b1 * c1 \/ f * f * b2 * c2 >= b1 * c1
  BY <1>3
<1> QED
  BY <1>2, <1>3, <1>4 DEF AsNear

\* What the search finds is the nearest of all codes.
LEMMA SearchFindsNearest ==
  ASSUME NEW f \in Positive, codes \in [Book -> CodePairs], Ordered
  PROVE  Nearest(f, QSearchNearest(f))
<1>1. PICK s : s = [r \in Ranges |-> NearestIn(f, r, s)] /\ QSearchNearest(f) = s[<<1, BookSize>>]
  BY SearchIs
<1> DEFINE Holds(r) == /\ r[1] = 1 \/ codes[r[1]][1] <= f * codes[r[1]][2]
                       /\ r[2] = BookSize \/ f * codes[r[2]][2] < codes[r[2]][1]
           A == {m \in Nat : \A r \in Ranges : r[2] - r[1] < m /\ Holds(r) => Nearest(f, s[r])}
<1>2. 0 \in A
  <2>1. \A r \in Ranges : ~(r[2] - r[1] < 0)
    BY RangeIs
  <2> QED
    BY <2>1
<1>3. ASSUME NEW m \in A PROVE m + 1 \in A
  <2> SUFFICES ASSUME NEW r \in Ranges, r[2] - r[1] < m + 1, Holds(r) PROVE Nearest(f, s[r])
    OBVIOUS
  <2> DEFINE b == r[1]  e == r[2]  mid == (b + e) \div 2
  <2>1. b \in Book /\ e \in Book /\ codes[b] \in CodePairs /\ codes[e] \in CodePairs /\ b \in Nat /\ e \in Nat /\ m \in Nat
    BY RangeIs DEF Book
  <2>2. s[r] = NearestIn(f, r, s)
    BY <1>1
  <2>3. CASE b = e
    <3>1. AsNear(f, codes[e], codes[b])
      BY <2>1, <2>3, NearItself
    <3>2. s[r] = b
      BY <2>2, <2>3 DEF NearestIn
    <3> QED
      BY <2>1, <2>3, <3>1, <3>2, NearestBetween
  <2>4. CASE b # e /\ b + 1 = e
    <3>1. s[r] = IF AsNear(f, codes[e], codes[b]) THEN e ELSE b
      BY <2>2, <2>4 DEF NearestIn
    <3>2. AsNear(f, codes[e], codes[b]) \/ AsNear(f, codes[b], codes[e])
      BY <2>1, OneIsNearer
    <3> QED
      BY <2>1, <2>4, <3>1, <3>2, NearestBetween
  <2>5. CASE b # e /\ b + 1 # e
    <3>1. /\ mid \in Book /\ b < mid /\ mid < e
          /\ <<b, mid>> \in Ranges /\ <<mid, e>> \in Ranges
      BY <2>5, HalvesAre
    <3>2. s[r] = IF codes[mid][1] > f * codes[mid][2] THEN s[<<b, mid>>] ELSE s[<<mid, e>>]
      BY <2>2, <2>5 DEF NearestIn
    <3> HIDE DEF mid
    <3>3. mid \in Nat /\ codes[mid] \in CodePairs /\ codes[mid][1] \in Nat /\ f * codes[mid][2] \in Nat
      BY <3>1 DEF Book, CodePairs, Positive
    <3>4. mid - b < m /\ e - mid < m
      BY <2>1, <3>1, <3>3
    <3>5. CASE codes[mid][1] > f * codes[mid][2]
      <4>1. Holds(<<b, mid>>)
        BY <3>3, <3>5
      <4>2. <<b, mid>>[2] - <<b, mid>>[1] < m
        BY <3>4
      <4>3. Nearest(f, s[<<b, mid>>])
        BY <3>1, <4>1, <4>2
      <4> QED
        BY <3>2, <3>5, <4>3
    <3>6. CASE ~(codes[mid][1] > f * codes[mid][2])
      <4>1. Holds(<<mid, e>>)
        BY <3>3, <3>6
      <4>2. <<mid, e>>[2] - <<mid, e>>[1] < m
        BY <3>4
      <4>3. Nearest(f, s[<<mid, e>>])
        BY <3>1, <4>1, <4>2
      <4> QED
        BY <3>2, <3>6, <4>3
    <3> QED
      BY <3>5, <3>6
  <2> QED
    BY <2>3, <2>4, <2>5
<1>4. A = Nat
  <2> HIDE DEF A
  <2>1. A \in SUBSET Nat
    BY DEF A
  <2> QED
    BY <1>2, <1>3, <2>1, Induction
<1>5. <<1, BookSize>> \in Ranges
  <2>1. 1 \in Book /\ BookSize \in Book /\ 1 <= BookSize
    BY BookAssumption DEF Book
  <2>2. <<1, BookSize>> \in Book \X Book /\ <<1, BookSize>>[1] <= <<1, BookSize>>[2]
    BY <2>1
  <2> QED
    BY <2>2, Zenon DEF Ranges
<1>6. BookSize \in A /\ BookSize - 1 < BookSize
  <2> HIDE DEF A
  <2> QED
    BY <1>4, BookAssumption
<1>7. Holds(<<1, BookSize>>)
  OBVIOUS
<1> QED
  BY <1>1, <1>5, <1>6, <1>7

-----------------------------------------------------------------------------
(* Codebook: the means.                                                       *)

SumTo(S, sum) == [k \in 0..Len(freqs) |-> IF k = 0 THEN 0 ELSE sum[k - 1] + (IF k \in S THEN freqs[k] ELSE 0)]

LEMMA KernelSumExists ==
  ASSUME NEW S, freqs \in Seq(Positive)
  PROVE  \E sum : sum = SumTo(S, sum) /\ SumOf(S) = sum[Len(freqs)]
<1> DEFINE n == Len(freqs)
           Next1(s, k) == IF k = 0 THEN 0 ELSE s[k - 1] + (IF k \in S THEN freqs[k] ELSE 0)
           A == {m \in Nat : \E s : s = [k \in 0..n |-> s[k]] /\ \A k \in 0..n : k < m => s[k] = Next1(s, k)}
<1>1. n \in Nat
  BY LenProperties
<1>2. 0 \in A
  <2> DEFINE s == [k \in 0..n |-> 0]
  <2>1. s = [k \in 0..n |-> s[k]] /\ \A k \in 0..n : ~(k < 0)
    BY <1>1
  <2> HIDE DEF s
  <2> QED
    BY <2>1
<1>3. ASSUME NEW m \in A PROVE m + 1 \in A
  <2>1. PICK h : h = [k \in 0..n |-> h[k]] /\ \A k \in 0..n : k < m => h[k] = Next1(h, k)
    OBVIOUS
  <2> DEFINE g == [k \in 0..n |-> IF k < m THEN h[k] ELSE Next1(h, k)]
  <2>2. ASSUME NEW k \in 0..n, k < m + 1 PROVE g[k] = Next1(g, k)
    <3>0. m \in Nat
      OBVIOUS
    <3>1. k # 0 => g[k - 1] = h[k - 1]
      BY <1>1, <2>2, <3>0
    <3>2. Next1(g, k) = Next1(h, k)
      BY <3>1
    <3>3. g[k] = Next1(h, k)
      BY <2>1
    <3> QED
      BY <3>2, <3>3
  <2>3. g = [k \in 0..n |-> g[k]] /\ m + 1 \in Nat
    OBVIOUS
  <2> HIDE DEF g
  <2> QED
    BY <2>2, <2>3
<1>4. A = Nat
  <2> HIDE DEF A
  <2>1. A \in SUBSET Nat
    BY DEF A
  <2> QED
    BY <1>2, <1>3, <2>1, Induction
<1>5. n + 1 \in A
  <2> HIDE DEF A
  <2> QED
    BY <1>1, <1>4
<1>6. PICK s : s = [k \in 0..n |-> s[k]] /\ \A k \in 0..n : k < n + 1 => s[k] = Next1(s, k)
  BY <1>5
<1>7. \A k \in 0..n : s[k] = Next1(s, k)
  BY <1>1, <1>6
<1>8. s = SumTo(S, s)
  BY <1>6, <1>7 DEF SumTo
<1>9. \E sum : sum = SumTo(S, sum)
  BY <1>8
<1> QED
  BY <1>9, Zenon DEF SumOf, SumTo

LEMMA SumBounds ==
  ASSUME freqs \in Seq(Positive), NEW S \in SUBSET (1..Len(freqs)), NEW lo \in Nat, NEW hi \in Nat,
         \A k \in S : lo <= freqs[k]
  PROVE  /\ IsFiniteSet(S) /\ Cardinality(S) \in Nat
         /\ SumOf(S) \in Nat /\ lo * Cardinality(S) <= SumOf(S)
         /\ (\A k \in S : freqs[k] <= hi) => SumOf(S) <= hi * Cardinality(S)
<1> DEFINE n == Len(freqs)
           Upto(k) == {j \in S : j <= k}
           High == \A k \in S : freqs[k] <= hi
<1>1. n \in Nat /\ \A j \in S : j \in Nat /\ 1 <= j /\ j <= n
  BY LenProperties
<1>2. IsFiniteSet(S)
  <2>1. IsFiniteSet(1..n)
    BY <1>1, FS_Interval
  <2> QED
    BY <2>1, FS_Subset
<1>3. \A k \in Nat : IsFiniteSet(Upto(k)) /\ Cardinality(Upto(k)) \in Nat
  BY <1>2, FS_Subset, FS_CardinalityType
<1>4. PICK sum : sum = SumTo(S, sum) /\ SumOf(S) = sum[n]
  BY KernelSumExists
<1>5. \A k \in 0..n : sum[k] = IF k = 0 THEN 0 ELSE sum[k - 1] + (IF k \in S THEN freqs[k] ELSE 0)
  <2>1. \A k \in 0..n : SumTo(S, sum)[k] = IF k = 0 THEN 0 ELSE sum[k - 1] + (IF k \in S THEN freqs[k] ELSE 0)
    BY DEF SumTo
  <2> QED
    BY <1>4, <2>1
<1> DEFINE Bounded(k) == sum[k] \in Nat /\ lo * Cardinality(Upto(k)) <= sum[k] /\ (High => sum[k] <= hi * Cardinality(Upto(k)))
           A == {k \in Nat : k <= n => Bounded(k)}
<1>6. 0 \in A
  <2>1. Upto(0) = {}
    <3>1. \A j \in S : ~(j <= 0)
      BY <1>1
    <3> QED
      BY <3>1
  <2>2. Cardinality(Upto(0)) = 0
    BY <2>1, FS_EmptySet
  <2>3. sum[0] = 0
    BY <1>1, <1>5
  <2> HIDE DEF Upto
  <2> QED
    BY <2>2, <2>3
<1>7. ASSUME NEW k \in A PROVE k + 1 \in A
  <2> SUFFICES ASSUME k + 1 <= n PROVE Bounded(k + 1)
    OBVIOUS
  <2>1. Bounded(k) /\ k \in Nat /\ k + 1 \in 1..n
    BY <1>1
  <2>2. sum[k + 1] = sum[k] + (IF k + 1 \in S THEN freqs[k + 1] ELSE 0)
    BY <1>1, <1>5, <2>1
  <2> DEFINE c == Cardinality(Upto(k))
  <2>3. c \in Nat
    BY <1>3, <2>1
  <2>4. CASE k + 1 \in S
    <3>1. Upto(k + 1) = Upto(k) \cup {k + 1} /\ k + 1 \notin Upto(k)
      <4>1. \A j \in S : j <= k + 1 <=> j <= k \/ j = k + 1
        BY <1>1, <2>1
      <4>2. ~(k + 1 <= k)
        BY <2>1
      <4> QED
        BY <2>4, <4>1, <4>2
    <3> HIDE DEF Upto
    <3>2. Cardinality(Upto(k + 1)) = c + 1
      BY <1>3, <2>1, <3>1, FS_AddElement
    <3>3. lo <= freqs[k + 1] /\ (High => freqs[k + 1] <= hi) /\ freqs[k + 1] \in Nat
      BY <2>1, <2>4 DEF Positive
    <3> HIDE DEF High
    <3> HIDE DEF c
    <3>4. lo * (c + 1) = lo * c + lo /\ hi * (c + 1) = hi * c + hi /\ lo * c \in Nat /\ hi * c \in Nat
      BY <2>3
    <3>5. sum[k] \in Nat /\ lo * c <= sum[k] /\ (High => sum[k] <= hi * c)
      BY <2>1 DEF c
    <3>6. sum[k + 1] = sum[k] + freqs[k + 1]
      BY <2>2, <2>4
    <3> QED
      BY <3>2, <3>3, <3>4, <3>5, <3>6
  <2>5. CASE k + 1 \notin S
    <3>1. Upto(k + 1) = Upto(k)
      <4>1. \A j \in S : j <= k + 1 <=> j <= k
        BY <1>1, <2>1, <2>5
      <4> QED
        BY <4>1
    <3> HIDE DEF Upto
    <3>2. sum[k + 1] = sum[k] + 0
      BY <2>2, <2>5
    <3> QED
      BY <2>1, <3>1, <3>2
  <2> QED
    BY <2>4, <2>5
<1>8. A = Nat
  <2> HIDE DEF A
  <2>1. A \in SUBSET Nat
    BY DEF A
  <2> QED
    BY <1>6, <1>7, <2>1, Induction
<1>9. Bounded(n)
  <2>1. n \in A
    <3> HIDE DEF A
    <3> QED
      BY <1>1, <1>8
  <2> QED
    BY <1>1, <2>1
<1>10. Upto(n) = S
  BY <1>1
<1> HIDE DEF Upto
<1> QED
  BY <1>1, <1>2, <1>3, <1>4, <1>9, <1>10

LEMMA MeansAreOrdered ==
  ASSUME freqs \in Seq(Positive), NEW S \in SUBSET (1..Len(freqs)), NEW T \in SUBSET (1..Len(freqs)), S # {}, T # {},
         \A j \in S, k \in T : freqs[j] < freqs[k]
  PROVE  Below(<<SumOf(S), Cardinality(S)>>, <<SumOf(T), Cardinality(T)>>)
<1> DEFINE values == {freqs[k] : k \in T}
<1>0. \A k \in S \cup T : freqs[k] \in Nat /\ freqs[k] >= 1
  BY DEF Positive
<1>1. values \in SUBSET Nat /\ values # {}
  BY <1>0
<1>2. PICK lo \in values : \A v \in values : lo <= v
  BY <1>1, LeastExists
<1>3. PICK t \in T : lo = freqs[t]
  BY <1>2
<1>4. lo \in Nat /\ \A k \in T : lo <= freqs[k]
  BY <1>1, <1>2
<1>5. lo - 1 \in Nat /\ \A j \in S : freqs[j] <= lo - 1
  BY <1>0, <1>3, <1>4
<1> DEFINE m == Cardinality(S)  n == Cardinality(T)  a == SumOf(S)  b == SumOf(T)
<1>6. m \in Nat /\ a \in Nat /\ a <= (lo - 1) * m
  <2>1. \A j \in S : 0 <= freqs[j]
    BY <1>0
  <2> QED
    BY <1>5, <2>1, SumBounds
<1>7. n \in Nat /\ b \in Nat /\ lo * n <= b
  BY <1>4, SumBounds
<1>8. m >= 1 /\ n >= 1
  <2>1. IsFiniteSet(S) /\ IsFiniteSet(T)
    BY <1>0, <1>4, SumBounds
  <2>2. m # 0 /\ n # 0
    BY <2>1, FS_EmptySet
  <2> QED
    BY <1>6, <1>7, <2>2
<1> HIDE DEF m, n, a, b
<1>9. a * n <= ((lo - 1) * m) * n
  <2>1. (lo - 1) * m \in Nat
    BY <1>5, <1>6
  <2> QED
    BY <1>6, <1>7, <2>1, TimesMono
<1>10. (lo * n) * m <= b * m
  BY <1>4, <1>6, <1>7, TimesMono
<1>11. ((lo - 1) * m) * n = (lo * n) * m - m * n /\ m * n \in Nat /\ m * n >= 1
  <2>1. m * 1 <= m * n
    BY <1>6, <1>7, <1>8, TimesMono
  <2> QED
    BY <1>4, <1>6, <1>7, <1>8, <2>1
<1>12. a * n < b * m
  BY <1>4, <1>5, <1>6, <1>7, <1>9, <1>10, <1>11
<1> QED
  BY <1>12 DEF Below, m, n, a, b

-----------------------------------------------------------------------------
(* Codebook: the codes at the beginning.                                      *)

\* The first frequencies that differ are as many as the codes.
LEMMA EnoughFirsts ==
  ASSUME NEW s \in FreqLists
  PROVE  LET firsts == {k \in 1..Len(s) : \A j \in 1..k - 1 : s[j] # s[k]}
             values == {s[k] : k \in {k \in firsts : Cardinality({j \in firsts : j <= k}) <= BookSize}}
         IN  values \in SUBSET Positive /\ IsFiniteSet(values) /\ Cardinality(values) >= BookSize
<1> DEFINE firsts == {k \in 1..Len(s) : \A j \in 1..k - 1 : s[j] # s[k]}
           Upto(k) == {j \in firsts : j <= k}
           kept == {k \in firsts : Cardinality(Upto(k)) <= BookSize}
           values == {s[k] : k \in kept}
<1>1. s \in Seq(Positive) /\ BookSize \in Nat /\ BookSize >= 1 /\ Cardinality(ToSet(s)) >= BookSize
  BY BookAssumption DEF Positive
<1>2. Len(s) \in Nat /\ DOMAIN s = 1..Len(s) /\ \A k \in 1..Len(s) : s[k] \in Positive
  BY <1>1, LenProperties
<1>3. firsts \subseteq 1..Len(s) /\ firsts \subseteq Nat /\ IsFiniteSet(firsts)
  <2>1. IsFiniteSet(1..Len(s)) /\ 1..Len(s) \subseteq Nat
    BY <1>2, FS_Interval
  <2>2. firsts \subseteq 1..Len(s)
    OBVIOUS
  <2> HIDE DEF firsts
  <2> QED
    BY <2>1, <2>2, FS_Subset
<1>4. \A j, k \in firsts : s[j] = s[k] => j = k
  <2> SUFFICES ASSUME NEW j \in firsts, NEW k \in firsts, s[j] = s[k], j # k PROVE FALSE
    OBVIOUS
  <2>1. j \in 1..k - 1 \/ k \in 1..j - 1
    BY <1>2
  <2> QED
    BY <2>1
<1>5. \A v \in ToSet(s) : \E k \in firsts : s[k] = v
  <2> SUFFICES ASSUME NEW v \in ToSet(s) PROVE \E k \in firsts : s[k] = v
    OBVIOUS
  <2> DEFINE places == {k \in 1..Len(s) : s[k] = v}
  <2>1. places \in SUBSET Nat /\ places # {}
    BY <1>2 DEF ToSet
  <2>2. PICK x \in places : \A y \in places : x <= y
    BY <2>1, LeastExists
  <2>3. \A j \in 1..x - 1 : s[j] # s[x]
    BY <1>2, <2>2
  <2> QED
    BY <2>2, <2>3
<1> HIDE DEF firsts
<1>6. Cardinality(firsts) >= BookSize
  <2> DEFINE F == [k \in firsts |-> s[k]]
  <2>1. \A k \in firsts : s[k] \in ToSet(s)
    BY <1>2, <1>3 DEF ToSet
  <2>2. IsFiniteSet(ToSet(s)) /\ Cardinality(ToSet(s)) <= Cardinality(firsts)
    <3>1. F \in [firsts -> ToSet(s)] /\ \A v \in ToSet(s) : \E k \in firsts : F[k] = v
      BY <1>5, <2>1
    <3> HIDE DEF F
    <3> QED
      BY <1>3, <3>1, ReachedIsFinite
  <2>3. Cardinality(firsts) \in Nat /\ Cardinality(ToSet(s)) \in Nat
    BY <1>3, <2>2, FS_CardinalityType
  <2> QED
    BY <1>1, <2>2, <2>3
<1>7. IsFiniteSet(kept) /\ Cardinality(kept) >= BookSize
  <2>1. BookSize - 1 \in Nat /\ BookSize - 1 < Cardinality(firsts)
    BY <1>1, <1>3, <1>6, FS_CardinalityType
  <2>2. PICK x \in firsts : Cardinality({j \in firsts : j < x}) = BookSize - 1
    BY <1>3, <2>1, RankExists
  <2> DEFINE low == {j \in firsts : j < x}
  <2>3. Upto(x) = low \cup {x} /\ x \notin low
    <3>1. \A j \in firsts : j <= x <=> j < x \/ j = x
      BY <1>3
    <3>2. ~(x < x)
      BY <1>3
    <3> QED
      BY <3>1, <3>2
  <2>4. IsFiniteSet(low) /\ IsFiniteSet(kept) /\ IsFiniteSet(Upto(x))
    BY <1>3, FS_Subset
  <2>5. Cardinality(Upto(x)) = BookSize
    <3>1. Cardinality(low) = BookSize - 1
      BY <2>2
    <3> HIDE DEF low, Upto
    <3> QED
      BY <1>1, <2>3, <2>4, <3>1, FS_AddElement
  <2>6. Upto(x) \subseteq kept
    <3> SUFFICES ASSUME NEW k \in firsts, k <= x PROVE Cardinality(Upto(k)) <= BookSize
      OBVIOUS
    <3>1. Upto(k) \subseteq Upto(x)
      <4>1. \A j \in firsts : j <= k => j <= x
        BY <1>3
      <4> QED
        BY <4>1
    <3> HIDE DEF Upto
    <3> QED
      BY <2>4, <2>5, <3>1, FS_Subset
  <2> HIDE DEF kept, Upto
  <2>7. BookSize <= Cardinality(kept)
    BY <2>4, <2>5, <2>6, FS_Subset
  <2> QED
    BY <1>1, <2>4, <2>7, FS_CardinalityType
<1>8. values \in SUBSET Positive
  BY <1>2, <1>3
<1>9. IsFiniteSet(values) /\ Cardinality(values) >= BookSize
  <2> DEFINE G == [k \in kept |-> s[k]]
  <2>1. G \in [kept -> values] /\ \A v \in values : \E k \in kept : G[k] = v
    OBVIOUS
  <2>2. \A j, k \in kept : G[j] = G[k] => j = k
    BY <1>4
  <2> HIDE DEF G, kept, values
  <2>3. IsFiniteSet(values) /\ Cardinality(values) = Cardinality(kept)
    BY <1>7, <2>1, <2>2, ReachedIsFinite
  <2> QED
    BY <1>7, <2>3
<1> QED
  BY <1>8, <1>9 DEF firsts

\* The codes at the beginning, each with as many values below it as codes.
LEMMA FirstCodes ==
  ASSUME NEW V \in SUBSET Positive, IsFiniteSet(V), Cardinality(V) >= BookSize,
         NEW book, book = [c \in Book |-> <<CHOOSE f \in V : Cardinality({g \in V : g < f}) = c - 1, 1>>]
  PROVE  /\ book \in [Book -> CodePairs]
         /\ \A c, d \in Book : c < d => Below(book[c], book[d])
<1> DEFINE Under(f) == {g \in V : g < f}
           Initial(c) == CHOOSE f \in V : Cardinality(Under(f)) = c - 1
<1>1. BookSize \in Nat /\ V \in SUBSET Nat /\ Cardinality(V) \in Nat
  BY BookAssumption, FS_CardinalityType DEF Positive
<1>2. ASSUME NEW c \in Book
      PROVE  Initial(c) \in V /\ Cardinality(Under(Initial(c))) = c - 1 /\ c \in Nat
  <2>1. c - 1 \in Nat /\ c - 1 < Cardinality(V) /\ c \in Nat
    BY <1>1 DEF Book
  <2>2. \E f \in V : Cardinality(Under(f)) = c - 1
    BY <1>1, <2>1, RankExists
  <2> QED
    BY <2>1, <2>2
<1>3. \A c \in Book : book[c] = <<Initial(c), 1>>
  OBVIOUS
<1> HIDE DEF Initial
<1>4. book \in [Book -> CodePairs]
  <2>1. \A c \in Book : <<Initial(c), 1>> \in CodePairs
    <3>1. \A c \in Book : Initial(c) \in Positive
      BY <1>2
    <3>2. 1 \in Positive
      BY DEF Positive
    <3> QED
      BY <3>1, <3>2 DEF CodePairs
  <2> QED
    BY <1>3, <2>1
<1>5. ASSUME NEW c \in Book, NEW d \in Book, c < d
      PROVE  Below(book[c], book[d])
  <2>1. Initial(c) \in Nat /\ Initial(d) \in Nat
    BY <1>1, <1>2
  <2>2. Initial(c) < Initial(d)
    <3> SUFFICES ASSUME Initial(d) <= Initial(c) PROVE FALSE
      BY <2>1
    <3>1. Under(Initial(d)) \subseteq Under(Initial(c))
      <4>1. \A g \in V : g < Initial(d) => g < Initial(c)
        BY <1>1, <2>1
      <4> QED
        BY <4>1
    <3>2. IsFiniteSet(Under(Initial(c)))
      BY FS_Subset
    <3> HIDE DEF Under
    <3>3. Cardinality(Under(Initial(d))) <= Cardinality(Under(Initial(c)))
      BY <3>1, <3>2, FS_Subset
    <3> QED
      BY <1>2, <1>5, <3>3
  <2>3. Below(<<Initial(c), 1>>, <<Initial(d), 1>>)
    BY <2>1, <2>2 DEF Below
  <2> QED
    BY <1>3, <2>3
<1> QED
  BY <1>4, <1>5

-----------------------------------------------------------------------------
(* Codebook: the invariant.  The indexes are those of a search in codes that  *)
(* are in order, and means of what it has found are in order again.           *)

Assigned == index = [k \in 1..Len(freqs) |-> QSearchNearest(freqs[k])]

BookInv ==
  /\ step # "new" => freqs \in FreqLists /\ codes \in [Book -> CodePairs]
  /\ step \in {"assign", "mean", "done"} => Ordered
  /\ step = "mean" => Assigned

LEMMA FreqsArePositive ==
  ASSUME BookInv, step # "new"
  PROVE  freqs \in Seq(Positive) /\ \A k \in 1..Len(freqs) : freqs[k] \in Positive
<1>1. freqs \in Seq(Positive)
  BY BookAssumption DEF BookInv, Positive
<1> QED
  BY <1>1

LEMMA RecalculateInv == BookInv /\ RecalculateKernel => BookInv'
<1> SUFFICES ASSUME BookInv, RecalculateKernel PROVE BookInv'
  OBVIOUS
<1>1. /\ step = "mean" /\ Ordered /\ Assigned /\ freqs \in FreqLists /\ codes \in [Book -> CodePairs]
      /\ freqs \in Seq(Positive) /\ \A k \in 1..Len(freqs) : freqs[k] \in Positive
  BY FreqsArePositive DEF BookInv, RecalculateKernel
<1>2. /\ \A c \in Book : Items(c) # {}
      /\ codes' = [c \in Book |-> <<SumOf(Items(c)), Cardinality(Items(c))>>]
      /\ freqs' = freqs /\ step' \in {"done", "assign"}
  BY DEF RecalculateKernel
<1>3. \A c \in Book : Items(c) \in SUBSET (1..Len(freqs))
  BY DEF Items
<1>4. ASSUME NEW c \in Book PROVE <<SumOf(Items(c)), Cardinality(Items(c))>> \in CodePairs
  <2> DEFINE m == Cardinality(Items(c))  a == SumOf(Items(c))
  <2>1. \A k \in Items(c) : 1 <= freqs[k]
    BY <1>1, <1>3 DEF Positive
  <2>2. IsFiniteSet(Items(c)) /\ m \in Nat /\ a \in Nat /\ 1 * m <= a
    BY <1>1, <1>3, <2>1, SumBounds
  <2>3. m # 0
    BY <1>2, <2>2, FS_EmptySet
  <2> HIDE DEF m, a
  <2>4. m \in Positive /\ a \in Positive
    BY <2>2, <2>3 DEF Positive
  <2> QED
    BY <2>4 DEF CodePairs, m, a
<1>5. ASSUME NEW c \in Book, NEW d \in Book, c < d, NEW j \in Items(c), NEW k \in Items(d)
      PROVE  freqs[j] < freqs[k]
  <2>1. j \in 1..Len(freqs) /\ k \in 1..Len(freqs) /\ index[j] = c /\ index[k] = d
    BY DEF Items
  <2>2. freqs[j] \in Positive /\ freqs[k] \in Positive
    BY <1>1, <2>1
  <2>3. QSearchNearest(freqs[j]) = c /\ QSearchNearest(freqs[k]) = d
    BY <1>1, <2>1 DEF Assigned
  <2>4. Nearest(freqs[j], c) /\ Nearest(freqs[k], d)
    BY <1>1, <2>2, <2>3, SearchFindsNearest
  <2>5. AsNear(freqs[j], codes[c], codes[d]) /\ AsNear(freqs[k], codes[d], codes[c]) /\ Below(codes[c], codes[d])
    BY <1>1, <1>5, <2>4 DEF Nearest, Ordered
  <2>6. freqs[j] # freqs[k]
    <3>1. c # d
      BY <1>5 DEF Book
    <3> QED
      BY <2>3, <3>1
  <2>7. ~(freqs[k] < freqs[j])
    BY <1>1, <2>2, <2>5, NearestGrows
  <2> QED
    BY <2>2, <2>6, <2>7 DEF Positive
<1>6. ASSUME NEW c \in Book, NEW d \in Book, c < d PROVE Below(codes'[c], codes'[d])
  <2>1. Below(<<SumOf(Items(c)), Cardinality(Items(c))>>, <<SumOf(Items(d)), Cardinality(Items(d))>>)
    BY <1>1, <1>2, <1>3, <1>5, <1>6, MeansAreOrdered
  <2> QED
    BY <1>2, <2>1
<1>7. codes' \in [Book -> CodePairs]
  BY <1>2, <1>4
<1>8. Ordered'
  BY <1>6 DEF Ordered, Below
<1> QED
  BY <1>1, <1>2, <1>7, <1>8 DEF BookInv

LEMMA BuildUnigramInv == BookInv /\ BuildUnigram => BookInv'
<1> SUFFICES ASSUME BookInv, BuildUnigram PROVE BookInv'
  OBVIOUS
<1> DEFINE firsts == {k \in 1..Len(freqs') : \A j \in 1..k - 1 : freqs'[j] # freqs'[k]}
           values == {freqs'[k] : k \in {k \in firsts : Cardinality({j \in firsts : j <= k}) <= BookSize}}
<1>1. /\ freqs' \in FreqLists /\ step' = "assign"
      /\ codes' = [c \in Book |-> <<CHOOSE f \in values : Cardinality({g \in values : g < f}) = c - 1, 1>>]
  BY DEF BuildUnigram
<1>2. values \in SUBSET Positive /\ IsFiniteSet(values) /\ Cardinality(values) >= BookSize
  BY <1>1, EnoughFirsts
<1> HIDE DEF values
<1>3. PICK book : book = codes'
  OBVIOUS
<1>4. book \in [Book -> CodePairs] /\ \A c, d \in Book : c < d => Below(book[c], book[d])
  BY <1>1, <1>2, <1>3, FirstCodes
<1>5. codes' \in [Book -> CodePairs] /\ Ordered'
  BY <1>3, <1>4 DEF Ordered, Below
<1> QED
  BY <1>1, <1>5 DEF BookInv

LEMMA BookStepInv == BookInv /\ [CodebookNext]_cbVars => BookInv'
<1> SUFFICES ASSUME BookInv, [CodebookNext]_cbVars PROVE BookInv'
  OBVIOUS
<1>1. CASE UpdateCodeIdx
  <2>1. step = "assign" /\ step' = "mean" /\ freqs' = freqs /\ codes' = codes
    BY <1>1 DEF UpdateCodeIdx
  <2>2. freqs \in FreqLists /\ codes \in [Book -> CodePairs] /\ Ordered
    BY <2>1 DEF BookInv
  <2>3. Ordered'
    BY <2>1, <2>2 DEF Ordered, Below
  <2>4. Assigned'
    <3>1. \A f : QSearchNearest(f)' = QSearchNearest(f)
      BY <2>1 DEF QSearchNearest, NearestIn, AsNear, Below
    <3> QED
      BY <1>1, <2>1, <3>1 DEF Assigned, UpdateCodeIdx
  <2> QED
    BY <2>1, <2>2, <2>3, <2>4 DEF BookInv
<1>2. CASE RecalculateKernel
  BY <1>2, RecalculateInv
<1>3. CASE AssertionFails
  BY <1>3 DEF AssertionFails, BookInv
<1>4. CASE BuildUnigram
  BY <1>4, BuildUnigramInv
<1>5. CASE UNCHANGED cbVars
  <2>1. freqs' = freqs /\ codes' = codes /\ index' = index /\ step' = step
    BY <1>5 DEF cbVars
  <2>2. Ordered' <=> Ordered
    BY <2>1 DEF Ordered, Below
  <2>3. Assigned' <=> Assigned
    <3>1. \A f : QSearchNearest(f)' = QSearchNearest(f)
      BY <2>1 DEF QSearchNearest, NearestIn, AsNear, Below
    <3> QED
      BY <2>1, <3>1 DEF Assigned
  <2> QED
    BY <2>1, <2>2, <2>3 DEF BookInv
<1> QED
  BY <1>1, <1>2, <1>3, <1>4, <1>5 DEF CodebookNext, Iterate

\* For any frequencies and any number of codes: in every iteration the codes are in
\* order, so that a search that looks at two of them finds the nearest of all
\* (ngram.cpp:42), although each code was replaced by the mean of its frequencies.
THEOREM CodesCorrect == CodebookSpec => []CodesAreNearest
<1>1. CodebookInit => BookInv
  BY DEF CodebookInit, BookInv
<1>2. BookInv => CodesAreNearest
  <2> SUFFICES ASSUME BookInv PROVE CodesAreNearest
    OBVIOUS
  <2>1. ASSUME step = "mean", NEW k \in 1..Len(freqs), NEW c \in Book
        PROVE  AsNear(freqs[k], codes[index[k]], codes[c])
    <3>1. freqs[k] \in Positive
      BY <2>1, FreqsArePositive
    <3>2. Nearest(freqs[k], QSearchNearest(freqs[k]))
      BY <2>1, <3>1, SearchFindsNearest DEF BookInv
    <3>3. index[k] = QSearchNearest(freqs[k])
      BY <2>1 DEF BookInv, Assigned
    <3> QED
      BY <3>2, <3>3 DEF Nearest
  <2> QED
    BY <2>1 DEF CodesAreNearest, BookInv, Ordered
<1> QED
  BY <1>1, <1>2, BookStepInv, PTL DEF CodebookSpec
=============================================================================
