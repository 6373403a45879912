---------------------------- MODULE UserDictProofs ----------------------------
(* Proofs about the user dictionary: its tables agree, the searches over them  *)
(* and over what the caches remember find every lemma, and it implements       *)
(* LemmaStore, although the file is written back by parts.                     *)
EXTENDS UserDict, NumberProofs, SequenceTheorems, TLAPS

LOCAL INSTANCE SequencesExt
LOCAL INSTANCE FiniteSetsExt

-----------------------------------------------------------------------------
(* The order of the table: by length, then by the first letters.              *)

Initials(spl) == [k \in 1..Len(spl) |-> InitialOf[spl[k]]]
Spellings == Seq(SplIds)
Sigs == Seq(Int)

Lower(s, t) ==
  \/ Len(s) < Len(t)
  \/ Len(s) = Len(t) /\ \E k \in 1..Len(s) : s[k] < t[k] /\ \A j \in 1..k - 1 : s[j] = t[j]

LEMMA InitialsAre ==
  ASSUME NEW spl \in Spellings
  PROVE  /\ Initials(spl) \in Sigs /\ Len(Initials(spl)) = Len(spl)
         /\ \A k \in 1..Len(spl) : Initials(spl)[k] = InitialOf[spl[k]] /\ InitialOf[spl[k]] \in Int
<1>1. \A k \in 1..Len(spl) : spl[k] \in SplIds
  BY DEF Spellings
<1>2. \A k \in 1..Len(spl) : InitialOf[spl[k]] \in Int
  BY <1>1, UserDictAssumption
<1>3. Initials(spl) \in [1..Len(spl) -> Int] /\ Len(spl) \in Nat
  BY <1>2 DEF Initials, Spellings
<1> QED
  BY <1>2, <1>3 DEF Initials, Sigs

LEMMA LowerIsStrict == ASSUME NEW s \in Sigs PROVE ~Lower(s, s)
<1>1. \A k \in 1..Len(s) : s[k] \in Int
  BY DEF Sigs
<1> QED
  BY <1>1 DEF Lower, Sigs

LEMMA LowerIsTotal ==
  ASSUME NEW s \in Sigs, NEW t \in Sigs
  PROVE  s = t \/ Lower(s, t) \/ Lower(t, s)
<1> DEFINE D == {k \in 1..Len(s) : s[k] # t[k]}
<1>0. Len(s) \in Nat /\ Len(t) \in Nat
  BY DEF Sigs
<1>1. /\ Len(s) \in Nat /\ Len(t) \in Nat
      /\ s \in [1..Len(s) -> Int] /\ t \in [1..Len(t) -> Int]
  BY DEF Sigs
<1>2. CASE Len(s) # Len(t)
  <2>1. Len(s) < Len(t) \/ Len(t) < Len(s)
    BY <1>0, <1>2
  <2> QED
    BY <2>1 DEF Lower
<1>3. CASE Len(s) = Len(t) /\ D = {}
  <2>1. \A k \in 1..Len(s) : s[k] = t[k]
    BY <1>3
  <2>2. s = t
    BY <1>1, <1>3, <2>1
  <2> QED
    BY <2>2
<1>4. CASE Len(s) = Len(t) /\ D # {}
  <2>1. D \in SUBSET Nat
    BY <1>1
  <2>2. PICK k \in D : \A j \in D : k <= j
    <3> HIDE DEF D
    <3> QED
      BY <1>4, <2>1, LeastExists
  <2>3. k \in 1..Len(s) /\ s[k] # t[k] /\ s[k] \in Int /\ t[k] \in Int
    BY <1>1, <1>4
  <2>4. \A j \in 1..k - 1 : j \in 1..Len(s) /\ ~(k <= j)
    BY <1>1, <2>3
  <2>5. \A j \in 1..k - 1 : s[j] = t[j]
    BY <2>2, <2>4
  <2>6. \A j \in 1..k - 1 : t[j] = s[j]
    BY <2>5
  <2>7. CASE s[k] < t[k]
    BY <1>4, <2>3, <2>5, <2>7 DEF Lower
  <2>8. CASE t[k] < s[k]
    BY <1>4, <2>3, <2>6, <2>8 DEF Lower
  <2> QED
    BY <2>3, <2>7, <2>8
<1> QED
  BY <1>2, <1>3, <1>4

LEMMA LowerIsTransitive ==
  ASSUME NEW s \in Sigs, NEW t \in Sigs, NEW u \in Sigs, Lower(s, t), Lower(t, u)
  PROVE  Lower(s, u)
<1>0. Len(s) \in Nat /\ Len(t) \in Nat /\ Len(u) \in Nat
  BY DEF Sigs
<1>1. /\ Len(s) \in Nat /\ Len(t) \in Nat /\ Len(u) \in Nat
      /\ s \in [1..Len(s) -> Int] /\ t \in [1..Len(t) -> Int] /\ u \in [1..Len(u) -> Int]
  BY DEF Sigs
<1>2. Len(s) <= Len(t) /\ Len(t) <= Len(u)
  <2>1. Len(s) < Len(t) \/ Len(s) = Len(t)
    BY Zenon DEF Lower
  <2>2. Len(t) < Len(u) \/ Len(t) = Len(u)
    BY Zenon DEF Lower
  <2> QED
    BY <1>0, <2>1, <2>2
<1>3. CASE Len(s) < Len(u)
  BY <1>3 DEF Lower
<1>4. CASE ~(Len(s) < Len(u))
  <2>1. Len(s) = Len(t) /\ Len(t) = Len(u)
    BY <1>0, <1>2, <1>4
  <2>0. ~(Len(s) < Len(t)) /\ ~(Len(t) < Len(u))
    BY <1>0, <2>1
  <2>2. PICK k \in 1..Len(s) : s[k] < t[k] /\ \A j \in 1..k - 1 : s[j] = t[j]
    BY <2>0, Zenon DEF Lower
  <2>3. PICK m \in 1..Len(s) : t[m] < u[m] /\ \A j \in 1..m - 1 : t[j] = u[j]
    <3>1. \E m \in 1..Len(t) : t[m] < u[m] /\ \A j \in 1..m - 1 : t[j] = u[j]
      BY <2>0, Zenon DEF Lower
    <3> QED
      BY <2>1, <3>1
  <2>4. /\ s[k] \in Int /\ t[k] \in Int /\ u[k] \in Int
        /\ s[m] \in Int /\ t[m] \in Int /\ u[m] \in Int /\ k \in Int /\ m \in Int
    BY <1>1, <2>1
  <2>5. CASE k < m
    <3>1. k \in 1..m - 1 /\ \A j \in 1..k - 1 : j \in 1..m - 1
      BY <2>4, <2>5
    <3>2. s[k] < u[k] /\ \A j \in 1..k - 1 : s[j] = u[j]
      BY <2>2, <2>3, <3>1
    <3> QED
      BY <2>1, <3>2 DEF Lower
  <2>6. CASE m < k
    <3>1. m \in 1..k - 1 /\ \A j \in 1..m - 1 : j \in 1..k - 1
      BY <2>4, <2>6
    <3>2. s[m] < u[m] /\ \A j \in 1..m - 1 : s[j] = u[j]
      BY <2>2, <2>3, <3>1
    <3> QED
      BY <2>1, <3>2 DEF Lower
  <2>7. CASE k = m
    <3>1. s[k] < u[k] /\ \A j \in 1..k - 1 : s[j] = u[j]
      BY <2>2, <2>3, <2>4, <2>7
    <3> QED
      BY <2>1, <3>1 DEF Lower
  <2> QED
    BY <2>4, <2>5, <2>6, <2>7
<1> QED
  BY <1>3, <1>4

LEMMA MinIs ==
  ASSUME NEW S \in SUBSET Nat, S # {}
  PROVE  Min(S) \in S /\ \A y \in S : Min(S) <= y
  BY LeastExists DEF Min

LEMMA MaxIs ==
  ASSUME NEW S \in SUBSET Nat, S # {}, NEW n \in Nat, \A x \in S : x <= n
  PROVE  Max(S) \in S /\ \A y \in S : Max(S) >= y
<1>1. PICK x \in S : \A y \in S : y <= x
  BY GreatestExists
<1>2. \A y \in S : x >= y
  BY <1>1
<1> QED
  BY <1>2 DEF Max

\* The comparison of a lemma with a signature follows this order.
LEMMA CompareIs ==
  ASSUME NEW spl \in Spellings, NEW sig \in Sigs
  PROVE  /\ FuzzyCompare(spl, sig) \in Int
         /\ FuzzyCompare(spl, sig) = 0 <=> Initials(spl) = sig
         /\ FuzzyCompare(spl, sig) < 0 <=> Lower(Initials(spl), sig)
<1> DEFINE in == Initials(spl)
           differ == {k \in 1..Len(sig) : InitialOf[spl[k]] # sig[k]}
           c == FuzzyCompare(spl, sig)
<1>1. /\ Len(spl) \in Nat /\ Len(sig) \in Nat /\ in \in Sigs /\ Len(in) = Len(spl)
      /\ \A k \in 1..Len(spl) : in[k] = InitialOf[spl[k]] /\ in[k] \in Int
      /\ \A k \in 1..Len(sig) : sig[k] \in Int
  BY InitialsAre DEF Spellings, Sigs
<1>2. c = IF Len(spl) # Len(sig) THEN Len(spl) - Len(sig)
          ELSE IF differ = {} THEN 0
          ELSE InitialOf[spl[Min(differ)]] - sig[Min(differ)]
  BY DEF FuzzyCompare
<1>3. in = sig => Len(spl) = Len(sig) /\ differ = {}
  BY <1>1
<1>4. CASE Len(spl) # Len(sig)
  <2>1. c = Len(spl) - Len(sig)
    BY <1>2, <1>4
  <2>2. c \in Int /\ c # 0 /\ (c < 0 <=> Len(spl) < Len(sig))
    BY <1>1, <1>4, <2>1
  <2>3. Lower(in, sig) <=> Len(spl) < Len(sig)
    BY <1>1, <1>4 DEF Lower
  <2> QED
    BY <1>3, <1>4, <2>2, <2>3
<1>5. CASE Len(spl) = Len(sig) /\ differ = {}
  <2>1. in = sig
    <3>1. \A k \in 1..Len(sig) : in[k] = sig[k]
      BY <1>1, <1>5
    <3> QED
      BY <1>1, <1>5, <3>1 DEF Sigs
  <2>2. c = 0
    BY <1>2, <1>5
  <2> HIDE DEF c
  <2> QED
    BY <1>1, <2>1, <2>2, LowerIsStrict DEF c
<1>6. CASE Len(spl) = Len(sig) /\ differ # {}
  <2> DEFINE k == Min(differ)
  <2>1. differ \in SUBSET Nat
    BY <1>1
  <2>2. k \in differ /\ \A j \in differ : k <= j
    <3> HIDE DEF differ
    <3> QED
      BY <1>6, <2>1, MinIs
  <2>3. k \in 1..Len(sig) /\ in[k] # sig[k] /\ in[k] \in Int /\ sig[k] \in Int
    BY <1>1, <1>6, <2>2
  <2>4. c = in[k] - sig[k]
    BY <1>1, <1>2, <1>6, <2>3
  <2> HIDE DEF k, c
  <2>5. \A j \in 1..k - 1 : j \in 1..Len(sig) /\ ~(k <= j)
    BY <1>1, <2>3
  <2>6. \A j \in 1..k - 1 : in[j] = sig[j]
    BY <1>1, <1>6, <2>2, <2>5
  <2>7. in[k] < sig[k] => Lower(in, sig)
    BY <1>1, <1>6, <2>3, <2>6 DEF Lower
  <2>8. sig[k] < in[k] => Lower(sig, in)
    BY <1>1, <1>6, <2>3, <2>6 DEF Lower
  <2>9. ~(Lower(sig, in) /\ Lower(in, sig))
    BY <1>1, LowerIsStrict, LowerIsTransitive
  <2>10. c \in Int /\ c # 0 /\ (c < 0 <=> in[k] < sig[k])
    BY <2>3, <2>4
  <2>11. c < 0 <=> Lower(in, sig)
    BY <2>3, <2>7, <2>8, <2>9, <2>10
  <2> QED
    BY <1>3, <1>6, <2>10, <2>11 DEF c
<1> QED
  BY <1>4, <1>5, <1>6

LEMMA CompareIsPositive ==
  ASSUME NEW spl \in Spellings, NEW sig \in Sigs
  PROVE  FuzzyCompare(spl, sig) > 0 <=> Lower(sig, Initials(spl))
<1>1. Initials(spl) \in Sigs
  BY InitialsAre
<1>2. ~(Lower(sig, Initials(spl)) /\ Lower(Initials(spl), sig))
  BY <1>1, LowerIsStrict, LowerIsTransitive
<1>3. Lower(sig, Initials(spl)) \/ Lower(Initials(spl), sig) \/ Initials(spl) = sig
  BY <1>1, LowerIsTotal
<1>4. ~Lower(sig, sig)
  BY LowerIsStrict
<1> QED
  BY <1>2, <1>3, <1>4, CompareIs

\* What has the first letters of the signature or more is not below it.
LEMMA PrefixIs ==
  ASSUME NEW spl \in Spellings, NEW sig \in Sigs
  PROVE  /\ Initials(spl) = sig => FuzzyPrefix(spl, sig)
         /\ FuzzyPrefix(spl, sig) => ~Lower(Initials(spl), sig)
<1>1. /\ Len(spl) \in Nat /\ Len(sig) \in Nat /\ Initials(spl) \in Sigs /\ Len(Initials(spl)) = Len(spl)
      /\ \A k \in 1..Len(spl) : Initials(spl)[k] = InitialOf[spl[k]]
      /\ \A k \in 1..Len(sig) : sig[k] \in Int
  BY InitialsAre DEF Spellings, Sigs
<1>2. Initials(spl) = sig => FuzzyPrefix(spl, sig)
  BY <1>1 DEF FuzzyPrefix
<1>3. ASSUME FuzzyPrefix(spl, sig), Lower(Initials(spl), sig) PROVE FALSE
  <2>1. Len(spl) = Len(sig)
    BY <1>1, <1>3 DEF FuzzyPrefix, Lower
  <2>2. PICK k \in 1..Len(spl) : Initials(spl)[k] < sig[k]
    BY <1>1, <1>3, <2>1 DEF Lower
  <2>3. Initials(spl)[k] = sig[k] /\ sig[k] \in Int
    BY <1>1, <1>3, <2>1 DEF FuzzyPrefix
  <2> QED
    BY <2>2, <2>3
<1> QED
  BY <1>2, <1>3

-----------------------------------------------------------------------------
(* The binary search.                                                         *)

LEMMA SpansAre ==
  ASSUME NEW n \in Nat, NEW r \in Spans(n)
  PROVE  r[1] \in 1..n + 1 /\ r[2] \in 0..n /\ r[1] <= r[2] + 1
  BY DEF Spans

LEMMA PartsAre ==
  ASSUME NEW n \in Nat, NEW r \in Spans(n), r[1] <= r[2]
  PROVE  LET m == (r[1] + r[2]) \div 2
         IN  /\ r[1] <= m /\ m <= r[2] /\ m \in 1..n
             /\ <<m + 1, r[2]>> \in Spans(n) /\ <<r[1], m - 1>> \in Spans(n)
<1> DEFINE m == (r[1] + r[2]) \div 2
<1>1. r[1] \in 1..n + 1 /\ r[2] \in 0..n
  BY SpansAre
<1>2. m \in Int /\ r[1] <= m /\ m <= r[2]
  BY <1>1
<1> HIDE DEF m
<1>3. m \in 1..n /\ m + 1 \in 1..n + 1 /\ m - 1 \in 0..n
  BY <1>1, <1>2
<1>4. <<m + 1, r[2]>> \in Spans(n) /\ <<r[1], m - 1>> \in Spans(n)
  <2>1. m + 1 <= r[2] + 1 /\ r[1] <= m - 1 + 1
    BY <1>1, <1>2
  <2>2. <<m + 1, r[2]>> \in (1..n + 1) \X (0..n) /\ <<r[1], m - 1>> \in (1..n + 1) \X (0..n)
    BY <1>1, <1>3
  <2> QED
    BY <2>1, <2>2 DEF Spans
<1> QED
  BY <1>2, <1>3, <1>4 DEF m

\* The search exists: each look leaves a shorter range.
IsSearch(n, low, hits, s) == s = [r \in Spans(n) |-> SearchIn(low, hits, r, s)]

LEMMA SearchExists ==
  ASSUME NEW n \in Nat, NEW low, NEW hits
  PROVE  \E s : IsSearch(n, low, hits, s)
<1> DEFINE R == Spans(n)
           F(r, s) == SearchIn(low, hits, r, s)
           Good(s, m) == \A r \in R : r[2] - r[1] + 1 < m => s[r] = F(r, s)
           A == {m \in Nat : \E s : s = [r \in R |-> s[r]] /\ Good(s, m)}
<1>0. \A r \in R : r[2] - r[1] \in Int /\ r[1] \in Nat /\ r[2] \in Nat /\ r[2] - r[1] + 1 <= n
  BY SpansAre
<1>1. ASSUME NEW g, NEW h, NEW r \in R,
             \A q \in R : q[2] - q[1] + 1 < r[2] - r[1] + 1 => g[q] = h[q]
      PROVE  F(r, g) = F(r, h)
  <2> DEFINE m == (r[1] + r[2]) \div 2
  <2>1. CASE r[1] > r[2]
    BY <2>1 DEF SearchIn
  <2>2. CASE ~(r[1] > r[2])
    <3>1. r[1] <= r[2]
      BY <1>0, <2>2
    <3>2. /\ r[1] <= m /\ m <= r[2] /\ m \in Nat
          /\ <<m + 1, r[2]>> \in R /\ <<r[1], m - 1>> \in R
      BY <3>1, PartsAre
    <3> HIDE DEF m
    <3>3. r[2] - (m + 1) + 1 < r[2] - r[1] + 1 /\ m - 1 - r[1] + 1 < r[2] - r[1] + 1
      BY <1>0, <3>2
    <3>4. g[<<m + 1, r[2]>>] = h[<<m + 1, r[2]>>] /\ g[<<r[1], m - 1>>] = h[<<r[1], m - 1>>]
      BY <1>1, <3>2, <3>3
    <3> QED
      BY <2>2, <3>4 DEF SearchIn, m
  <2> QED
    BY <2>1, <2>2
<1> HIDE DEF R, F
<1>2. 0 \in A
  <2> DEFINE s == [r \in R |-> 0]
  <2>1. s = [r \in R |-> s[r]]
    OBVIOUS
  <2>2. Good(s, 0)
    <3>1. \A r \in R : ~(r[2] - r[1] + 1 < 0)
      BY SpansAre DEF R
    <3> QED
      BY <3>1
  <2> HIDE DEF s
  <2> QED
    BY <2>1, <2>2
<1>3. ASSUME NEW m \in A PROVE m + 1 \in A
  <2>1. PICK h : h = [r \in R |-> h[r]] /\ Good(h, m)
    OBVIOUS
  <2> DEFINE g == [r \in R |-> IF r[2] - r[1] + 1 < m THEN h[r] ELSE F(r, h)]
  <2>2. ASSUME NEW r \in R, r[2] - r[1] + 1 < m + 1 PROVE g[r] = F(r, g)
    <3>0. m \in Nat
      OBVIOUS
    <3>1. \A q \in R : q[2] - q[1] + 1 < r[2] - r[1] + 1 => q[2] - q[1] + 1 < m
      BY <1>0, <2>2, <3>0
    <3>2. \A q \in R : q[2] - q[1] + 1 < r[2] - r[1] + 1 => h[q] = g[q]
      BY <3>1
    <3>3. F(r, h) = F(r, g)
      BY <1>1, <3>2
    <3>4. g[r] = F(r, h)
      BY <2>1
    <3> QED
      BY <3>3, <3>4
  <2>3. g = [r \in R |-> g[r]] /\ m + 1 \in Nat
    OBVIOUS
  <2> HIDE DEF g
  <2> QED
    BY <2>2, <2>3
<1>4. A = Nat
  <2> HIDE DEF A
  <2>1. A \in SUBSET Nat
    BY DEF A
  <2> QED
    BY <1>2, <1>3, <2>1, Induction
<1>5. PICK s : s = [r \in R |-> s[r]] /\ Good(s, n + 1)
  BY <1>4
<1>6. \A r \in R : r[2] - r[1] + 1 < n + 1
  BY <1>0
<1>7. \A r \in R : s[r] = F(r, s)
  BY <1>5, <1>6
<1>8. s = [r \in R |-> F(r, s)]
  BY <1>5, <1>7
<1> QED
  BY <1>8 DEF R, F, IsSearch

LEMMA SearchIs ==
  ASSUME NEW n \in Nat, NEW low, NEW hits
  PROVE  \E s : IsSearch(n, low, hits, s) /\ BinarySearch(n, low, hits) = s[<<1, n>>]
<1>1. \E s : IsSearch(n, low, hits, s)
  BY SearchExists
<1> QED
  BY <1>1, Zenon DEF BinarySearch, IsSearch

\* It finds a hit or nothing, and if what is wanted is together behind the low
\* places, the first of it or a place before.
LEMMA SearchFinds ==
  ASSUME NEW n \in Nat, NEW low, NEW hits, NEW wanted,
         wanted \subseteq hits,
         \A i \in wanted : \A m \in 1..n : (m \in low => m < i) /\ (m < i /\ m \notin low => m \in wanted)
  PROVE  /\ BinarySearch(n, low, hits) \in 0..n
         /\ BinarySearch(n, low, hits) # 0 => BinarySearch(n, low, hits) \in hits
         /\ \A i \in wanted \cap 1..n : BinarySearch(n, low, hits) # 0 /\ BinarySearch(n, low, hits) <= i
<1>s. PICK s : IsSearch(n, low, hits, s) /\ BinarySearch(n, low, hits) = s[<<1, n>>]
  BY SearchIs
<1>1. s = [r \in Spans(n) |-> SearchIn(low, hits, r, s)] /\ BinarySearch(n, low, hits) = s[<<1, n>>]
  BY <1>s DEF IsSearch
<1> DEFINE Found(r) == /\ s[r] \in 0..n /\ (s[r] # 0 => s[r] \in hits /\ r[1] <= s[r] /\ s[r] <= r[2])
                       /\ \A i \in wanted \cap r[1]..r[2] : s[r] # 0 /\ s[r] <= i
           A == {m \in Nat : \A r \in Spans(n) : r[2] - r[1] + 1 < m => Found(r)}
<1>0. \A r \in Spans(n) : r[1] \in 1..n + 1 /\ r[2] \in 0..n /\ r[1] <= r[2] + 1
  BY SpansAre
<1>2. ASSUME NEW r \in Spans(n),
             \A q \in Spans(n) : q[2] - q[1] + 1 < r[2] - r[1] + 1 => Found(q)
      PROVE  Found(r)
  <2> DEFINE m == (r[1] + r[2]) \div 2
  <2>0. r[1] \in Nat /\ r[2] \in Nat
    BY <1>0
  <2>1. s[r] = SearchIn(low, hits, r, s)
    BY <1>1
  <2>2. CASE r[1] > r[2]
    <3>1. s[r] = 0
      BY <2>1, <2>2 DEF SearchIn
    <3>2. r[1]..r[2] = {}
      BY <2>0, <2>2
    <3> QED
      BY <3>1, <3>2
  <2>3. CASE ~(r[1] > r[2])
    <3>1. /\ r[1] <= m /\ m <= r[2] /\ m \in 1..n
          /\ <<m + 1, r[2]>> \in Spans(n) /\ <<r[1], m - 1>> \in Spans(n)
      BY <2>0, <2>3, PartsAre
    <3> DEFINE up == <<m + 1, r[2]>>
               down == <<r[1], m - 1>>
               rest == IF m \in low THEN s[up] ELSE s[down]
    <3>2. s[r] = IF rest = 0 /\ m \in hits THEN m ELSE rest
      BY <2>1, <2>3 DEF SearchIn
    <3> HIDE DEF m
    <3>3. up[2] - up[1] + 1 < r[2] - r[1] + 1 /\ down[2] - down[1] + 1 < r[2] - r[1] + 1
      BY <2>0, <3>1
    <3>4. Found(up) /\ Found(down)
      <4> HIDE DEF Found
      <4> QED
        BY <1>2, <3>1, <3>3
    <3>5. CASE m \in low
      <4>1. rest = s[up]
        BY <3>5
      <4>2. rest \in 0..n /\ (rest # 0 => rest \in hits /\ m + 1 <= rest /\ rest <= r[2])
        BY <3>4, <4>1
      <4>3. \A i \in wanted \cap r[1]..r[2] : i \in wanted \cap m + 1..r[2]
        BY <2>0, <3>1, <3>5
      <4>4. \A i \in wanted \cap r[1]..r[2] : rest # 0 /\ rest <= i
        BY <3>4, <4>1, <4>3
      <4> HIDE DEF rest
      <4>5. s[r] \in 0..n /\ (s[r] # 0 => s[r] \in hits /\ r[1] <= s[r] /\ s[r] <= r[2])
        BY <2>0, <3>1, <3>2, <4>2
      <4>6. \A i \in wanted \cap r[1]..r[2] : s[r] # 0 /\ s[r] <= i
        BY <3>2, <4>4
      <4> QED
        BY <4>5, <4>6
    <3>6. CASE m \notin low
      <4>1. rest = s[down]
        BY <3>6
      <4>2. rest \in 0..n /\ (rest # 0 => rest \in hits /\ r[1] <= rest /\ rest <= m - 1)
        BY <3>4, <4>1
      <4>3. \A i \in wanted \cap r[1]..m - 1 : rest # 0 /\ rest <= i
        BY <3>4, <4>1
      <4> HIDE DEF rest
      <4>4. s[r] \in 0..n /\ (s[r] # 0 => s[r] \in hits /\ r[1] <= s[r] /\ s[r] <= r[2])
        BY <2>0, <3>1, <3>2, <4>2
      <4>5. ASSUME NEW i \in wanted \cap r[1]..r[2] PROVE s[r] # 0 /\ s[r] <= i
        <5>1. i \in Nat /\ r[1] <= i /\ i <= r[2] /\ m \in Nat
          BY <2>0, <3>1
        <5>2. CASE i < m
          <6>1. i \in wanted \cap r[1]..m - 1
            BY <2>0, <5>1, <5>2
          <6> QED
            BY <3>2, <4>3, <6>1
        <5>3. CASE ~(i < m)
          <6>1. m = i \/ m < i
            BY <5>1, <5>3
          <6>2. m \in hits
            BY <3>1, <3>6, <6>1
          <6>3. s[r] # 0 /\ s[r] <= m
            BY <3>1, <3>2, <4>2, <5>1, <6>2
          <6>4. s[r] \in Nat
            BY <4>4
          <6> QED
            BY <5>1, <6>1, <6>3, <6>4
        <5> QED
          BY <5>2, <5>3
      <4> QED
        BY <4>4, <4>5
    <3> QED
      BY <3>5, <3>6
  <2> QED
    BY <2>2, <2>3
<1> HIDE DEF Found
<1>3. 0 \in A
  <2>1. \A r \in Spans(n) : ~(r[2] - r[1] + 1 < 0)
    BY <1>0
  <2> QED
    BY <2>1
<1>4. ASSUME NEW m \in A PROVE m + 1 \in A
  <2>1. m \in Nat /\ \A r \in Spans(n) : r[2] - r[1] + 1 < m => Found(r)
    OBVIOUS
  <2>2. ASSUME NEW r \in Spans(n), r[2] - r[1] + 1 < m + 1 PROVE Found(r)
    <3>1. \A q \in Spans(n) : q[1] \in Nat /\ q[2] \in Nat
      BY <1>0
    <3>2. \A q \in Spans(n) : q[2] - q[1] + 1 < r[2] - r[1] + 1 => q[2] - q[1] + 1 < m
      BY <2>1, <2>2, <3>1
    <3>3. \A q \in Spans(n) : q[2] - q[1] + 1 < r[2] - r[1] + 1 => Found(q)
      BY <2>1, <3>2
    <3> QED
      BY <1>2, <3>3
  <2> QED
    BY <2>1, <2>2
<1>5. A = Nat
  <2> HIDE DEF A
  <2>1. A \in SUBSET Nat
    BY DEF A
  <2> QED
    BY <1>3, <1>4, <2>1, Induction
<1>6. <<1, n>> \in Spans(n) /\ n + 1 \in A /\ n - 1 + 1 < n + 1
  BY <1>5 DEF Spans
<1>7. Found(<<1, n>>)
  BY <1>6
<1> QED
  BY <1>1, <1>7 DEF Found

-----------------------------------------------------------------------------
(* Sequences.                                                                 *)

\* Which entry was at place k before one was put in at pos.
Old(pos, k) == IF k < pos THEN k ELSE k - 1

Inserted(t, s, n, pos, e) ==
  Len(t) = n + 1 /\ t[pos] = e /\ \A k \in 1..n + 1 : k # pos => t[k] = s[Old(pos, k)]

LEMMA InsertIs ==
  ASSUME NEW S, NEW s \in Seq(S), NEW pos \in 1..Len(s) + 1, NEW e \in S
  PROVE  InsertAt(s, pos, e) \in Seq(S) /\ Inserted(InsertAt(s, pos, e), s, Len(s), pos, e)
<1> DEFINE a == SubSeq(s, 1, pos - 1)
           b == SubSeq(s, pos, Len(s))
<1>1. Len(s) \in Nat
  OBVIOUS
<1>2. a \in Seq(S) /\ Len(a) = pos - 1 /\ \A k \in 1..pos - 1 : a[k] = s[k]
  BY <1>1
<1>3. b \in Seq(S) /\ Len(b) = Len(s) - pos + 1 /\ \A k \in 1..Len(s) - pos + 1 : b[k] = s[pos + k - 1]
  BY <1>1
<1>4. InsertAt(s, pos, e) = a \o <<e>> \o b
  BY DEF InsertAt
<1> HIDE DEF a, b
<1> DEFINE c == a \o <<e>>
<1>5. c \in Seq(S) /\ Len(c) = pos /\ (\A k \in 1..pos - 1 : c[k] = s[k]) /\ c[pos] = e
  BY <1>1, <1>2
<1> HIDE DEF c
<1>6. c \o b \in Seq(S) /\ Len(c \o b) = Len(s) + 1
  BY <1>1, <1>3, <1>5
<1>7. ASSUME NEW k \in 1..Len(s) + 1
      PROVE  (c \o b)[k] = IF k < pos THEN s[k] ELSE IF k = pos THEN e ELSE s[k - 1]
  <2>1. CASE k <= pos
    BY <1>1, <1>3, <1>5, <2>1
  <2>2. CASE ~(k <= pos)
    <3>1. (c \o b)[k] = b[k - pos]
      BY <1>1, <1>3, <1>5, <2>2
    <3>2. k - pos \in 1..Len(s) - pos + 1 /\ pos + (k - pos) - 1 = k - 1
      BY <1>1, <2>2
    <3>3. b[k - pos] = s[k - 1]
      BY <1>3, <3>2
    <3> QED
      BY <1>1, <2>2, <3>1, <3>3
  <2> QED
    BY <2>1, <2>2
<1>8. (c \o b)[pos] = e
  <2>1. pos \in 1..Len(s) + 1 /\ ~(pos < pos)
    BY <1>1
  <2> QED
    BY <1>7, <2>1
<1>9. ASSUME NEW k \in 1..Len(s) + 1, k # pos PROVE (c \o b)[k] = s[Old(pos, k)]
  BY <1>7, <1>9 DEF Old
<1> QED
  BY <1>4, <1>6, <1>8, <1>9 DEF c, Inserted

\* The places of a table of n that gets one more at pos.
Moved(n, pos) ==
  /\ \A k \in 1..n + 1 : k # pos => Old(pos, k) \in 1..n
  /\ \A j, k \in 1..n + 1 : j # pos /\ k # pos => (j < k <=> Old(pos, j) < Old(pos, k))
                                               /\ (Old(pos, j) = Old(pos, k) => j = k)
  /\ \A k \in 1..n + 1 : k # pos => (k < pos <=> Old(pos, k) < pos)
  /\ \A i \in 1..n : \E k \in 1..n + 1 : k # pos /\ Old(pos, k) = i

LEMMA OldIs ==
  ASSUME NEW n \in Nat, NEW pos \in 1..n + 1
  PROVE  Moved(n, pos)
<1>1. ASSUME NEW i \in 1..n PROVE \E k \in 1..n + 1 : k # pos /\ Old(pos, k) = i
  <2>1. CASE i < pos
    <3>1. i \in 1..n + 1 /\ i # pos /\ Old(pos, i) = i
      BY <2>1 DEF Old
    <3> QED
      BY <3>1
  <2>2. CASE ~(i < pos)
    <3>1. i + 1 \in 1..n + 1 /\ i + 1 # pos /\ Old(pos, i + 1) = i
      BY <2>2 DEF Old
    <3> QED
      BY <3>1
  <2> QED
    BY <2>1, <2>2
<1>2. \A k \in 1..n + 1 : k # pos => Old(pos, k) \in 1..n
  BY DEF Old
<1>3. \A j, k \in 1..n + 1 : j # pos /\ k # pos => (j < k <=> Old(pos, j) < Old(pos, k))
                                                /\ (Old(pos, j) = Old(pos, k) => j = k)
  BY DEF Old
<1>4. \A k \in 1..n + 1 : k # pos => (k < pos <=> Old(pos, k) < pos)
  BY DEF Old
<1> QED
  BY <1>1, <1>2, <1>3, <1>4 DEF Moved

HasOneMore(t, s, n, e) ==
  /\ \A k \in 1..n + 1 : t[k] = e \/ \E i \in 1..n : t[k] = s[i]
  /\ \A i \in 1..n : \E k \in 1..n + 1 : t[k] = s[i]
  /\ \E k \in 1..n + 1 : t[k] = e

LEMMA InsertedValues ==
  ASSUME NEW n \in Nat, NEW pos \in 1..n + 1, NEW t, NEW s, NEW e, Inserted(t, s, n, pos, e)
  PROVE  HasOneMore(t, s, n, e)
<1>1. Moved(n, pos)
  BY OldIs
<1>2. t[pos] = e /\ \A k \in 1..n + 1 : k # pos => Old(pos, k) \in 1..n /\ t[k] = s[Old(pos, k)]
  BY <1>1 DEF Moved, Inserted
<1>3. ASSUME NEW i \in 1..n PROVE \E k \in 1..n + 1 : t[k] = s[i]
  <2>1. PICK k \in 1..n + 1 : k # pos /\ Old(pos, k) = i
    BY <1>1 DEF Moved
  <2> QED
    BY <1>2, <2>1
<1> QED
  BY <1>2, <1>3 DEF HasOneMore

\* The members of a set of numbers in their order.
LEMMA AscendingIs ==
  ASSUME NEW S \in SUBSET Nat, IsFiniteSet(S)
  PROVE  /\ Cardinality(S) \in Nat /\ Len(Ascending(S)) = Cardinality(S)
         /\ Ascending(S) \in [1..Cardinality(S) -> S]
         /\ \A i, j \in 1..Cardinality(S) : i < j => Ascending(S)[i] < Ascending(S)[j]
         /\ \A x \in S : \E i \in 1..Cardinality(S) : Ascending(S)[i] = x
         /\ \A k \in 1..Cardinality(S) : Cardinality({y \in S : y < Ascending(S)[k]}) = k - 1
<1> DEFINE n == Cardinality(S)
           U == [x \in S |-> {y \in S : y < x}]
           rank(x) == Cardinality({y \in S : y < x})
           s == Ascending(S)
<1>1. n \in Nat
  BY FS_CardinalityType
<1>2. /\ \A x \in S : Cardinality(U[x]) \in 0..n - 1
      /\ \A x \in S : \A y \in U[x] : Cardinality(U[y]) < Cardinality(U[x])
      /\ \A m \in 0..n - 1 : \E x \in S : Cardinality(U[x]) = m
  <2>1. U \in [S -> SUBSET S]
    OBVIOUS
  <2>2. \A x \in S : x \notin U[x]
    OBVIOUS
  <2>3. \A x \in S : \A y \in U[x] : U[y] \subseteq U[x]
    <3>1. \A x, y, z \in S : z < y /\ y < x => z < x
      OBVIOUS
    <3> QED
      BY <3>1
  <2>4. \A x, y \in S : x = y \/ x \in U[y] \/ y \in U[x]
    OBVIOUS
  <2> HIDE DEF U
  <2> QED
    BY <2>1, <2>2, <2>3, <2>4, RanksAreTaken
<1>3. \A x \in S : rank(x) \in 0..n - 1
  BY <1>2
<1>4. \A x, y \in S : y < x => rank(y) < rank(x)
  BY <1>2
<1>5. \A m \in 0..n - 1 : \E x \in S : rank(x) = m
  BY <1>2
<1>6. s = [k \in 1..n |-> CHOOSE x \in S : rank(x) = k - 1]
  BY DEF Ascending
<1> HIDE DEF U, n, s, rank
<1>7. ASSUME NEW k \in 1..n PROVE s[k] \in S /\ rank(s[k]) = k - 1
  <2>1. k - 1 \in 0..n - 1
    BY <1>1
  <2>2. \E x \in S : rank(x) = k - 1
    BY <1>5, <2>1
  <2>3. s[k] = CHOOSE x \in S : rank(x) = k - 1
    BY <1>6
  <2> QED
    BY <2>2, <2>3
<1>8. s \in [1..n -> S] /\ Len(s) = n
  <2>1. s \in [1..n -> S]
    BY <1>6, <1>7
  <2> QED
    BY <1>1, <2>1
<1>9. ASSUME NEW i \in 1..n, NEW j \in 1..n, i < j PROVE s[i] < s[j]
  <2>1. rank(s[i]) < rank(s[j]) /\ ~(rank(s[j]) < rank(s[i])) /\ s[i] # s[j]
    BY <1>1, <1>7, <1>9
  <2>2. s[i] \in S /\ s[j] \in S /\ s[i] \in Nat /\ s[j] \in Nat
    BY <1>7
  <2> QED
    BY <1>4, <2>1, <2>2
<1>10. ASSUME NEW x \in S PROVE \E i \in 1..n : s[i] = x
  <2>1. rank(x) + 1 \in 1..n /\ rank(x) + 1 - 1 = rank(x) /\ rank(x) \in Nat
    BY <1>1, <1>3
  <2> DEFINE y == s[rank(x) + 1]
  <2>2. y \in S /\ rank(y) = rank(x)
    BY <1>7, <2>1
  <2>3. ~(rank(y) < rank(x)) /\ ~(rank(x) < rank(y))
    BY <2>1, <2>2
  <2>4. y = x
    <3>1. y \in Nat /\ x \in Nat
      BY <2>2
    <3>2. ~(y < x) /\ ~(x < y)
      BY <1>4, <2>2, <2>3
    <3> HIDE DEF y
    <3> QED
      BY <3>1, <3>2
  <2> QED
    BY <2>1, <2>4
<1> QED
  BY <1>1, <1>7, <1>8, <1>9, <1>10 DEF n, s, rank

-----------------------------------------------------------------------------
(* The tables of a dictionary.                                                *)

Place == [at : Nat, removed : BOOLEAN]
Dicts == [lemmas : Seq(Lemmas), offsets : Seq(Place), predicts : Seq(Place), scores : Seq(1..MaxFreq),
          ids : Seq(Nat), byId : Seq(Nat), syncs : Seq(Int), limit : Nat]

Sig(d, i) == Initials(LemmaAt(d, i).spl)

\* Each entry has a place of the block, and each place one entry.
Placed(d) ==
  /\ Len(d.lemmas) = Len(d.offsets) /\ Len(d.scores) = Len(d.offsets)
  /\ \A i \in Entries(d) : d.offsets[i].at \in Entries(d)
  /\ \A i, j \in Entries(d) : d.offsets[i].at = d.offsets[j].at => i = j
  /\ \A a \in Entries(d) : \E i \in Entries(d) : d.offsets[i].at = a

\* Each entry has an id, which leads to its place.
Numbered(d) ==
  /\ Len(d.ids) = Len(d.offsets) /\ Len(d.byId) = Len(d.offsets)
  /\ \A i \in Entries(d) : d.ids[i] \in Entries(d) /\ d.byId[d.ids[i]] = d.offsets[i].at
  /\ \A a \in Entries(d) : \E i \in Entries(d) : d.ids[i] = a

\* The table for prediction has the same places with the same flags.
Predicted(d) ==
  /\ Len(d.predicts) = Len(d.offsets)
  /\ \A k \in Entries(d) : \E i \in Entries(d) : d.predicts[k] = d.offsets[i]
  /\ \A i \in Entries(d) : \E k \in Entries(d) : d.predicts[k] = d.offsets[i]
  /\ \A j, k \in Entries(d) : d.predicts[j].at = d.predicts[k].at => j = k

LiveOnce(d) == \A i, j \in Live(d) : LemmaAt(d, i) = LemmaAt(d, j) => i = j
Ordered(d) == \A i, j \in Entries(d) : i < j => ~Lower(Sig(d, j), Sig(d, i))

Sound(d) ==
  d \in Dicts /\ Placed(d) /\ Numbered(d) /\ Predicted(d) /\ LiveOnce(d) /\ Ordered(d)

LEMMA LemmasAre ==
  ASSUME NEW l \in Lemmas
  PROVE  /\ l.spl \in Spellings /\ l.word \in Seq(Int) /\ Len(l.word) = Len(l.spl)
         /\ Len(l.spl) \in Nat /\ Initials(l.spl) \in Sigs /\ Len(Initials(l.spl)) = Len(l.spl)
<1>1. l.spl \in Seq(SplIds) /\ l.word \in Seq(Int) /\ Len(l.word) = Len(l.spl)
  BY UserDictAssumption
<1>2. l.spl \in Spellings /\ Len(l.spl) \in Nat
  BY <1>1 DEF Spellings
<1> QED
  BY <1>1, <1>2, InitialsAre

LEMMA EntriesAre ==
  ASSUME NEW d \in Dicts, Placed(d)
  PROVE  /\ Len(d.offsets) \in Nat
         /\ \A i \in Entries(d) : /\ d.offsets[i] \in Place /\ d.lemmas[d.offsets[i].at] \in Lemmas
                                  /\ LemmaAt(d, i) = d.lemmas[d.offsets[i].at]
                                  /\ LemmaAt(d, i) \in Lemmas /\ LemmaAt(d, i).spl \in Spellings
                                  /\ Sig(d, i) \in Sigs
         /\ Live(d) \subseteq Entries(d)
<1>1. d.offsets \in Seq(Place) /\ d.lemmas \in Seq(Lemmas)
  BY DEF Dicts
<1>2. ASSUME NEW i \in Entries(d)
      PROVE  d.offsets[i] \in Place /\ LemmaAt(d, i) \in Lemmas
  <2>1. d.offsets[i].at \in 1..Len(d.lemmas) /\ d.offsets[i] \in Place
    BY <1>1 DEF Placed, Entries
  <2> QED
    BY <1>1, <2>1 DEF LemmaAt
<1>3. \A i \in Entries(d) : LemmaAt(d, i).spl \in Spellings /\ Sig(d, i) \in Sigs
  BY <1>2, LemmasAre DEF Sig
<1>4. Len(d.offsets) \in Nat
  BY <1>1
<1> QED
  BY <1>2, <1>3, <1>4 DEF LemmaAt, Live

\* Only scores, syncs or the limit change.
LEMMA SameTables ==
  ASSUME NEW d, Sound(d), NEW e \in Dicts, e.lemmas = d.lemmas, e.offsets = d.offsets,
         e.predicts = d.predicts, e.ids = d.ids, e.byId = d.byId, Len(e.scores) = Len(d.scores)
  PROVE  /\ Sound(e) /\ Entries(e) = Entries(d) /\ Live(e) = Live(d)
         /\ \A i : LemmaAt(e, i) = LemmaAt(d, i) /\ Sig(e, i) = Sig(d, i)
<1>1. Entries(e) = Entries(d)
  BY DEF Entries
<1>2. Live(e) = Live(d)
  BY <1>1 DEF Live
<1>3. \A i : LemmaAt(e, i) = LemmaAt(d, i)
  BY DEF LemmaAt
<1>4. \A i : Sig(e, i) = Sig(d, i)
  BY <1>3 DEF Sig
<1>5. Placed(e) /\ Numbered(e) /\ Predicted(e)
  BY <1>1 DEF Sound, Placed, Numbered, Predicted
<1>6. LiveOnce(e)
  BY <1>2, <1>3 DEF Sound, LiveOnce
<1>7. Ordered(e)
  BY <1>1, <1>4 DEF Sound, Ordered
<1> QED
  BY <1>1, <1>2, <1>3, <1>4, <1>5, <1>6, <1>7 DEF Sound

\* A dictionary that is loaded from a file with the tables of a sound one.
LEMMA LoadedIs ==
  ASSUME NEW d, Sound(d), NEW f \in Dicts, f.lemmas = d.lemmas, f.offsets = d.offsets,
         f.predicts = d.predicts, f.scores = d.scores
  PROVE  /\ Sound(Loaded(f)) /\ Entries(Loaded(f)) = Entries(d) /\ Live(Loaded(f)) = Live(d)
         /\ \A i : LemmaAt(Loaded(f), i) = LemmaAt(d, i)
         /\ Loaded(f).scores = d.scores /\ Loaded(f).lemmas = d.lemmas
         /\ Loaded(f).offsets = d.offsets /\ Loaded(f).predicts = d.predicts
         /\ Loaded(f).syncs = f.syncs /\ Loaded(f).limit = f.limit
<1> DEFINE e == Loaded(f)
           n == Len(d.offsets)
<1>0. d \in Dicts /\ Placed(d)
  BY DEF Sound
<1>1. n \in Nat /\ \A i \in 1..n : d.offsets[i].at \in Nat /\ d.offsets[i].at \in 1..n
  BY <1>0, EntriesAre DEF Placed, Entries, Place
<1>2. /\ e.lemmas = d.lemmas /\ e.offsets = d.offsets /\ e.predicts = d.predicts /\ e.scores = d.scores
      /\ e.ids = [i \in 1..n |-> i] /\ e.byId = [i \in 1..n |-> d.offsets[i].at]
      /\ e.syncs = f.syncs /\ e.limit = f.limit
  BY DEF Loaded, Dicts
<1>3. e.ids \in Seq(Nat) /\ e.byId \in Seq(Nat)
  BY <1>1, <1>2
<1>4. e \in Dicts
  <2>1. [i \in 1..n |-> i] \in Seq(Nat) /\ [i \in 1..n |-> d.offsets[i].at] \in Seq(Nat)
    BY <1>1
  <2> QED
    BY <2>1 DEF Loaded, Dicts
<1> HIDE DEF e
<1>5. Entries(e) = Entries(d) /\ Entries(e) = 1..n /\ Entries(d) = 1..n
  BY <1>2 DEF Entries
<1>6. Live(e) = Live(d)
  BY <1>2, <1>5 DEF Live
<1>7. \A i : LemmaAt(e, i) = LemmaAt(d, i)
  BY <1>2 DEF LemmaAt
<1>8. \A i : Sig(e, i) = Sig(d, i)
  BY <1>7 DEF Sig
<1>9. Placed(e)
  BY <1>2, <1>5 DEF Sound, Placed
<1>10. Predicted(e)
  BY <1>2, <1>5 DEF Sound, Predicted
<1>11. Numbered(e)
  <2>1. Len(e.ids) = n /\ Len(e.byId) = n /\ Len(e.offsets) = n
    BY <1>1, <1>2
  <2>2. \A i \in 1..n : e.ids[i] = i /\ e.byId[i] = e.offsets[i].at
    BY <1>2
  <2> QED
    BY <1>5, <2>1, <2>2 DEF Numbered
<1>12. LiveOnce(e)
  BY <1>6, <1>7 DEF Sound, LiveOnce
<1>13. Ordered(e)
  BY <1>5, <1>8 DEF Sound, Ordered
<1> QED
  BY <1>2, <1>4, <1>5, <1>6, <1>7, <1>9, <1>10, <1>11, <1>12, <1>13 DEF Sound, e

-----------------------------------------------------------------------------
(* Removing.                                                                  *)

LEMMA FlaggedIs ==
  ASSUME NEW t \in Seq(Place), NEW at \in Nat
  PROVE  /\ Flagged(t, at) \in Seq(Place) /\ Len(Flagged(t, at)) = Len(t)
         /\ \A k \in 1..Len(t) :
              /\ Flagged(t, at)[k] = IF t[k].at = at THEN [at |-> at, removed |-> TRUE] ELSE t[k]
              /\ Flagged(t, at)[k].at = t[k].at
              /\ Flagged(t, at)[k].removed <=> t[k].removed \/ t[k].at = at
<1>1. Len(t) \in Nat /\ \A k \in 1..Len(t) : t[k] \in Place
  OBVIOUS
<1> DEFINE u == Flagged(t, at)
<1>2. u = [k \in 1..Len(t) |-> IF t[k].at = at THEN [at |-> at, removed |-> TRUE] ELSE t[k]]
  BY DEF Flagged
<1> HIDE DEF u
<1>3. ASSUME NEW k \in 1..Len(t)
      PROVE  u[k] = IF t[k].at = at THEN [at |-> at, removed |-> TRUE] ELSE t[k]
  BY <1>2
<1>4. ASSUME NEW k \in 1..Len(t) PROVE u[k] \in Place
  <2>1. [at |-> at, removed |-> TRUE] \in Place /\ t[k] \in Place
    BY <1>1 DEF Place
  <2> HIDE DEF Place
  <2>2. CASE t[k].at = at
    BY <1>3, <2>1, <2>2
  <2>3. CASE t[k].at # at
    BY <1>3, <2>1, <2>3
  <2> QED
    BY <2>2, <2>3
<1>5. u \in Seq(Place) /\ Len(u) = Len(t)
  <2>1. u = [k \in 1..Len(t) |-> u[k]]
    BY <1>2
  <2> QED
    BY <1>1, <1>4, <2>1
<1>6. \A k \in 1..Len(t) : u[k].at = t[k].at /\ (u[k].removed <=> t[k].removed \/ t[k].at = at)
  BY <1>1, <1>3 DEF Place
<1> QED
  BY <1>3, <1>5, <1>6 DEF u

LEMMA UnqueuedIs ==
  ASSUME NEW s \in Seq(Int), NEW at
  PROVE  Unqueued(s, at) \in Seq(Int)
<1> DEFINE where == {k \in 1..Len(s) : s[k] = at}
           t == [s EXCEPT ![Min(where)] = s[Len(s)]]
<1>1. CASE where = {}
  BY <1>1 DEF Unqueued
<1>2. CASE where # {}
  <2>1. Len(s) \in Nat /\ Len(s) # 0
    BY <1>2
  <2>2. s[Len(s)] \in Int
    BY <2>1
  <2>3. t \in Seq(Int) /\ Len(t) = Len(s)
    <3>1. t = [k \in 1..Len(s) |-> IF k = Min(where) THEN s[Len(s)] ELSE s[k]]
      OBVIOUS
    <3> HIDE DEF where, t
    <3>2. ASSUME NEW k \in 1..Len(s) PROVE t[k] \in Int
      BY <2>1, <2>2, <3>1
    <3> QED
      BY <2>1, <3>1, <3>2
  <2>4. Unqueued(s, at) = SubSeq(t, 1, Len(s) - 1)
    BY <1>2 DEF Unqueued
  <2> HIDE DEF t
  <2>5. \A k \in 1..Len(s) - 1 : t[k] \in Int
    BY <2>1, <2>3
  <2> QED
    BY <2>1, <2>3, <2>4, <2>5
<1> QED
  BY <1>1, <1>2

\* A removal takes the flagged entry out of the live ones and leaves the order.
LEMMA RemovedIs ==
  ASSUME NEW d, Sound(d), NEW i \in Entries(d)
  PROVE  /\ Sound(Removed(d, i)) /\ Entries(Removed(d, i)) = Entries(d)
         /\ Live(Removed(d, i)) = Live(d) \ {i}
         /\ \A j \in Entries(d) : LemmaAt(Removed(d, i), j) = LemmaAt(d, j)
         /\ Removed(d, i).scores = d.scores /\ Removed(d, i).lemmas = d.lemmas /\ Removed(d, i).limit = d.limit
<1> DEFINE e == Removed(d, i)
           at == d.offsets[i].at
           n == Len(d.offsets)
<1>0. d \in Dicts /\ Placed(d) /\ Predicted(d) /\ Numbered(d) /\ LiveOnce(d) /\ Ordered(d)
  BY DEF Sound
<1>1. /\ n \in Nat /\ d.offsets \in Seq(Place) /\ d.predicts \in Seq(Place) /\ Len(d.predicts) = n
      /\ Entries(d) = 1..n /\ at \in Nat /\ d.syncs \in Seq(Int)
  BY <1>0, EntriesAre DEF Dicts, Predicted, Entries, Place
<1> DEFINE o == Flagged(d.offsets, at)
           p == Flagged(d.predicts, at)
<1>2. /\ e.lemmas = d.lemmas /\ e.offsets = o /\ e.predicts = p /\ e.scores = d.scores
      /\ e.ids = d.ids /\ e.byId = d.byId /\ e.limit = d.limit
  BY <1>0 DEF Removed, Dicts
<1>3. /\ o \in Seq(Place) /\ Len(o) = n
      /\ \A k \in 1..n : /\ o[k] = IF d.offsets[k].at = at THEN [at |-> at, removed |-> TRUE] ELSE d.offsets[k]
                         /\ o[k].at = d.offsets[k].at
                         /\ o[k].removed <=> d.offsets[k].removed \/ d.offsets[k].at = at
  BY <1>1, FlaggedIs
<1>4. /\ p \in Seq(Place) /\ Len(p) = n
      /\ \A k \in 1..n : /\ p[k] = IF d.predicts[k].at = at THEN [at |-> at, removed |-> TRUE] ELSE d.predicts[k]
                         /\ p[k].at = d.predicts[k].at
  BY <1>1, FlaggedIs
<1>5. Unqueued(d.syncs, at) \in Seq(Int)
  BY <1>1, UnqueuedIs
<1>6. e \in Dicts
  BY <1>0, <1>3, <1>4, <1>5 DEF Removed, Dicts
<1> HIDE DEF e, o, p
<1>7. Entries(e) = 1..n
  BY <1>2, <1>3 DEF Entries
<1>8. \A j \in 1..n : e.offsets[j].at = d.offsets[j].at
  BY <1>2, <1>3
<1>9. \A j \in 1..n : LemmaAt(e, j) = LemmaAt(d, j)
  BY <1>2, <1>8 DEF LemmaAt
<1>10. Live(e) = Live(d) \ {i}
  <2>1. \A j \in 1..n : d.offsets[j].at = at <=> j = i
    BY <1>0, <1>1 DEF Placed
  <2>2. \A j \in 1..n : e.offsets[j].removed <=> d.offsets[j].removed \/ j = i
    BY <1>2, <1>3, <2>1
  <2> QED
    BY <1>1, <1>7, <2>2 DEF Live
<1>16. Len(e.offsets) = n /\ Len(e.lemmas) = n /\ Len(e.scores) = n /\ Len(e.ids) = n /\ Len(e.byId) = n
  BY <1>0, <1>2, <1>3 DEF Placed, Numbered
<1>11. Placed(e)
  <2>1. /\ \A j \in 1..n : d.offsets[j].at \in 1..n
        /\ \A j, k \in 1..n : d.offsets[j].at = d.offsets[k].at => j = k
        /\ \A a \in 1..n : \E j \in 1..n : d.offsets[j].at = a
    BY <1>0, <1>1 DEF Placed
  <2>2. /\ \A j \in 1..n : e.offsets[j].at \in 1..n
        /\ \A j, k \in 1..n : e.offsets[j].at = e.offsets[k].at => j = k
        /\ \A a \in 1..n : \E j \in 1..n : e.offsets[j].at = a
    BY <1>8, <2>1
  <2> QED
    BY <1>7, <1>16, <2>2 DEF Placed
<1>12. Numbered(e)
  <2>1. /\ \A j \in 1..n : d.ids[j] \in 1..n /\ d.byId[d.ids[j]] = d.offsets[j].at
        /\ \A a \in 1..n : \E j \in 1..n : d.ids[j] = a
    BY <1>0, <1>1 DEF Numbered
  <2>2. /\ \A j \in 1..n : e.ids[j] \in 1..n /\ e.byId[e.ids[j]] = e.offsets[j].at
        /\ \A a \in 1..n : \E j \in 1..n : e.ids[j] = a
    BY <1>2, <1>8, <2>1
  <2> QED
    BY <1>7, <1>16, <2>2 DEF Numbered
<1>13. Predicted(e)
  <2>1. ASSUME NEW j \in 1..n, NEW k \in 1..n, d.predicts[k] = d.offsets[j] PROVE p[k] = o[j]
    <3>1. /\ p[k] = IF d.predicts[k].at = at THEN [at |-> at, removed |-> TRUE] ELSE d.predicts[k]
          /\ o[j] = IF d.offsets[j].at = at THEN [at |-> at, removed |-> TRUE] ELSE d.offsets[j]
      BY <1>3, <1>4
    <3> HIDE DEF at
    <3> QED
      BY <2>1, <3>1
  <2>2. \A j, k \in 1..n : p[j].at = p[k].at => j = k
    BY <1>0, <1>1, <1>4 DEF Predicted
  <2>3. /\ \A k \in 1..n : \E j \in 1..n : d.predicts[k] = d.offsets[j]
        /\ \A j \in 1..n : \E k \in 1..n : d.predicts[k] = d.offsets[j]
    BY <1>0, <1>1 DEF Predicted
  <2>4. /\ \A k \in 1..n : \E j \in 1..n : p[k] = o[j]
        /\ \A j \in 1..n : \E k \in 1..n : p[k] = o[j]
    BY <2>1, <2>3
  <2>5. e.predicts = p /\ e.offsets = o /\ Len(e.predicts) = Len(e.offsets)
    BY <1>2, <1>3, <1>4
  <2>6. /\ \A k \in 1..n : \E j \in 1..n : e.predicts[k] = e.offsets[j]
        /\ \A j \in 1..n : \E k \in 1..n : e.predicts[k] = e.offsets[j]
    BY <2>4, <2>5
  <2>7. \A j, k \in 1..n : e.predicts[j].at = e.predicts[k].at => j = k
    BY <2>2, <2>5
  <2> QED
    BY <1>7, <2>5, <2>6, <2>7 DEF Predicted
<1>14. LiveOnce(e)
  BY <1>0, <1>1, <1>9, <1>10 DEF LiveOnce, Live
<1>15. Ordered(e)
  BY <1>0, <1>1, <1>7, <1>9 DEF Ordered, Sig
<1> QED
  BY <1>1, <1>2, <1>6, <1>7, <1>9, <1>10, <1>11, <1>12, <1>13, <1>14, <1>15 DEF Sound, e

-----------------------------------------------------------------------------
(* Adding.                                                                    *)

LEMMA QueryOfIs ==
  ASSUME NEW l \in Lemmas
  PROVE  /\ Signature(QueryOf(l)) = Initials(l.spl) /\ Len(QueryOf(l)) = Len(l.spl)
         /\ Signature(QueryOf(l)) \in Sigs /\ Len(Signature(QueryOf(l))) = Len(l.spl)
<1>1. Len(l.spl) \in Nat /\ Initials(l.spl) \in Sigs /\ Len(Initials(l.spl)) = Len(l.spl)
  BY LemmasAre
<1> DEFINE q == QueryOf(l)
<1>2. q = [k \in 1..Len(l.spl) |-> {l.spl[k]}]
  BY DEF QueryOf
<1>3. Len(q) = Len(l.spl) /\ \A k \in 1..Len(l.spl) : q[k] = {l.spl[k]}
  BY <1>1, <1>2
<1>4. \A k \in 1..Len(l.spl) : (CHOOSE s \in q[k] : TRUE) = l.spl[k]
  BY <1>3
<1>5. Signature(q) = [k \in 1..Len(q) |-> InitialOf[CHOOSE s \in q[k] : TRUE]]
  BY DEF Signature
<1> HIDE DEF q
<1>6. Signature(q) = Initials(l.spl)
  BY <1>3, <1>4, <1>5 DEF Initials
<1> QED
  BY <1>1, <1>3, <1>6 DEF q

\* The place of a new entry: what is before it is lower, and nothing behind it.
SlotIn(d, sig) == Min({i \in 1..Len(d.offsets) : FuzzyCompare(LemmaAt(d, i).spl, sig) >= 0}
                      \cup {Len(d.offsets) + 1})

LEMMA SlotIs ==
  ASSUME NEW d, Sound(d), NEW sig \in Sigs
  PROVE  /\ SlotIn(d, sig) \in 1..Len(d.offsets) + 1
         /\ \A i \in Entries(d) : i < SlotIn(d, sig) => ~Lower(sig, Sig(d, i))
         /\ \A i \in Entries(d) : ~(i < SlotIn(d, sig)) => ~Lower(Sig(d, i), sig)
<1> DEFINE n == Len(d.offsets)
           c(i) == FuzzyCompare(LemmaAt(d, i).spl, sig)
           S == {i \in 1..n : c(i) >= 0} \cup {n + 1}
           pos == SlotIn(d, sig)
<1>0. d \in Dicts /\ Placed(d) /\ Ordered(d)
  BY DEF Sound
<1>1. n \in Nat /\ Entries(d) = 1..n
      /\ \A i \in 1..n : LemmaAt(d, i).spl \in Spellings /\ Sig(d, i) \in Sigs
  BY <1>0, EntriesAre DEF Entries
<1>2. pos = Min(S)
  BY DEF SlotIn
<1>3. \A i \in 1..n : c(i) \in Int /\ (c(i) < 0 <=> Lower(Sig(d, i), sig))
  BY <1>1, CompareIs DEF Sig
<1> HIDE DEF c
<1>4. pos \in S /\ \A i \in S : pos <= i
  <2>1. S \in SUBSET Nat /\ S # {}
    BY <1>1
  <2> HIDE DEF S, pos
  <2> QED
    BY <1>2, <2>1, MinIs
<1> HIDE DEF pos
<1>5. pos \in 1..n + 1
  BY <1>1, <1>4
<1>6. ASSUME NEW i \in 1..n, i < pos PROVE ~Lower(sig, Sig(d, i))
  <2>1. i \notin S
    <3>1. i \in Nat /\ pos \in Nat /\ ~(pos <= i)
      BY <1>1, <1>5, <1>6
    <3> QED
      BY <1>4, <3>1
  <2>2. Lower(Sig(d, i), sig)
    <3>1. c(i) \in Int /\ ~(c(i) >= 0)
      BY <1>3, <2>1
    <3> QED
      BY <1>3, <3>1
  <2> QED
    BY <1>1, <2>2, LowerIsStrict, LowerIsTransitive
<1>7. ASSUME NEW i \in 1..n, ~(i < pos) PROVE ~Lower(Sig(d, i), sig)
  <2>1. pos \in 1..n /\ (pos = i \/ pos < i)
    BY <1>1, <1>5, <1>7
  <2>2. ~Lower(Sig(d, pos), sig)
    <3>1. c(pos) >= 0 /\ c(pos) \in Int
      BY <1>1, <1>3, <1>4, <2>1
    <3> QED
      BY <1>3, <2>1, <3>1
  <2>3. pos < i => ~Lower(Sig(d, i), Sig(d, pos))
    BY <1>0, <1>1, <2>1 DEF Ordered
  <2>4. Sig(d, i) \in Sigs /\ Sig(d, pos) \in Sigs
    BY <1>1, <2>1
  <2>5. CASE pos = i
    BY <2>2, <2>5
  <2>6. CASE pos < i
    <3>1. Lower(Sig(d, pos), Sig(d, i)) \/ Sig(d, pos) = Sig(d, i)
      BY <2>3, <2>4, <2>6, LowerIsTotal
    <3> QED
      BY <2>2, <2>4, <3>1, LowerIsTransitive
  <2> QED
    BY <2>1, <2>5, <2>6
<1> QED
  BY <1>1, <1>5, <1>6, <1>7 DEF pos

LEMMA PredictSlotIs ==
  ASSUME NEW d, NEW word, Len(d.offsets) \in Nat \ {0}
  PROVE  PredictSlot(d, word) \in 1..Len(d.offsets)
<1> DEFINE n == Len(d.offsets)
           low == {i \in 1..n : WordCompare(LemmaAt(d, i).word, word) < 0}
           hits == {i \in 1..n : WordCompare(LemmaAt(d, i).word, word) <= 0}
           slot == BinarySearch(n, low, hits)
<1>1. PredictSlot(d, word) = IF slot = 0 THEN n ELSE slot
  BY DEF PredictSlot
<1>2. slot \in 0..n
  <2> DEFINE none == {}
  <2> HIDE DEF low, hits
  <2>1. /\ n \in Nat /\ none \subseteq hits
        /\ \A i \in none : \A m \in 1..n : (m \in low => m < i) /\ (m < i /\ m \notin low => m \in none)
    OBVIOUS
  <2> HIDE DEF none
  <2> QED
    BY <2>1, SearchFinds
<1> QED
  BY <1>1, <1>2

\* What one more entry does to a dictionary.
Insertion(d, e, l, freq, pos, slot) ==
  LET n == Len(d.offsets)
      new == [at |-> n + 1, removed |-> FALSE]
  IN  /\ e \in Dicts /\ e.lemmas = Append(d.lemmas, l) /\ e.byId = Append(d.byId, n + 1)
      /\ e.syncs = d.syncs /\ e.limit = d.limit
      /\ e.offsets = InsertAt(d.offsets, pos, new) /\ e.scores = InsertAt(d.scores, pos, freq)
      /\ e.ids = InsertAt(d.ids, pos, n + 1) /\ e.predicts = InsertAt(d.predicts, slot, new)

LEMMA AddedInserts ==
  ASSUME NEW d, Sound(d), NEW l \in Lemmas, NEW freq \in 1..MaxFreq
  PROVE  \E slot \in 1..Len(d.offsets) + 1 :
            Insertion(d, Added(d, l, freq), l, freq, SlotIn(d, Initials(l.spl)), slot)
<1> DEFINE n == Len(d.offsets)
           pos == SlotIn(d, Initials(l.spl))
           place == [at |-> n + 1, removed |-> FALSE]
           new == [d EXCEPT !.lemmas = Append(@, l), !.offsets = InsertAt(@, pos, place),
                            !.scores = InsertAt(@, pos, freq), !.ids = InsertAt(@, pos, n + 1),
                            !.byId = Append(@, n + 1)]
           slot == PredictSlot(new, l.word)
           e == [new EXCEPT !.predicts = InsertAt(@, slot, place)]
<1>0. d \in Dicts /\ Placed(d) /\ Numbered(d) /\ Predicted(d)
  BY DEF Sound
<1>1. n \in Nat /\ Len(d.lemmas) = n /\ Len(d.scores) = n /\ Len(d.ids) = n /\ Len(d.byId) = n /\ Len(d.predicts) = n
  BY <1>0, EntriesAre DEF Placed, Numbered, Predicted
<1>2. Initials(l.spl) \in Sigs /\ pos \in 1..n + 1
  BY LemmasAre, SlotIs
<1>3. Added(d, l, freq) = e
  <2>1. Signature(QueryOf(l)) = Initials(l.spl)
    BY QueryOfIs
  <2> QED
    BY <1>1, <2>1 DEF Added, SlotIn
<1>4. place \in Place
  BY <1>1 DEF Place
<1>5. /\ d.lemmas \in Seq(Lemmas) /\ d.offsets \in Seq(Place) /\ d.predicts \in Seq(Place)
      /\ d.scores \in Seq(1..MaxFreq) /\ d.ids \in Seq(Nat) /\ d.byId \in Seq(Nat)
  BY <1>0 DEF Dicts
<1> HIDE DEF place, pos
<1>6. InsertAt(d.offsets, pos, place) \in Seq(Place) /\ Len(InsertAt(d.offsets, pos, place)) = n + 1
  <2>1. InsertAt(d.offsets, pos, place) \in Seq(Place) /\ Inserted(InsertAt(d.offsets, pos, place), d.offsets, n, pos, place)
    BY <1>2, <1>4, <1>5, InsertIs
  <2> QED
    BY <2>1 DEF Inserted
<1>7. InsertAt(d.scores, pos, freq) \in Seq(1..MaxFreq)
  BY <1>1, <1>2, <1>5, InsertIs
<1>8. InsertAt(d.ids, pos, n + 1) \in Seq(Nat)
  <2>1. n + 1 \in Nat
    BY <1>1
  <2> QED
    BY <1>1, <1>2, <1>5, <2>1, InsertIs
<1>9. Append(d.lemmas, l) \in Seq(Lemmas) /\ Append(d.byId, n + 1) \in Seq(Nat)
  BY <1>1, <1>5
<1>10. new \in Dicts /\ new.offsets = InsertAt(d.offsets, pos, place) /\ new.predicts = d.predicts
  BY <1>0, <1>6, <1>7, <1>8, <1>9 DEF Dicts
<1>11. slot \in 1..n + 1
  <2> HIDE DEF new
  <2>1. Len(new.offsets) = n + 1 /\ n + 1 \in Nat \ {0}
    BY <1>1, <1>6, <1>10
  <2> QED
    BY <2>1, PredictSlotIs
<1> HIDE DEF slot
<1>12. InsertAt(d.predicts, slot, place) \in Seq(Place)
  BY <1>1, <1>4, <1>5, <1>11, InsertIs
<1>13. Insertion(d, e, l, freq, pos, slot)
  <2>1. e \in Dicts
    BY <1>10, <1>12 DEF Dicts
  <2>2. /\ e.lemmas = Append(d.lemmas, l) /\ e.byId = Append(d.byId, n + 1)
        /\ e.syncs = d.syncs /\ e.limit = d.limit
        /\ e.offsets = InsertAt(d.offsets, pos, place) /\ e.scores = InsertAt(d.scores, pos, freq)
        /\ e.ids = InsertAt(d.ids, pos, n + 1) /\ e.predicts = InsertAt(d.predicts, slot, place)
    BY <1>0 DEF Dicts
  <2> QED
    BY <2>1, <2>2 DEF Insertion, place
<1> QED
  BY <1>3, <1>11, <1>13 DEF pos

\* A lemma that is not there is put in its place, and the others stay.
LEMMA AddedIs ==
  ASSUME NEW d, Sound(d), NEW l \in Lemmas, NEW freq \in 1..MaxFreq,
         \A i \in Live(d) : LemmaAt(d, i) # l
  PROVE  LET e == Added(d, l, freq)
             n == Len(d.offsets)
             pos == SlotIn(d, Initials(l.spl))
         IN  /\ Sound(e) /\ n \in Nat /\ pos \in 1..n + 1 /\ Entries(d) = 1..n /\ Entries(e) = 1..n + 1
             /\ pos \in Live(e) /\ LemmaAt(e, pos) = l /\ e.scores[pos] = freq
             /\ \A k \in 1..n + 1 : k # pos =>
                  /\ Old(pos, k) \in 1..n /\ LemmaAt(e, k) = LemmaAt(d, Old(pos, k))
                  /\ e.scores[k] = d.scores[Old(pos, k)] /\ (k \in Live(e) <=> Old(pos, k) \in Live(d))
             /\ e.lemmas = Append(d.lemmas, l) /\ e.limit = d.limit
<1> DEFINE n == Len(d.offsets)
           pos == SlotIn(d, Initials(l.spl))
           place == [at |-> n + 1, removed |-> FALSE]
           e == Added(d, l, freq)
           sig == Initials(l.spl)
<1>0. d \in Dicts /\ Placed(d) /\ Numbered(d) /\ Predicted(d) /\ LiveOnce(d) /\ Ordered(d)
  BY DEF Sound
<1>1. /\ n \in Nat /\ Entries(d) = 1..n
      /\ Len(d.lemmas) = n /\ Len(d.scores) = n /\ Len(d.ids) = n /\ Len(d.byId) = n /\ Len(d.predicts) = n
  BY <1>0, EntriesAre DEF Placed, Numbered, Predicted, Entries
<1>2. PICK slot \in 1..n + 1 : Insertion(d, e, l, freq, pos, slot)
  BY AddedInserts
<1> HIDE DEF e
<1>3. /\ e \in Dicts /\ e.lemmas = Append(d.lemmas, l) /\ e.byId = Append(d.byId, n + 1)
      /\ e.limit = d.limit
      /\ e.offsets = InsertAt(d.offsets, pos, place) /\ e.scores = InsertAt(d.scores, pos, freq)
      /\ e.ids = InsertAt(d.ids, pos, n + 1) /\ e.predicts = InsertAt(d.predicts, slot, place)
  BY <1>2 DEF Insertion
<1>4. sig \in Sigs /\ pos \in 1..n + 1
  BY LemmasAre, SlotIs
<1>5. /\ \A i \in 1..n : i < pos => ~Lower(sig, Sig(d, i))
      /\ \A i \in 1..n : ~(i < pos) => ~Lower(Sig(d, i), sig)
  BY <1>1, <1>4, SlotIs
<1>6. place \in Place /\ place.at = n + 1 /\ place.removed = FALSE
  BY <1>1 DEF Place
<1>7. /\ d.lemmas \in Seq(Lemmas) /\ d.offsets \in Seq(Place) /\ d.predicts \in Seq(Place)
      /\ d.scores \in Seq(1..MaxFreq) /\ d.ids \in Seq(Nat) /\ d.byId \in Seq(Nat)
  BY <1>0 DEF Dicts
<1> HIDE DEF place, pos, sig
<1>8. Inserted(e.offsets, d.offsets, n, pos, place)
  BY <1>3, <1>4, <1>6, <1>7, InsertIs
<1>9. Inserted(e.scores, d.scores, n, pos, freq)
  <2>1. Inserted(e.scores, d.scores, Len(d.scores), pos, freq)
    BY <1>1, <1>3, <1>4, <1>7, InsertIs
  <2> QED
    BY <1>1, <2>1
<1>10. Inserted(e.ids, d.ids, n, pos, n + 1)
  <2>0. n + 1 \in Nat
    BY <1>1
  <2>1. Inserted(e.ids, d.ids, Len(d.ids), pos, n + 1)
    BY <1>1, <1>3, <1>4, <1>7, <2>0, InsertIs
  <2> QED
    BY <1>1, <2>1
<1>11. Inserted(e.predicts, d.predicts, n, slot, place)
  <2>1. Inserted(e.predicts, d.predicts, Len(d.predicts), slot, place)
    BY <1>1, <1>2, <1>3, <1>6, <1>7, InsertIs
  <2> QED
    BY <1>1, <2>1
<1>12. /\ Len(e.byId) = n + 1 /\ e.byId[n + 1] = n + 1 /\ \A k \in 1..n : e.byId[k] = d.byId[k]
       /\ Len(e.lemmas) = n + 1 /\ e.lemmas[n + 1] = l /\ \A k \in 1..n : e.lemmas[k] = d.lemmas[k]
  <2>1. \A X : \A s \in Seq(X) : \A x \in X :
          Len(Append(s, x)) = Len(s) + 1 /\ Append(s, x)[Len(s) + 1] = x /\ \A k \in 1..Len(s) : Append(s, x)[k] = s[k]
    OBVIOUS
  <2>2. Len(e.byId) = n + 1 /\ e.byId[n + 1] = n + 1 /\ \A k \in 1..n : e.byId[k] = d.byId[k]
    <3>1. n + 1 \in Nat
      BY <1>1
    <3> QED
      BY <1>1, <1>3, <1>7, <2>1, <3>1
  <2>3. Len(e.lemmas) = n + 1 /\ e.lemmas[n + 1] = l /\ \A k \in 1..n : e.lemmas[k] = d.lemmas[k]
    BY <1>1, <1>3, <1>7, <2>1
  <2> QED
    BY <2>2, <2>3
<1>26. Len(e.offsets) = n + 1 /\ Len(e.scores) = n + 1 /\ Len(e.ids) = n + 1 /\ Len(e.predicts) = n + 1
  BY <1>8, <1>9, <1>10, <1>11 DEF Inserted
<1>13. Entries(e) = 1..n + 1
  BY <1>26 DEF Entries
<1>14. Moved(n, pos) /\ Moved(n, slot)
  BY <1>1, <1>2, <1>4, OldIs
<1>15. /\ e.offsets[pos] = place /\ e.ids[pos] = n + 1 /\ e.scores[pos] = freq
       /\ \A k \in 1..n + 1 : k # pos => /\ Old(pos, k) \in 1..n /\ e.offsets[k] = d.offsets[Old(pos, k)]
                                       /\ e.ids[k] = d.ids[Old(pos, k)] /\ e.scores[k] = d.scores[Old(pos, k)]
       /\ \A j, k \in 1..n + 1 : j # pos /\ k # pos /\ Old(pos, j) = Old(pos, k) => j = k
  BY <1>8, <1>9, <1>10, <1>14 DEF Moved, Inserted
<1>16. /\ \A i \in 1..n : d.offsets[i].at \in 1..n
       /\ \A i, j \in 1..n : d.offsets[i].at = d.offsets[j].at => i = j
       /\ \A a \in 1..n : \E i \in 1..n : d.offsets[i].at = a
  BY <1>0, <1>1 DEF Placed
<1>17. n + 1 \notin 1..n /\ n + 1 \in 1..n + 1 /\ \A a \in 1..n + 1 : a = n + 1 \/ a \in 1..n
  BY <1>1
<1>18. LemmaAt(e, pos) = l /\ \A k \in 1..n + 1 : k # pos => LemmaAt(e, k) = LemmaAt(d, Old(pos, k))
  <2>1. LemmaAt(e, pos) = l
    BY <1>6, <1>12, <1>15 DEF LemmaAt
  <2>2. ASSUME NEW k \in 1..n + 1, k # pos PROVE LemmaAt(e, k) = LemmaAt(d, Old(pos, k))
    <3>1. e.offsets[k].at = d.offsets[Old(pos, k)].at /\ d.offsets[Old(pos, k)].at \in 1..n
      BY <1>15, <1>16, <2>2
    <3> QED
      BY <1>12, <3>1 DEF LemmaAt
  <2> QED
    BY <2>1, <2>2
<1>19. pos \in Live(e) /\ \A k \in 1..n + 1 : k # pos => (k \in Live(e) <=> Old(pos, k) \in Live(d))
  BY <1>1, <1>4, <1>6, <1>13, <1>15 DEF Live
<1>20. Placed(e)
  <2>1. ASSUME NEW k \in 1..n + 1
        PROVE  e.offsets[k].at \in 1..n + 1 /\ (k # pos => e.offsets[k].at \in 1..n)
    <3>1. CASE k = pos
      BY <1>6, <1>15, <1>17, <3>1
    <3>2. CASE k # pos
      <4>1. e.offsets[k].at \in 1..n
        <5>1. Old(pos, k) \in 1..n /\ e.offsets[k] = d.offsets[Old(pos, k)]
          BY <1>15, <3>2
        <5>2. d.offsets[Old(pos, k)].at \in 1..n
          BY <1>16, <5>1
        <5> QED
          BY <5>1, <5>2
      <4> QED
        BY <1>1, <4>1
    <3> QED
      BY <3>1, <3>2
  <2>2. ASSUME NEW j \in 1..n + 1, NEW k \in 1..n + 1, e.offsets[j].at = e.offsets[k].at PROVE j = k
    <3>1. CASE j = pos \/ k = pos
      BY <1>6, <1>15, <1>17, <2>1, <2>2, <3>1
    <3>2. CASE j # pos /\ k # pos
      <4>1. d.offsets[Old(pos, j)].at = d.offsets[Old(pos, k)].at /\ Old(pos, j) \in 1..n /\ Old(pos, k) \in 1..n
        BY <1>15, <2>2, <3>2
      <4>2. Old(pos, j) = Old(pos, k)
        BY <1>16, <4>1
      <4> QED
        BY <1>15, <3>2, <4>2
    <3> QED
      BY <3>1, <3>2
  <2>3. ASSUME NEW a \in 1..n + 1 PROVE \E k \in 1..n + 1 : e.offsets[k].at = a
    <3>1. /\ \A i \in 1..n : \E k \in 1..n + 1 : e.offsets[k] = d.offsets[i]
          /\ \E k \in 1..n + 1 : e.offsets[k] = place
      <4>1. HasOneMore(e.offsets, d.offsets, n, place)
        BY <1>1, <1>4, <1>8, InsertedValues
      <4> QED
        BY <4>1 DEF HasOneMore
    <3>2. CASE a = n + 1
      BY <1>6, <3>1, <3>2
    <3>3. CASE a \in 1..n
      <4>1. PICK i \in 1..n : d.offsets[i].at = a
        BY <1>16, <3>3
      <4> QED
        BY <3>1, <4>1
    <3> QED
      BY <1>17, <3>2, <3>3
  <2>4. Len(e.lemmas) = Len(e.offsets) /\ Len(e.scores) = Len(e.offsets)
    BY <1>12, <1>26
  <2> QED
    BY <1>13, <2>1, <2>2, <2>3, <2>4 DEF Placed
<1>21. Numbered(e)
  <2>0. /\ \A i \in 1..n : d.ids[i] \in 1..n /\ d.byId[d.ids[i]] = d.offsets[i].at
        /\ \A a \in 1..n : \E i \in 1..n : d.ids[i] = a
    BY <1>0, <1>1 DEF Numbered
  <2>1. ASSUME NEW k \in 1..n + 1
        PROVE  e.ids[k] \in 1..n + 1 /\ e.byId[e.ids[k]] = e.offsets[k].at
    <3>1. CASE k = pos
      BY <1>6, <1>12, <1>15, <1>17, <3>1
    <3>2. CASE k # pos
      <4>1. Old(pos, k) \in 1..n /\ e.ids[k] = d.ids[Old(pos, k)] /\ e.offsets[k] = d.offsets[Old(pos, k)]
        BY <1>15, <3>2
      <4>2. e.ids[k] \in 1..n /\ d.byId[e.ids[k]] = e.offsets[k].at
        BY <2>0, <4>1
      <4> QED
        BY <1>1, <1>12, <4>2
    <3> QED
      BY <3>1, <3>2
  <2>3. ASSUME NEW a \in 1..n + 1 PROVE \E k \in 1..n + 1 : e.ids[k] = a
    <3>1. /\ \A i \in 1..n : \E k \in 1..n + 1 : e.ids[k] = d.ids[i]
          /\ \E k \in 1..n + 1 : e.ids[k] = n + 1
      <4>1. HasOneMore(e.ids, d.ids, n, n + 1)
        BY <1>1, <1>4, <1>10, InsertedValues
      <4> QED
        BY <4>1 DEF HasOneMore
    <3>2. CASE a = n + 1
      BY <3>1, <3>2
    <3>3. CASE a \in 1..n
      <4>1. PICK i \in 1..n : d.ids[i] = a
        BY <2>0, <3>3
      <4> QED
        BY <3>1, <4>1
    <3> QED
      BY <1>17, <3>2, <3>3
  <2>4. Len(e.ids) = Len(e.offsets) /\ Len(e.byId) = Len(e.offsets)
    BY <1>12, <1>26
  <2> QED
    BY <1>13, <2>1, <2>3, <2>4 DEF Numbered
<1>22. Predicted(e)
  <2>0. /\ \A k \in 1..n : \E i \in 1..n : d.predicts[k] = d.offsets[i]
        /\ \A i \in 1..n : \E k \in 1..n : d.predicts[k] = d.offsets[i]
        /\ \A j, k \in 1..n : d.predicts[j].at = d.predicts[k].at => j = k
    BY <1>0, <1>1 DEF Predicted
  <2>5. /\ \A k \in 1..n + 1 : e.offsets[k] = place \/ \E i \in 1..n : e.offsets[k] = d.offsets[i]
        /\ \A i \in 1..n : \E k \in 1..n + 1 : e.offsets[k] = d.offsets[i]
        /\ \E k \in 1..n + 1 : e.offsets[k] = place
    <3>1. HasOneMore(e.offsets, d.offsets, n, place)
      BY <1>1, <1>4, <1>8, InsertedValues
    <3> QED
      BY <3>1 DEF HasOneMore
  <2>6. /\ \A k \in 1..n + 1 : e.predicts[k] = place \/ \E i \in 1..n : e.predicts[k] = d.predicts[i]
        /\ \A i \in 1..n : \E k \in 1..n + 1 : e.predicts[k] = d.predicts[i]
        /\ \E k \in 1..n + 1 : e.predicts[k] = place
    <3>1. HasOneMore(e.predicts, d.predicts, n, place)
      BY <1>1, <1>2, <1>11, InsertedValues
    <3> QED
      BY <3>1 DEF HasOneMore
  <2>1. ASSUME NEW k \in 1..n + 1 PROVE \E i \in 1..n + 1 : e.predicts[k] = e.offsets[i]
    <3>1. CASE e.predicts[k] = place
      BY <2>5, <3>1
    <3>2. ASSUME NEW i \in 1..n, e.predicts[k] = d.predicts[i] PROVE \E j \in 1..n + 1 : e.predicts[k] = e.offsets[j]
      <4>1. PICK j \in 1..n : d.predicts[i] = d.offsets[j]
        BY <2>0
      <4> QED
        BY <2>5, <3>2, <4>1
    <3> QED
      BY <2>6, <3>1, <3>2
  <2>2. ASSUME NEW i \in 1..n + 1 PROVE \E k \in 1..n + 1 : e.predicts[k] = e.offsets[i]
    <3>1. CASE e.offsets[i] = place
      BY <2>6, <3>1
    <3>2. ASSUME NEW j \in 1..n, e.offsets[i] = d.offsets[j] PROVE \E k \in 1..n + 1 : e.predicts[k] = e.offsets[i]
      <4>1. PICK k \in 1..n : d.predicts[k] = d.offsets[j]
        BY <2>0
      <4> QED
        BY <2>6, <3>2, <4>1
    <3> QED
      BY <2>5, <3>1, <3>2
  <2>7. /\ e.predicts[slot] = place
        /\ \A k \in 1..n + 1 : k # slot => Old(slot, k) \in 1..n /\ e.predicts[k] = d.predicts[Old(slot, k)]
        /\ \A j, k \in 1..n + 1 : j # slot /\ k # slot /\ Old(slot, j) = Old(slot, k) => j = k
    BY <1>11, <1>14 DEF Moved, Inserted
  <2>8. ASSUME NEW k \in 1..n + 1, k # slot PROVE e.predicts[k].at \in 1..n
    <3>1. PICK i \in 1..n : d.predicts[Old(slot, k)] = d.offsets[i]
      BY <2>0, <2>7, <2>8
    <3> QED
      BY <1>16, <2>7, <2>8, <3>1
  <2>3. ASSUME NEW j \in 1..n + 1, NEW k \in 1..n + 1, e.predicts[j].at = e.predicts[k].at PROVE j = k
    <3>1. CASE j = slot \/ k = slot
      BY <1>6, <1>17, <2>3, <2>7, <2>8, <3>1
    <3>2. CASE j # slot /\ k # slot
      <4>1. d.predicts[Old(slot, j)].at = d.predicts[Old(slot, k)].at /\ Old(slot, j) \in 1..n /\ Old(slot, k) \in 1..n
        BY <2>3, <2>7, <3>2
      <4>2. Old(slot, j) = Old(slot, k)
        BY <2>0, <4>1
      <4> QED
        BY <2>7, <3>2, <4>2
    <3> QED
      BY <3>1, <3>2
  <2>4. Len(e.predicts) = Len(e.offsets)
    BY <1>26
  <2> QED
    BY <1>13, <2>1, <2>2, <2>3, <2>4 DEF Predicted
<1>23. LiveOnce(e)
  <2> SUFFICES ASSUME NEW i \in Live(e), NEW j \in Live(e), LemmaAt(e, i) = LemmaAt(e, j) PROVE i = j
    BY DEF LiveOnce
  <2>1. i \in 1..n + 1 /\ j \in 1..n + 1
    BY <1>13 DEF Live
  <2>2. \A a, b \in Live(d) : LemmaAt(d, a) = LemmaAt(d, b) => a = b
    BY <1>0 DEF LiveOnce
  <2>3. CASE i = pos \/ j = pos
    <3>1. ASSUME NEW k \in 1..n + 1, k # pos, k \in Live(e) PROVE LemmaAt(e, k) # l
      BY <1>18, <1>19, <3>1
    <3> QED
      BY <1>18, <2>1, <2>3, <3>1
  <2>4. CASE i # pos /\ j # pos
    <3>1. /\ Old(pos, i) \in Live(d) /\ Old(pos, j) \in Live(d)
          /\ LemmaAt(d, Old(pos, i)) = LemmaAt(d, Old(pos, j))
      BY <1>18, <1>19, <2>1, <2>4
    <3>2. Old(pos, i) = Old(pos, j)
      BY <2>2, <3>1
    <3> QED
      BY <1>15, <2>1, <2>4, <3>2
  <2> QED
    BY <2>3, <2>4
<1>24. Ordered(e)
  <2> SUFFICES ASSUME NEW i \in 1..n + 1, NEW j \in 1..n + 1, i < j PROVE ~Lower(Sig(e, j), Sig(e, i))
    BY <1>13 DEF Ordered
  <2>1. Sig(e, pos) = sig /\ \A k \in 1..n + 1 : k # pos => Sig(e, k) = Sig(d, Old(pos, k))
    BY <1>18 DEF Sig, sig
  <2>2. \A a, b \in 1..n : a < b => ~Lower(Sig(d, b), Sig(d, a))
    BY <1>0, <1>1 DEF Ordered
  <2>3. CASE i = pos
    <3>1. j # pos /\ ~(j < pos) /\ j \in Nat /\ pos \in Nat
      BY <1>1, <1>4, <2>3
    <3>2. Old(pos, j) \in 1..n /\ ~(Old(pos, j) < pos)
      BY <1>14, <3>1 DEF Moved
    <3> QED
      BY <1>5, <2>1, <2>3, <3>1, <3>2
  <2>4. CASE j = pos
    <3>1. i # pos /\ i < pos
      BY <1>1, <1>4, <2>4
    <3>2. Old(pos, i) \in 1..n /\ Old(pos, i) < pos
      BY <1>14, <3>1 DEF Moved
    <3> QED
      BY <1>5, <2>1, <2>4, <3>1, <3>2
  <2>5. CASE i # pos /\ j # pos
    <3>1. Old(pos, i) \in 1..n /\ Old(pos, j) \in 1..n /\ Old(pos, i) < Old(pos, j)
      BY <1>14, <2>5 DEF Moved
    <3> QED
      BY <2>1, <2>2, <2>5, <3>1
  <2> QED
    BY <2>3, <2>4, <2>5
<1>25. Sound(e)
  BY <1>3, <1>20, <1>21, <1>22, <1>23, <1>24 DEF Sound
<1> QED
  BY <1>1, <1>3, <1>4, <1>13, <1>15, <1>18, <1>19, <1>25 DEF e, pos, sig

-----------------------------------------------------------------------------
(* Compaction.                                                                *)

NewPlace(gone, at) == at - Cardinality({g \in gone : g < at})

\* Where a place of the block goes when the places in gone are given up: to its
\* rank among those that stay.
NewPlacesAre(gone, P) ==
  /\ \A a \in P : NewPlace(gone, a) \in 1..Cardinality(P) /\ Ascending(P)[NewPlace(gone, a)] = a
  /\ \A a \in Int : NewPlace(gone, a) \in Int

LEMMA NewPlaceIs ==
  ASSUME NEW n \in Nat, NEW gone \in SUBSET (1..n), NEW P, P = 1..n \ gone
  PROVE  NewPlacesAre(gone, P)
<1>1. IsFiniteSet(1..n) /\ 1..n \in SUBSET Nat
  BY FS_Interval
<1>2. IsFiniteSet(P) /\ P \in SUBSET Nat /\ P \subseteq 1..n
  BY <1>1, FS_Subset
<1>3. ASSUME NEW a \in Int PROVE IsFiniteSet({g \in gone : g < a}) /\ NewPlace(gone, a) \in Int
  <2>1. {g \in gone : g < a} \subseteq 1..n
    OBVIOUS
  <2>2. IsFiniteSet({g \in gone : g < a})
    BY <1>1, <2>1, FS_Subset
  <2>3. Cardinality({g \in gone : g < a}) \in Nat
    BY <2>2, FS_CardinalityType
  <2> QED
    BY <2>2, <2>3 DEF NewPlace
<1>4. ASSUME NEW a \in P
      PROVE  NewPlace(gone, a) \in 1..Cardinality(P) /\ Ascending(P)[NewPlace(gone, a)] = a
  <2>1. PICK k \in 1..Cardinality(P) : Ascending(P)[k] = a
    BY <1>2, AscendingIs
  <2>2. Cardinality({y \in P : y < a}) = k - 1
    BY <1>2, <2>1, AscendingIs
  <2> DEFINE under == 1..a - 1
             lost == {g \in gone : g < a}
             rest == {y \in P : y < a}
  <2>3. a \in 1..n /\ a \in Int
    BY <1>2
  <2>4. IsFiniteSet(under) /\ Cardinality(under) = a - 1
    <3>1. 1 \in Int /\ a - 1 \in Int
      BY <2>3
    <3>2. IsFiniteSet(1..a - 1) /\ Cardinality(1..a - 1) = IF 1 > a - 1 THEN 0 ELSE a - 1 - 1 + 1
      BY <3>1, FS_Interval
    <3> QED
      BY <2>3, <3>2
  <2>5. rest = under \ lost /\ lost = under \cap lost
    <3>1. ASSUME NEW x PROVE x \in rest <=> x \in under /\ x \notin lost
      <4>1. x \in under => x \in 1..n /\ x < a
        BY <2>3
      <4>2. x \in P => x \in 1..n /\ x \notin gone
        BY <1>2
      <4>3. x \in 1..n /\ x < a => x \in under
        BY <2>3
      <4>4. x \in rest <=> x \in P /\ x < a
        OBVIOUS
      <4>5. x \in lost <=> x \in gone /\ x < a
        OBVIOUS
      <4>6. x \in P <=> x \in 1..n /\ x \notin gone
        OBVIOUS
      <4> HIDE DEF under, lost, rest
      <4> QED
        BY <4>1, <4>2, <4>3, <4>4, <4>5, <4>6
    <3>2. \A x \in lost : x \in under
      BY <2>3
    <3> HIDE DEF under, lost, rest
    <3> QED
      BY <3>1, <3>2
  <2>6. IsFiniteSet(lost) /\ Cardinality(lost) \in Nat
    BY <1>3, <2>3, FS_CardinalityType
  <2> HIDE DEF under, lost, rest
  <2>7. Cardinality(rest) = Cardinality(under) - Cardinality(lost)
    <3>1. Cardinality(under \ lost) = Cardinality(under) - Cardinality(under \cap lost)
      BY <2>4, FS_Difference
    <3> QED
      BY <2>5, <3>1
  <2>8. Cardinality(rest) = k - 1
    BY <2>2 DEF rest
  <2>9. NewPlace(gone, a) = a - Cardinality(lost)
    BY DEF NewPlace, lost
  <2>10. k \in Int
    OBVIOUS
  <2>11. NewPlace(gone, a) = k
    BY <2>3, <2>4, <2>6, <2>7, <2>8, <2>9, <2>10
  <2> QED
    BY <2>1, <2>11
<1> QED
  BY <1>3, <1>4 DEF NewPlacesAre

Gone(d) == {d.offsets[i].at : i \in Entries(d) \ Live(d)}
Kept(d) == Ascending(Live(d))
KeptPlaces(d) == Ascending(1..Len(d.lemmas) \ Gone(d))
Foretold(d) == {k \in 1..Len(d.predicts) : ~d.predicts[k].removed}

\* The order of Ascending has each member once.
LEMMA AscendingOnce ==
  ASSUME NEW S \in SUBSET Nat, IsFiniteSet(S),
         NEW i \in 1..Cardinality(S), NEW j \in 1..Cardinality(S), Ascending(S)[i] = Ascending(S)[j]
  PROVE  i = j
<1> DEFINE a == Ascending(S)
<1>1. /\ Cardinality(S) \in Nat /\ a[i] \in Nat /\ a[j] \in Nat
      /\ (i < j => a[i] < a[j]) /\ (j < i => a[j] < a[i])
  BY AscendingIs
<1> HIDE DEF a
<1>2. ~(a[i] < a[j]) /\ ~(a[j] < a[i])
  BY <1>1 DEF a
<1> QED
  BY <1>1, <1>2

IsTable(t, n) == Len(t) = n /\ t = [k \in 1..n |-> t[k]]

\* The tables of a compacted dictionary.
CompactedTo(d, e, n) ==
  /\ \A k \in 1..n :
       /\ e.lemmas[k] = d.lemmas[KeptPlaces(d)[k]]
       /\ e.offsets[k] = [at |-> NewPlace(Gone(d), d.offsets[Kept(d)[k]].at), removed |-> FALSE]
       /\ e.predicts[k] = [at |-> NewPlace(Gone(d), d.predicts[Ascending(Foretold(d))[k]].at), removed |-> FALSE]
       /\ e.scores[k] = d.scores[Kept(d)[k]]
       /\ e.ids[k] = k /\ e.byId[k] = e.offsets[k].at
  /\ IsTable(e.lemmas, n) /\ IsTable(e.offsets, n) /\ IsTable(e.predicts, n) /\ IsTable(e.scores, n)
  /\ IsTable(e.ids, n) /\ IsTable(e.byId, n)
  /\ e.syncs = [k \in 1..Len(d.syncs) |-> IF d.syncs[k] \in Gone(d) THEN d.syncs[k] ELSE NewPlace(Gone(d), d.syncs[k])]
  /\ e.limit = d.limit
  /\ e = [lemmas |-> e.lemmas, offsets |-> e.offsets, predicts |-> e.predicts, scores |-> e.scores,
          ids |-> e.ids, byId |-> e.byId, syncs |-> e.syncs, limit |-> e.limit]

LEMMA CompactedTables ==
  ASSUME NEW d \in Dicts, NEW n \in Nat,
         Len(Kept(d)) = n, Len(KeptPlaces(d)) = n, Len(Ascending(Foretold(d))) = n
  PROVE  CompactedTo(d, Defragmented(d), n)
<1> DEFINE to(at) == NewPlace(Gone(d), at)
           kept == Kept(d)
           places == KeptPlaces(d)
           told == Ascending(Foretold(d))
           A == [k \in 1..Len(places) |-> d.lemmas[places[k]]]
           B == [k \in 1..Len(kept) |-> [at |-> to(d.offsets[kept[k]].at), removed |-> FALSE]]
           C == [k \in 1..Len(told) |-> [at |-> to(d.predicts[told[k]].at), removed |-> FALSE]]
           D == [k \in 1..Len(kept) |-> d.scores[kept[k]]]
           E == [k \in 1..Len(kept) |-> k]
           F == [k \in 1..Len(kept) |-> B[k].at]
           G == [k \in 1..Len(d.syncs) |-> IF d.syncs[k] \in Gone(d) THEN d.syncs[k] ELSE to(d.syncs[k])]
           e == Defragmented(d)
<1>1. e = [d EXCEPT !.lemmas = A, !.offsets = B, !.predicts = C, !.scores = D,
                    !.ids = E, !.byId = F, !.syncs = G]
  BY DEF Defragmented, Kept, KeptPlaces, Foretold, Gone, NewPlace
<1> HIDE DEF A, B, C, D, E, F, G, e
<1>2. e = [lemmas |-> A, offsets |-> B, predicts |-> C, scores |-> D,
           ids |-> E, byId |-> F, syncs |-> G, limit |-> d.limit]
  BY <1>1 DEF Dicts
<1>3. /\ e.lemmas = A /\ e.offsets = B /\ e.predicts = C /\ e.scores = D
      /\ e.ids = E /\ e.byId = F /\ e.syncs = G /\ e.limit = d.limit
  BY <1>2
<1> HIDE DEF kept, places, told, to
<1>4. Len(kept) = n /\ Len(places) = n /\ Len(told) = n
  BY DEF kept, places, told
<1>5. IsTable(A, n) /\ \A k \in 1..n : A[k] = d.lemmas[places[k]]
  BY <1>4 DEF A, IsTable
<1>6. IsTable(B, n) /\ \A k \in 1..n : B[k] = [at |-> to(d.offsets[kept[k]].at), removed |-> FALSE]
  BY <1>4 DEF B, IsTable
<1>7. IsTable(C, n) /\ \A k \in 1..n : C[k] = [at |-> to(d.predicts[told[k]].at), removed |-> FALSE]
  BY <1>4 DEF C, IsTable
<1>8. IsTable(D, n) /\ \A k \in 1..n : D[k] = d.scores[kept[k]]
  BY <1>4 DEF D, IsTable
<1>9. IsTable(E, n) /\ \A k \in 1..n : E[k] = k
  BY <1>4 DEF E, IsTable
<1>10. IsTable(F, n) /\ \A k \in 1..n : F[k] = B[k].at
  BY <1>4 DEF F, IsTable
<1>11. e = [lemmas |-> e.lemmas, offsets |-> e.offsets, predicts |-> e.predicts, scores |-> e.scores,
            ids |-> e.ids, byId |-> e.byId, syncs |-> e.syncs, limit |-> e.limit]
  BY <1>2, <1>3
<1> QED
  BY <1>3, <1>5, <1>6, <1>7, <1>8, <1>9, <1>10, <1>11 DEF CompactedTo, G, e, kept, places, told, to

\* What is kept: as many entries as places and as places for prediction.
LEMMA KeptIs ==
  ASSUME NEW d, Sound(d)
  PROVE  LET n == Cardinality(Live(d))
             P == 1..Len(d.lemmas) \ Gone(d)
         IN  /\ n \in Nat /\ IsFiniteSet(Live(d)) /\ Live(d) \in SUBSET Nat
             /\ Gone(d) \in SUBSET (1..Len(d.lemmas)) /\ Len(d.lemmas) \in Nat
             /\ IsFiniteSet(P) /\ P \in SUBSET Nat /\ Cardinality(P) = n
             /\ \A i \in Live(d) : d.offsets[i].at \in P
             /\ \A a \in P : \E i \in Live(d) : d.offsets[i].at = a
             /\ IsFiniteSet(Foretold(d)) /\ Foretold(d) \in SUBSET Nat /\ Cardinality(Foretold(d)) = n
             /\ \A k \in Foretold(d) : \E i \in Live(d) : d.predicts[k] = d.offsets[i]
             /\ \A i \in Live(d) : \E k \in Foretold(d) : d.predicts[k] = d.offsets[i]
             /\ \A j, k \in Foretold(d) : d.predicts[j].at = d.predicts[k].at => j = k
<1> DEFINE m == Len(d.offsets)
           L == Live(d)
           Q == Foretold(d)
           G == Gone(d)
           P == 1..Len(d.lemmas) \ G
<1>0. d \in Dicts /\ Placed(d) /\ Predicted(d)
  BY DEF Sound
<1>1. m \in Nat /\ Entries(d) = 1..m /\ Len(d.lemmas) = m /\ Len(d.predicts) = m /\ L \subseteq 1..m
  BY <1>0, EntriesAre DEF Placed, Predicted, Entries
<1>2. /\ \A i \in 1..m : d.offsets[i].at \in 1..m
      /\ \A i, j \in 1..m : d.offsets[i].at = d.offsets[j].at => i = j
      /\ \A a \in 1..m : \E i \in 1..m : d.offsets[i].at = a
  <2>1. Entries(d) = 1..m
    BY <1>1
  <2> QED
    BY <1>0, <2>1 DEF Placed
<1>3. /\ \A k \in 1..m : \E i \in 1..m : d.predicts[k] = d.offsets[i]
      /\ \A i \in 1..m : \E k \in 1..m : d.predicts[k] = d.offsets[i]
      /\ \A j, k \in 1..m : d.predicts[j].at = d.predicts[k].at => j = k
  BY <1>0, <1>1 DEF Predicted
<1>4. /\ \A i \in 1..m : i \in L <=> ~d.offsets[i].removed
      /\ \A k \in 1..m : k \in Q <=> ~d.predicts[k].removed
      /\ Q \subseteq 1..m
  BY <1>1 DEF Live, Foretold
<1>5. G = {d.offsets[i].at : i \in 1..m \ L}
  BY <1>1 DEF Gone
<1>6. IsFiniteSet(1..m) /\ 1..m \in SUBSET Nat
  BY <1>1, FS_Interval
<1> HIDE DEF L, Q, G
<1>7. /\ IsFiniteSet(L) /\ L \in SUBSET Nat /\ IsFiniteSet(Q) /\ Q \in SUBSET Nat
      /\ Cardinality(L) \in Nat
  BY <1>1, <1>4, <1>6, FS_Subset, FS_CardinalityType
<1>8. G \in SUBSET (1..m)
  BY <1>2, <1>5
<1>9. IsFiniteSet(P) /\ P \in SUBSET Nat /\ P \subseteq 1..m
  <2>1. P \in SUBSET (1..m)
    BY <1>1
  <2> QED
    BY <1>6, <2>1, FS_Subset
<1>10. ASSUME NEW i \in L PROVE d.offsets[i].at \in P
  <2>1. i \in 1..m /\ d.offsets[i].at \in 1..m
    BY <1>1, <1>2 DEF L
  <2>2. \A j \in 1..m \ L : d.offsets[j].at # d.offsets[i].at
    BY <1>2, <2>1
  <2>3. d.offsets[i].at \notin G
    BY <1>5, <2>2
  <2> QED
    BY <1>1, <2>1, <2>3
<1>11. ASSUME NEW a \in P PROVE \E i \in L : d.offsets[i].at = a
  <2>1. PICK i \in 1..m : d.offsets[i].at = a
    BY <1>2, <1>9
  <2>2. a \notin G
    OBVIOUS
  <2>3. i \in L
    BY <1>5, <2>1, <2>2
  <2> QED
    BY <2>1, <2>3
<1>12. L \subseteq 1..m
  BY <1>1 DEF L
<1>13. Cardinality(P) = Cardinality(L)
  <2> DEFINE f == [i \in L |-> d.offsets[i].at]
  <2> HIDE DEF P
  <2>1. f \in [L -> P] /\ (\A a \in P : \E i \in L : f[i] = a) /\ (\A i, j \in L : f[i] = f[j] => i = j)
    BY <1>2, <1>10, <1>11, <1>12
  <2> HIDE DEF f
  <2> QED
    BY <1>7, <2>1, ReachedIsFinite
<1>14. ASSUME NEW k \in Q PROVE \E i \in L : d.predicts[k] = d.offsets[i]
  <2>1. PICK i \in 1..m : d.predicts[k] = d.offsets[i]
    BY <1>3, <1>4
  <2>2. i \in L
    BY <1>4, <2>1
  <2> QED
    BY <2>1, <2>2
<1>15. ASSUME NEW i \in L PROVE \E k \in Q : d.predicts[k] = d.offsets[i]
  <2>1. PICK k \in 1..m : d.predicts[k] = d.offsets[i]
    BY <1>3, <1>12
  <2>2. k \in Q
    BY <1>4, <1>12, <2>1
  <2> QED
    BY <2>1, <2>2
<1>16. \A j, k \in Q : d.predicts[j].at = d.predicts[k].at => j = k
  BY <1>3, <1>4
<1>17. Cardinality(Q) = Cardinality(L)
  <2> DEFINE f == [k \in Q |-> CHOOSE i \in L : d.predicts[k] = d.offsets[i]]
  <2>1. ASSUME NEW k \in Q PROVE f[k] \in L /\ d.predicts[k] = d.offsets[f[k]]
    BY <1>14
  <2>2. f = [k \in Q |-> f[k]]
    OBVIOUS
  <2> HIDE DEF f
  <2>3. f \in [Q -> L]
    BY <2>1, <2>2
  <2>4. \A j, k \in Q : f[j] = f[k] => j = k
    BY <1>16, <2>1
  <2>5. ASSUME NEW i \in L PROVE \E k \in Q : f[k] = i
    <3>1. PICK k \in Q : d.predicts[k] = d.offsets[i]
      BY <1>15
    <3>2. f[k] \in 1..m /\ i \in 1..m /\ d.offsets[f[k]] = d.offsets[i]
      BY <1>12, <2>1, <3>1
    <3>3. f[k] = i
      BY <1>2, <3>2
    <3> QED
      BY <3>3
  <2> QED
    BY <1>7, <2>3, <2>4, <2>5, ReachedIsFinite
<1> QED
  BY <1>1, <1>7, <1>8, <1>9, <1>10, <1>11, <1>13, <1>14, <1>15, <1>16, <1>17 DEF L, Q, G

\* A compacted dictionary has the live entries in their order and no others.
LEMMA DefragmentedIs ==
  ASSUME NEW d, Sound(d)
  PROVE  LET e == Defragmented(d)
             n == Cardinality(Live(d))
         IN  /\ Sound(e) /\ n \in Nat /\ Entries(e) = 1..n /\ Live(e) = 1..n /\ Len(e.lemmas) = n
             /\ e.limit = d.limit
             /\ \A k \in 1..n : /\ Kept(d)[k] \in Live(d) /\ LemmaAt(e, k) = LemmaAt(d, Kept(d)[k])
                                /\ e.scores[k] = d.scores[Kept(d)[k]]
             /\ \A i \in Live(d) : \E k \in 1..n : Kept(d)[k] = i
<1> DEFINE e == Defragmented(d)
           L == Live(d)
           Q == Foretold(d)
           G == Gone(d)
           P == 1..Len(d.lemmas) \ G
           n == Cardinality(L)
           kept == Kept(d)
           places == KeptPlaces(d)
           told == Ascending(Foretold(d))
<1>0. d \in Dicts /\ Placed(d) /\ LiveOnce(d) /\ Ordered(d)
  BY DEF Sound
<1>1. /\ n \in Nat /\ IsFiniteSet(L) /\ L \in SUBSET Nat
      /\ G \in SUBSET (1..Len(d.lemmas)) /\ Len(d.lemmas) \in Nat
      /\ IsFiniteSet(P) /\ P \in SUBSET Nat /\ Cardinality(P) = n
      /\ \A i \in L : d.offsets[i].at \in P
      /\ \A x \in P : \E i \in L : d.offsets[i].at = x
      /\ IsFiniteSet(Q) /\ Q \in SUBSET Nat /\ Cardinality(Q) = n
      /\ \A k \in Q : \E i \in L : d.predicts[k] = d.offsets[i]
      /\ \A i \in L : \E k \in Q : d.predicts[k] = d.offsets[i]
      /\ \A j, k \in Q : d.predicts[j].at = d.predicts[k].at => j = k
  BY KeptIs
<1>2. L \subseteq Entries(d) /\ \A i \in Entries(d) : /\ LemmaAt(d, i) = d.lemmas[d.offsets[i].at]
                                                    /\ LemmaAt(d, i) \in Lemmas /\ Sig(d, i) \in Sigs
  BY <1>0, EntriesAre
<1>3. NewPlacesAre(G, P)
  <2>1. G \in SUBSET (1..Len(d.lemmas)) /\ Len(d.lemmas) \in Nat
    BY <1>1
  <2> HIDE DEF G
  <2> QED
    BY <2>1, NewPlaceIs
<1>4. /\ Len(kept) = n /\ (\A k \in 1..n : kept[k] \in L)
      /\ (\A j, k \in 1..n : j < k => kept[j] < kept[k])
      /\ \A i \in L : \E k \in 1..n : kept[k] = i
  <2>1. kept = Ascending(L)
    BY DEF Kept
  <2>2. L \in SUBSET Nat /\ IsFiniteSet(L)
    BY <1>1
  <2> HIDE DEF L, kept
  <2>3. /\ Len(Ascending(L)) = n /\ Ascending(L) \in [1..n -> L]
        /\ (\A j, k \in 1..n : j < k => Ascending(L)[j] < Ascending(L)[k])
        /\ \A i \in L : \E k \in 1..n : Ascending(L)[k] = i
    BY <2>2, AscendingIs
  <2> QED
    BY <2>1, <2>3
<1>5. /\ Len(places) = n /\ (\A k \in 1..n : places[k] \in P) /\ \A i \in P : \E k \in 1..n : places[k] = i
  <2> DEFINE R == P
  <2>1. Cardinality(R) = n /\ R \in SUBSET Nat /\ IsFiniteSet(R) /\ places = Ascending(R)
    BY <1>1 DEF KeptPlaces
  <2>2. R = P
    OBVIOUS
  <2> HIDE DEF R
  <2>3. /\ Len(places) = n /\ (\A k \in 1..n : places[k] \in R) /\ \A i \in R : \E k \in 1..n : places[k] = i
    BY <2>1, AscendingIs
  <2> QED
    BY <2>2, <2>3
<1>6. /\ Len(told) = n /\ (\A k \in 1..n : told[k] \in Q) /\ \A i \in Q : \E k \in 1..n : told[k] = i
  <2>1. Q \in SUBSET Nat /\ IsFiniteSet(Q) /\ Cardinality(Q) = n /\ told = Ascending(Q)
    BY <1>1
  <2> HIDE DEF Q, told, n
  <2> QED
    BY <2>1, AscendingIs
<1>7. /\ \A j, k \in 1..n : kept[j] = kept[k] => j = k
      /\ \A j, k \in 1..n : told[j] = told[k] => j = k
      /\ \A j, k \in 1..n : places[j] = places[k] => j = k
  <2>1. \A j, k \in 1..n : kept[j] = kept[k] => j = k
    BY <1>1, AscendingOnce DEF Kept
  <2>2. \A j, k \in 1..n : told[j] = told[k] => j = k
    <3> HIDE DEF Q
    <3> QED
      BY <1>1, AscendingOnce DEF Q
  <2>3. \A j, k \in 1..n : places[j] = places[k] => j = k
    BY <1>1, AscendingOnce DEF KeptPlaces
  <2> QED
    BY <2>1, <2>2, <2>3
<1>8. CompactedTo(d, e, n)
  <2>1. Len(Kept(d)) = n /\ Len(KeptPlaces(d)) = n /\ Len(Ascending(Foretold(d))) = n
    BY <1>4, <1>5, <1>6
  <2> HIDE DEF n
  <2> QED
    BY <1>0, <1>1, <2>1, CompactedTables
<1> HIDE DEF e, L, Q, G, P, n, kept, places, told
<1>24. n \in Nat
  BY <1>1 DEF n, L
<1>9. \A x \in P : NewPlace(G, x) \in 1..n /\ places[NewPlace(G, x)] = x
  BY <1>1, <1>3 DEF NewPlacesAre, places, KeptPlaces, P, G
<1>10. \A k \in 1..n : /\ e.lemmas[k] = d.lemmas[places[k]]
                       /\ e.offsets[k] = [at |-> NewPlace(G, d.offsets[kept[k]].at), removed |-> FALSE]
                       /\ e.predicts[k] = [at |-> NewPlace(G, d.predicts[told[k]].at), removed |-> FALSE]
                       /\ e.scores[k] = d.scores[kept[k]]
                       /\ e.ids[k] = k /\ e.byId[k] = e.offsets[k].at
  BY <1>8, Zenon DEF CompactedTo, G, kept, places, told
<1>11. ASSUME NEW k \in 1..n
       PROVE  /\ e.offsets[k] = [at |-> e.offsets[k].at, removed |-> FALSE]
              /\ e.offsets[k].at \in 1..n /\ places[e.offsets[k].at] = d.offsets[kept[k]].at
              /\ e.offsets[k].removed = FALSE
              /\ e.predicts[k] = [at |-> e.predicts[k].at, removed |-> FALSE]
              /\ e.predicts[k].at \in 1..n /\ places[e.predicts[k].at] = d.predicts[told[k]].at
  <2> DEFINE x == d.offsets[kept[k]].at
             y == d.predicts[told[k]].at
  <2>1. x \in P
    BY <1>1, <1>4
  <2>2. y \in P
    <3>1. PICK i \in L : d.predicts[told[k]] = d.offsets[i]
      BY <1>1, <1>6
    <3> QED
      BY <1>1, <3>1
  <2>3. e.offsets[k] = [at |-> NewPlace(G, x), removed |-> FALSE]
    BY <1>10
  <2>4. e.predicts[k] = [at |-> NewPlace(G, y), removed |-> FALSE]
    BY <1>10
  <2> HIDE DEF x, y
  <2>5. e.offsets[k].at = NewPlace(G, x) /\ e.offsets[k].removed = FALSE /\ e.predicts[k].at = NewPlace(G, y)
    BY <2>3, <2>4
  <2>6. NewPlace(G, x) \in 1..n /\ places[NewPlace(G, x)] = x /\ NewPlace(G, y) \in 1..n /\ places[NewPlace(G, y)] = y
    BY <1>9, <2>1, <2>2
  <2> QED
    BY <2>3, <2>4, <2>5, <2>6 DEF x, y
<1>12. /\ IsTable(e.lemmas, n) /\ IsTable(e.offsets, n) /\ IsTable(e.predicts, n) /\ IsTable(e.scores, n)
       /\ IsTable(e.ids, n) /\ IsTable(e.byId, n)
       /\ Len(e.offsets) = n /\ Len(e.predicts) = n /\ Len(e.lemmas) = n /\ Len(e.scores) = n
       /\ Len(e.ids) = n /\ Len(e.byId) = n /\ e.limit = d.limit
  BY <1>8 DEF CompactedTo, IsTable
<1>13. Entries(e) = 1..n /\ Live(e) = 1..n
  <2>1. Entries(e) = 1..n
    BY <1>12 DEF Entries
  <2> QED
    BY <1>11, <2>1 DEF Live
<1>14. \A k \in 1..n : LemmaAt(e, k) = LemmaAt(d, kept[k]) /\ Sig(e, k) = Sig(d, kept[k])
  <2> SUFFICES ASSUME NEW k \in 1..n PROVE LemmaAt(e, k) = LemmaAt(d, kept[k])
    BY DEF Sig
  <2>1. e.offsets[k].at \in 1..n /\ places[e.offsets[k].at] = d.offsets[kept[k]].at
    BY <1>11
  <2> DEFINE x == e.offsets[k].at
  <2>3. e.lemmas[x] = d.lemmas[places[x]]
    <3> HIDE DEF x
    <3> QED
      BY <1>10, <2>1 DEF x
  <2>2. e.lemmas[e.offsets[k].at] = d.lemmas[d.offsets[kept[k]].at]
    BY <2>1, <2>3
  <2> QED
    BY <2>2 DEF LemmaAt
<1>15. \A j, k \in 1..n : e.offsets[j].at = e.offsets[k].at => j = k
  <2> SUFFICES ASSUME NEW j \in 1..n, NEW k \in 1..n, e.offsets[j].at = e.offsets[k].at PROVE j = k
    OBVIOUS
  <2>0. places[e.offsets[j].at] = d.offsets[kept[j]].at /\ places[e.offsets[k].at] = d.offsets[kept[k]].at
    BY <1>11
  <2>1. d.offsets[kept[j]].at = d.offsets[kept[k]].at
    BY <2>0
  <2>2. kept[j] \in Entries(d) /\ kept[k] \in Entries(d)
    BY <1>2, <1>4
  <2>3. kept[j] = kept[k]
    BY <1>0, <2>1, <2>2 DEF Placed
  <2> QED
    BY <1>7, <2>3
<1>16. \A x \in 1..n : \E k \in 1..n : e.offsets[k].at = x
  <2> SUFFICES ASSUME NEW x \in 1..n PROVE \E k \in 1..n : e.offsets[k].at = x
    OBVIOUS
  <2>1. PICK i \in L : d.offsets[i].at = places[x]
    BY <1>1, <1>5
  <2>2. PICK k \in 1..n : kept[k] = i
    BY <1>4
  <2>3. e.offsets[k].at \in 1..n /\ places[e.offsets[k].at] = places[x]
    BY <1>11, <2>1, <2>2
  <2>4. e.offsets[k].at = x
    BY <1>7, <2>3
  <2> QED
    BY <2>4
<1>17. Placed(e)
  <2>1. \A k \in 1..n : e.offsets[k].at \in 1..n
    BY <1>11
  <2>4. Len(e.lemmas) = Len(e.offsets) /\ Len(e.scores) = Len(e.offsets)
    BY <1>12
  <2> QED
    BY <1>13, <1>15, <1>16, <2>1, <2>4 DEF Placed
<1>18. Numbered(e)
  <2>1. \A k \in 1..n : e.ids[k] \in 1..n /\ e.byId[e.ids[k]] = e.offsets[k].at
    BY <1>10
  <2>2. \A x \in 1..n : \E k \in 1..n : e.ids[k] = x
    BY <1>10
  <2>3. Len(e.ids) = Len(e.offsets) /\ Len(e.byId) = Len(e.offsets)
    BY <1>12
  <2> QED
    BY <1>13, <2>1, <2>2, <2>3 DEF Numbered
<1>19. Predicted(e)
  <2>0. ASSUME NEW j \in 1..n, NEW k \in 1..n, d.predicts[told[k]] = d.offsets[kept[j]]
        PROVE  e.predicts[k] = e.offsets[j]
    <3>0. /\ e.predicts[k] = [at |-> NewPlace(G, d.predicts[told[k]].at), removed |-> FALSE]
          /\ e.offsets[j] = [at |-> NewPlace(G, d.offsets[kept[j]].at), removed |-> FALSE]
      BY <1>10, Zenon
    <3>1. e.predicts[k].at = e.offsets[j].at
      BY <2>0, <3>0
    <3> QED
      BY <1>11, <3>1
  <2>1. ASSUME NEW k \in 1..n PROVE \E j \in 1..n : e.predicts[k] = e.offsets[j]
    <3>1. PICK i \in L : d.predicts[told[k]] = d.offsets[i]
      BY <1>1, <1>6
    <3>2. PICK j \in 1..n : kept[j] = i
      BY <1>4
    <3> QED
      BY <2>0, <3>1, <3>2
  <2>2. ASSUME NEW j \in 1..n PROVE \E k \in 1..n : e.predicts[k] = e.offsets[j]
    <3>1. PICK i \in Q : d.predicts[i] = d.offsets[kept[j]]
      BY <1>1, <1>4
    <3>2. PICK k \in 1..n : told[k] = i
      BY <1>6
    <3> QED
      BY <2>0, <3>1, <3>2
  <2>3. ASSUME NEW j \in 1..n, NEW k \in 1..n, e.predicts[j].at = e.predicts[k].at PROVE j = k
    <3>0. places[e.predicts[j].at] = d.predicts[told[j]].at /\ places[e.predicts[k].at] = d.predicts[told[k]].at
      BY <1>11
    <3>1. d.predicts[told[j]].at = d.predicts[told[k]].at
      BY <2>3, <3>0
    <3>2. told[j] = told[k]
      BY <1>1, <1>6, <3>1
    <3> QED
      BY <1>7, <3>2
  <2>4. Len(e.predicts) = Len(e.offsets)
    BY <1>12
  <2> QED
    BY <1>13, <2>1, <2>2, <2>3, <2>4 DEF Predicted
<1>20. LiveOnce(e)
  <2> SUFFICES ASSUME NEW j \in 1..n, NEW k \in 1..n, LemmaAt(e, j) = LemmaAt(e, k) PROVE j = k
    BY <1>13 DEF LiveOnce
  <2>1. LemmaAt(d, kept[j]) = LemmaAt(d, kept[k])
    BY <1>14
  <2>2. kept[j] = kept[k]
    BY <1>0, <1>4, <2>1 DEF LiveOnce, L
  <2> QED
    BY <1>7, <2>2
<1>21. Ordered(e)
  <2> SUFFICES ASSUME NEW j \in 1..n, NEW k \in 1..n, j < k PROVE ~Lower(Sig(e, k), Sig(e, j))
    BY <1>13 DEF Ordered
  <2>1. kept[j] < kept[k] /\ kept[j] \in Entries(d) /\ kept[k] \in Entries(d)
    BY <1>2, <1>4
  <2>2. ~Lower(Sig(d, kept[k]), Sig(d, kept[j]))
    BY <1>0, <2>1 DEF Ordered
  <2> QED
    BY <1>14, <2>2
<1>22. e \in Dicts
  <2>0. \A t : \A X : IsTable(t, n) /\ (\A k \in 1..n : t[k] \in X) => t \in Seq(X)
    BY <1>1 DEF IsTable, n, L
  <2>1. e.lemmas \in Seq(Lemmas)
    <3>1. ASSUME NEW k \in 1..n PROVE e.lemmas[k] \in Lemmas
      <4>1. PICK i \in L : d.offsets[i].at = places[k]
        BY <1>1, <1>5
      <4>2. d.lemmas[places[k]] \in Lemmas
        BY <1>2, <4>1
      <4> QED
        BY <1>10, <4>2
    <3> QED
      BY <1>12, <2>0, <3>1
  <2>2. e.offsets \in Seq(Place)
    <3>1. ASSUME NEW k \in 1..n PROVE e.offsets[k] \in Place
      <4>0. e.offsets[k].at \in 1..n
        BY <1>11
      <4>1. e.offsets[k].at \in Nat
        BY <1>24, <4>0
      <4>2. [at |-> e.offsets[k].at, removed |-> FALSE] \in Place
        BY <4>1 DEF Place
      <4> QED
        BY <1>11, <4>2
    <3> QED
      BY <1>12, <2>0, <3>1
  <2>3. e.predicts \in Seq(Place)
    <3>1. ASSUME NEW k \in 1..n PROVE e.predicts[k] \in Place
      <4>0. e.predicts[k].at \in 1..n
        BY <1>11
      <4>1. e.predicts[k].at \in Nat
        BY <1>24, <4>0
      <4>2. [at |-> e.predicts[k].at, removed |-> FALSE] \in Place
        BY <4>1 DEF Place
      <4> QED
        BY <1>11, <4>2
    <3> QED
      BY <1>12, <2>0, <3>1
  <2>4. e.scores \in Seq(1..MaxFreq)
    <3>1. ASSUME NEW k \in 1..n PROVE e.scores[k] \in 1..MaxFreq
      <4>1. kept[k] \in 1..Len(d.scores) /\ d.scores \in Seq(1..MaxFreq)
        BY <1>0, <1>2, <1>4 DEF Placed, Entries, Dicts
      <4> DEFINE x == kept[k]
      <4>2. x \in 1..Len(d.scores)
        BY <4>1
      <4> HIDE DEF x
      <4>3. d.scores[x] \in 1..MaxFreq
        <5> DEFINE F == 1..MaxFreq
        <5>1. d.scores \in Seq(F)
          BY <4>1
        <5> HIDE DEF F
        <5>2. d.scores[x] \in F
          BY <4>2, <5>1, ElementOfSeq
        <5> QED
          BY <5>2 DEF F
      <4> QED
        BY <1>10, <4>3 DEF x
    <3> QED
      BY <1>12, <2>0, <3>1
  <2>5. e.ids \in Seq(Nat)
    <3>1. ASSUME NEW k \in 1..n PROVE e.ids[k] \in Nat
      <4>1. e.ids[k] = k
        BY <1>10, Zenon
      <4> QED
        BY <1>24, <4>1
    <3> QED
      BY <1>12, <2>0, <3>1
  <2>6. e.byId \in Seq(Nat)
    <3>1. ASSUME NEW k \in 1..n PROVE e.byId[k] \in Nat
      <4>1. e.byId[k] = e.offsets[k].at /\ e.offsets[k].at \in 1..n
        BY <1>10, <1>11
      <4> QED
        BY <1>24, <4>1
    <3> QED
      BY <1>12, <2>0, <3>1
  <2>7. e.syncs \in Seq(Int)
    <3>0. e.syncs = [k \in 1..Len(d.syncs) |-> IF d.syncs[k] \in G THEN d.syncs[k] ELSE NewPlace(G, d.syncs[k])]
      BY <1>8 DEF CompactedTo, G
    <3>1. d.syncs \in Seq(Int)
      BY <1>0 DEF Dicts
    <3>2. ASSUME NEW k \in 1..Len(d.syncs)
          PROVE  (IF d.syncs[k] \in G THEN d.syncs[k] ELSE NewPlace(G, d.syncs[k])) \in Int
      <4>1. d.syncs[k] \in Int
        BY <3>1
      <4> QED
        BY <1>3, <4>1 DEF NewPlacesAre
    <3>3. Len(d.syncs) \in Nat
      BY <3>1
    <3> QED
      BY <3>0, <3>2, <3>3
  <2>8. e.limit \in Nat
    BY <1>0, <1>12 DEF Dicts
  <2>9. e = [lemmas |-> e.lemmas, offsets |-> e.offsets, predicts |-> e.predicts, scores |-> e.scores,
             ids |-> e.ids, byId |-> e.byId, syncs |-> e.syncs, limit |-> e.limit]
    BY <1>8 DEF CompactedTo
  <2> QED
    BY <2>1, <2>2, <2>3, <2>4, <2>5, <2>6, <2>7, <2>8, <2>9 DEF Dicts
<1>23. Sound(e)
  BY <1>17, <1>18, <1>19, <1>20, <1>21, <1>22 DEF Sound
<1> QED
  BY <1>1, <1>4, <1>10, <1>12, <1>13, <1>14, <1>23 DEF e, L, n, kept

-----------------------------------------------------------------------------
(* Giving up entries at the limit.                                            *)

IsReclaim(order, f) ==
  f = [k \in 0..Len(order) |-> IF k = 0 THEN dict ELSE Removed(f[k - 1], order[k])]

LEMMA ReclaimExists ==
  ASSUME NEW order, Len(order) \in Nat
  PROVE  \E f : IsReclaim(order, f)
<1> DEFINE m == Len(order)
           F(f, k) == IF k = 0 THEN dict ELSE Removed(f[k - 1], order[k])
           Upto(f, k) == f = [j \in 0..k |-> f[j]] /\ \A j \in 0..k : f[j] = F(f, j)
           A == {k \in Nat : \E f : Upto(f, k)}
<1>1. 0 \in A
  <2> DEFINE f == [j \in 0..0 |-> dict]
  <2>1. f = [j \in 0..0 |-> f[j]] /\ \A j \in 0..0 : f[j] = F(f, j)
    OBVIOUS
  <2> HIDE DEF f, F
  <2> QED
    BY <2>1
<1>2. ASSUME NEW k \in A PROVE k + 1 \in A
  <2>1. PICK f : Upto(f, k)
    OBVIOUS
  <2> DEFINE g == [j \in 0..k + 1 |-> IF j = k + 1 THEN Removed(f[k], order[k + 1]) ELSE f[j]]
  <2>2. k \in Nat
    OBVIOUS
  <2>3. ASSUME NEW j \in 0..k + 1 PROVE g[j] = F(g, j)
    <3>1. CASE j = k + 1
      <4>1. g[j] = Removed(f[k], order[k + 1]) /\ g[k] = f[k] /\ j # 0 /\ j - 1 = k
        BY <2>2, <3>1
      <4> HIDE DEF g
      <4> QED
        BY <3>1, <4>1
    <3>2. CASE j # k + 1
      <4>1. j \in 0..k /\ g[j] = f[j] /\ (j # 0 => j - 1 \in 0..k /\ j - 1 \in 0..k + 1 /\ j - 1 # k + 1)
        BY <2>2, <3>2
      <4>2. j # 0 => g[j - 1] = f[j - 1]
        BY <4>1
      <4>3. f[j] = F(f, j)
        BY <2>1, <4>1
      <4> HIDE DEF g
      <4> QED
        BY <4>1, <4>2, <4>3
    <3> QED
      BY <3>1, <3>2
  <2>4. g = [j \in 0..k + 1 |-> g[j]] /\ k + 1 \in Nat
    BY <2>2
  <2> HIDE DEF g, F
  <2> QED
    BY <2>3, <2>4
<1>3. A = Nat
  <2> HIDE DEF A
  <2>1. A \in SUBSET Nat
    BY DEF A
  <2> QED
    BY <1>1, <1>2, <2>1, Induction
<1>4. PICK f : Upto(f, m)
  BY <1>3
<1>5. f = [k \in 0..m |-> F(f, k)]
  BY <1>4
<1> QED
  BY <1>5 DEF IsReclaim

LEMMA ReclaimedIs ==
  ASSUME NEW order, Len(order) \in Nat, \A k \in 1..Len(order) : order[k] \in Entries(dict), Sound(dict)
  PROVE  LET d == Reclaimed(order)
         IN  /\ Sound(d) /\ Entries(d) = Entries(dict) /\ Live(d) \subseteq Live(dict)
             /\ \A i \in Entries(dict) : LemmaAt(d, i) = LemmaAt(dict, i)
             /\ d.scores = dict.scores /\ d.lemmas = dict.lemmas /\ d.limit = dict.limit
<1>0. PICK f : IsReclaim(order, f) /\ Reclaimed(order) = f[Len(order)]
  <2>1. \E f : IsReclaim(order, f)
    BY ReclaimExists
  <2> QED
    BY <2>1, Zenon DEF Reclaimed, IsReclaim
<1>1. f = [k \in 0..Len(order) |-> IF k = 0 THEN dict ELSE Removed(f[k - 1], order[k])]
  BY <1>0 DEF IsReclaim
<1> DEFINE m == Len(order)
           Good(d) == /\ Sound(d) /\ Entries(d) = Entries(dict) /\ Live(d) \subseteq Live(dict)
                      /\ \A i \in Entries(dict) : LemmaAt(d, i) = LemmaAt(dict, i)
                      /\ d.scores = dict.scores /\ d.lemmas = dict.lemmas /\ d.limit = dict.limit
           A == {k \in Nat : k <= m => Good(f[k])}
<1>2. 0 \in A
  <2>1. f[0] = dict
    BY <1>1
  <2> QED
    BY <2>1
<1>3. ASSUME NEW k \in A PROVE k + 1 \in A
  <2> SUFFICES ASSUME k + 1 <= m PROVE Good(f[k + 1])
    OBVIOUS
  <2>1. k \in Nat /\ k <= m /\ k + 1 \in 0..m /\ k + 1 \in 1..m /\ k + 1 - 1 = k /\ k + 1 # 0
    OBVIOUS
  <2>2. f[k + 1] = Removed(f[k], order[k + 1])
    BY <1>1, <2>1
  <2>3. Good(f[k])
    BY <2>1
  <2> DEFINE d == f[k]
             i == order[k + 1]
  <2>4. i \in Entries(d) /\ Sound(d)
    BY <2>1, <2>3
  <2> HIDE DEF d, i
  <2>5. /\ Sound(Removed(d, i)) /\ Entries(Removed(d, i)) = Entries(d)
        /\ Live(Removed(d, i)) = Live(d) \ {i}
        /\ \A j \in Entries(d) : LemmaAt(Removed(d, i), j) = LemmaAt(d, j)
        /\ Removed(d, i).scores = d.scores /\ Removed(d, i).lemmas = d.lemmas /\ Removed(d, i).limit = d.limit
    BY <2>4, RemovedIs
  <2> QED
    BY <2>2, <2>3, <2>5 DEF d, i
<1>4. A = Nat
  <2> HIDE DEF A
  <2>1. A \in SUBSET Nat
    BY DEF A
  <2> QED
    BY <1>2, <1>3, <2>1, Induction
<1>5. Good(f[m])
  <2> HIDE DEF Good
  <2> QED
    BY <1>4
<1> QED
  BY <1>0, <1>5

-----------------------------------------------------------------------------
(* The file.                                                                  *)

\* The file holds what the dirty state does not name, and the beginning of the
\* block, up to what was added since it was loaded.
Behind(f, d, s, r) ==
  /\ f \in Dicts /\ s \in SYNC..LEMMA_DIRTY /\ r \in 0..PreAlloc
  /\ s < SCORE_DIRTY => f.scores = d.scores
  /\ s < OFFSET_DIRTY => f.offsets = d.offsets /\ f.predicts = d.predicts
  /\ s < LEMMA_DIRTY => r = PreAlloc
  /\ Len(f.lemmas) = Len(d.lemmas) - (PreAlloc - r)
  /\ \A k \in 1..Len(f.lemmas) : f.lemmas[k] = d.lemmas[k]

\* A file of a dictionary: all its tables but the ids.
Holds(f, d) ==
  /\ f \in Dicts /\ f.lemmas = d.lemmas /\ f.offsets = d.offsets /\ f.predicts = d.predicts
  /\ f.scores = d.scores

LEMMA WrittenBackIs ==
  ASSUME Sound(dict), Behind(file, dict, state, room)
  PROVE  Holds(WrittenBack(dict, state), dict)
<1> DEFINE old == Len(dict.lemmas) - (PreAlloc - room)
           f == WrittenBack(dict, state)
<1>0. /\ dict \in Dicts /\ file \in Dicts /\ state \in SYNC..LEMMA_DIRTY /\ room \in 0..PreAlloc
      /\ Len(file.lemmas) = old /\ \A k \in 1..old : file.lemmas[k] = dict.lemmas[k]
  BY DEF Sound, Behind
<1>1. /\ dict.lemmas \in Seq(Lemmas) /\ file.lemmas \in Seq(Lemmas)
      /\ PreAlloc \in Nat /\ PreAlloc - room \in Nat
  BY <1>0, UserDictAssumption DEF Dicts
<1>2. Len(dict.lemmas) \in Nat /\ Len(file.lemmas) \in Nat /\ old \in Nat /\ old <= Len(dict.lemmas)
  BY <1>0, <1>1
<1>3. SubSeq(file.lemmas, 1, old) \o SubSeq(dict.lemmas, old + 1, Len(dict.lemmas)) = dict.lemmas
  <2> DEFINE a == SubSeq(file.lemmas, 1, old)
             b == SubSeq(dict.lemmas, old + 1, Len(dict.lemmas))
  <2> HIDE DEF old
  <2>1. a \in Seq(Lemmas) /\ Len(a) = old /\ \A k \in 1..old : a[k] = file.lemmas[k]
    BY <1>0, <1>1, <1>2
  <2>2. /\ b \in Seq(Lemmas) /\ Len(b) = Len(dict.lemmas) - old
        /\ \A k \in 1..Len(dict.lemmas) - old : b[k] = dict.lemmas[old + k]
    BY <1>1, <1>2
  <2> HIDE DEF a, b
  <2>3. a \o b \in Seq(Lemmas) /\ Len(a \o b) = Len(dict.lemmas)
    <3>0. a \in Seq(Lemmas) /\ b \in Seq(Lemmas)
      BY <2>1, <2>2
    <3>1. a \o b \in Seq(Lemmas) /\ Len(a \o b) = Len(a) + Len(b)
      BY <3>0
    <3>2. Len(a) + Len(b) = Len(dict.lemmas)
      BY <1>2, <2>1, <2>2
    <3> QED
      BY <3>1, <3>2
  <2>4. ASSUME NEW k \in 1..Len(dict.lemmas) PROVE (a \o b)[k] = dict.lemmas[k]
    <3>1. CASE k <= old
      BY <1>0, <1>2, <2>1, <2>2, <3>1
    <3>2. CASE ~(k <= old)
      <4>1. (a \o b)[k] = b[k - old]
        BY <1>2, <2>1, <2>2, <3>2
      <4>2. k - old \in 1..Len(dict.lemmas) - old /\ old + (k - old) = k
        BY <1>2, <3>2
      <4> QED
        BY <2>2, <4>1, <4>2
    <3> QED
      BY <3>1, <3>2
  <2> DEFINE c == a \o b
  <2>5. c \in Seq(Lemmas) /\ Len(c) = Len(dict.lemmas) /\ \A k \in 1..Len(dict.lemmas) : c[k] = dict.lemmas[k]
    BY <2>3, <2>4
  <2> HIDE DEF c
  <2>6. c = dict.lemmas
    BY <1>1, <2>5
  <2> QED
    BY <2>6 DEF a, b, c, old
<1>4. CASE state <= SYNC
  <2>1. state = SYNC
    BY <1>0, <1>4 DEF SYNC, LEMMA_DIRTY
  <2>2. f = file
    BY <1>4 DEF WrittenBack
  <2>3. room = PreAlloc /\ file.scores = dict.scores /\ file.offsets = dict.offsets /\ file.predicts = dict.predicts
    BY <2>1 DEF Behind, SYNC, SCORE_DIRTY, OFFSET_DIRTY, LEMMA_DIRTY
  <2>4. file.lemmas = dict.lemmas
    <3>1. old = Len(dict.lemmas)
      BY <1>1, <1>2, <2>3
    <3>2. Len(file.lemmas) = Len(dict.lemmas) /\ \A k \in 1..Len(dict.lemmas) : file.lemmas[k] = dict.lemmas[k]
      BY <1>0, <3>1
    <3> QED
      BY <1>1, <3>2
  <2> QED
    BY <1>0, <2>2, <2>3, <2>4 DEF Holds
<1>5. CASE ~(state <= SYNC)
  <2> DEFINE blk == CASE state = DEFRAGMENTED -> dict.lemmas
                      [] state = LEMMA_DIRTY ->
                           LET o == Len(dict.lemmas) - (PreAlloc - room)
                           IN  SubSeq(file.lemmas, 1, o) \o SubSeq(dict.lemmas, o + 1, Len(dict.lemmas))
                      [] OTHER -> file.lemmas
             off == IF state >= OFFSET_DIRTY THEN dict.offsets ELSE file.offsets
             pre == IF state >= OFFSET_DIRTY THEN dict.predicts ELSE file.predicts
             sco == IF state >= SCORE_DIRTY THEN dict.scores ELSE file.scores
  <2>1. f = [dict EXCEPT !.ids = <<>>, !.byId = <<>>, !.lemmas = blk, !.offsets = off,
                         !.predicts = pre, !.scores = sco]
    BY <1>5 DEF WrittenBack
  <2>2. blk = dict.lemmas
    <3>1. CASE state = LEMMA_DIRTY
      BY <1>3, <3>1 DEF LEMMA_DIRTY, DEFRAGMENTED
    <3>2. CASE state # LEMMA_DIRTY
      <4>1. state < LEMMA_DIRTY /\ state # DEFRAGMENTED
        BY <1>0, <3>2 DEF SYNC, LEMMA_DIRTY, DEFRAGMENTED
      <4>2. old = Len(dict.lemmas)
        BY <1>1, <1>2, <4>1 DEF Behind
      <4>3. blk = file.lemmas
        BY <3>2, <4>1
      <4>4. Len(file.lemmas) = Len(dict.lemmas) /\ \A k \in 1..Len(dict.lemmas) : file.lemmas[k] = dict.lemmas[k]
        BY <1>0, <4>2
      <4> QED
        BY <1>1, <4>3, <4>4
    <3> QED
      BY <3>1, <3>2
  <2>3. off = dict.offsets /\ pre = dict.predicts /\ sco = dict.scores
    BY <1>0 DEF Behind, SYNC, SCORE_DIRTY, OFFSET_DIRTY, LEMMA_DIRTY
  <2> HIDE DEF blk, off, pre, sco, f
  <2>4. f = [dict EXCEPT !.ids = <<>>, !.byId = <<>>, !.lemmas = dict.lemmas, !.offsets = dict.offsets,
                         !.predicts = dict.predicts, !.scores = dict.scores]
    BY <2>1, <2>2, <2>3
  <2>5. <<>> \in Seq(Nat)
    OBVIOUS
  <2> QED
    BY <1>0, <2>4, <2>5 DEF Holds, Dicts, f
<1> QED
  BY <1>4, <1>5

LEMMA NoLemmasIs == Sound(NoLemmas) /\ Entries(NoLemmas) = {} /\ Live(NoLemmas) = {}
<1>1. /\ NoLemmas.lemmas = <<>> /\ NoLemmas.offsets = <<>> /\ NoLemmas.predicts = <<>> /\ NoLemmas.scores = <<>>
      /\ NoLemmas.ids = <<>> /\ NoLemmas.byId = <<>> /\ NoLemmas.syncs = <<>> /\ NoLemmas.limit = 0
  BY DEF NoLemmas
<1>2. NoLemmas \in Dicts
  BY DEF NoLemmas, Dicts
<1>3. Len(<<>>) = 0 /\ 1..0 = {}
  OBVIOUS
<1>4. Entries(NoLemmas) = {}
  BY <1>1, <1>3 DEF Entries
<1>5. Live(NoLemmas) = {}
  BY <1>4 DEF Live
<1>6. Placed(NoLemmas) /\ Numbered(NoLemmas) /\ Predicted(NoLemmas)
  BY <1>1, <1>4 DEF Placed, Numbered, Predicted
<1>7. LiveOnce(NoLemmas) /\ Ordered(NoLemmas)
  BY <1>4, <1>5 DEF LiveOnce, Ordered
<1> QED
  BY <1>2, <1>4, <1>5, <1>6, <1>7 DEF Sound

\* What flush_cache leaves in the file is the dictionary or, without the queue,
\* possibly nothing.
LEMMA FlushedIs ==
  ASSUME Sound(dict), Behind(file, dict, state, room), NEW queueTaken \in BOOLEAN
  PROVE  \E d \in {dict, NoLemmas} : /\ Holds(Flushed(dict, state, queueTaken), d) /\ Sound(d)
                                     /\ ~queueTaken => d = dict
<1>1. CASE queueTaken /\ state > SYNC /\ dict.syncs # <<>>
  <2>1. Flushed(dict, state, queueTaken) = NoLemmas
    BY <1>1 DEF Flushed
  <2>2. Sound(NoLemmas)
    BY NoLemmasIs
  <2> QED
    BY <1>1, <2>1, <2>2 DEF Holds, Sound
<1>2. CASE ~(queueTaken /\ state > SYNC /\ dict.syncs # <<>>)
  <2>1. Flushed(dict, state, queueTaken) = WrittenBack(dict, state)
    BY <1>2 DEF Flushed
  <2> QED
    BY <2>1, WrittenBackIs
<1> QED
  BY <1>1, <1>2

\* A file that was loaded is in step with the dictionary.
LEMMA LoadedIsBehind ==
  ASSUME NEW f, NEW d, Sound(d), Holds(f, d), NEW e, e.lemmas = d.lemmas, e.offsets = d.offsets,
         e.predicts = d.predicts, e.scores = d.scores
  PROVE  Behind(f, e, SYNC, PreAlloc)
<1>1. PreAlloc \in Nat
  BY UserDictAssumption
<1>2. f.lemmas \in Seq(Lemmas)
  BY DEF Holds, Dicts
<1>3. Len(f.lemmas) = Len(e.lemmas) - (PreAlloc - PreAlloc)
  <2>1. Len(f.lemmas) \in Nat
    BY <1>2
  <2> QED
    BY <1>1, <2>1 DEF Holds
<1> QED
  BY <1>1, <1>3 DEF Holds, Behind, SYNC, LEMMA_DIRTY, SCORE_DIRTY, OFFSET_DIRTY

-----------------------------------------------------------------------------
(* What the searches look through.                                            *)

\* A range that has all live entries of a signature, and before them no others
\* that are lower.
Covers(d, sig, from, to) ==
  /\ from \in Entries(d) /\ to \in 0..Len(d.offsets) /\ ~Lower(Sig(d, from), sig)
  /\ \A i \in Live(d) : Sig(d, i) = sig => from <= i /\ i <= to
Absent(d, sig) == \A i \in Live(d) : Sig(d, i) # sig

Searches == [sig : Sigs, from : Nat, to : Nat]

\* What the caches remember is true of the table.
Remembered(d, cs, ms) ==
  /\ cs \in [Lengths -> Seq(Searches)] /\ ms \in [Lengths -> Seq(Sigs)]
  /\ \A n \in Lengths : /\ \A c \in ToSet(cs[n]) : Covers(d, c.sig, c.from, c.to)
                        /\ \A sig \in ToSet(ms[n]) : Absent(d, sig)

LEMMA BetweenIs ==
  ASSUME NEW d, Sound(d), NEW sig \in Sigs, NEW from, NEW to, Covers(d, sig, from, to),
         NEW i \in Entries(d), Sig(d, i) = sig, NEW j \in Entries(d), from <= j, j <= i
  PROVE  Sig(d, j) = sig
<1>0. d \in Dicts /\ Placed(d) /\ Ordered(d)
  BY DEF Sound
<1>1. /\ Sig(d, i) \in Sigs /\ Sig(d, j) \in Sigs /\ Sig(d, from) \in Sigs /\ from \in Entries(d)
      /\ Entries(d) \subseteq Nat
  BY <1>0, EntriesAre DEF Covers, Entries
<1>2. ~Lower(Sig(d, from), sig)
  BY DEF Covers
<1>3. from = j \/ from < j
  <2>1. from \in Nat /\ j \in Nat
    BY <1>1
  <2> QED
    BY <2>1
<1>4. j = i \/ j < i
  <2>1. i \in Nat /\ j \in Nat
    BY <1>1
  <2> QED
    BY <2>1
<1>5. ~Lower(Sig(d, j), sig)
  <2>1. CASE from = j
    BY <1>2, <2>1
  <2>2. CASE from < j
    <3>1. ~Lower(Sig(d, j), Sig(d, from))
      BY <1>0, <1>1, <2>2 DEF Ordered
    <3>2. Sig(d, from) = Sig(d, j) \/ Lower(Sig(d, from), Sig(d, j))
      BY <1>1, <3>1, LowerIsTotal
    <3> QED
      BY <1>1, <1>2, <3>2, LowerIsTransitive
  <2> QED
    BY <1>3, <2>1, <2>2
<1>6. ~Lower(sig, Sig(d, j))
  <2>1. CASE j = i
    BY <2>1, LowerIsStrict
  <2>2. CASE j < i
    BY <1>0, <2>2 DEF Ordered
  <2> QED
    BY <1>4, <2>1, <2>2
<1> QED
  BY <1>1, <1>5, <1>6, LowerIsTotal

\* The binary search finds the first entry of a signature or one before it that
\* begins with it.
LEMMA LocateFirstIs ==
  ASSUME NEW d, Sound(d), NEW sig \in Sigs
  PROVE  \/ LocateFirst(d, sig) = 0 /\ Absent(d, sig)
         \/ LocateFirst(d, sig) # 0 /\ Covers(d, sig, LocateFirst(d, sig), Len(d.offsets))
<1> DEFINE n == Len(d.offsets)
           low == {i \in Entries(d) : FuzzyCompare(LemmaAt(d, i).spl, sig) < 0}
           hits == {i \in Entries(d) : FuzzyPrefix(LemmaAt(d, i).spl, sig)}
           wanted == {i \in Entries(d) : Sig(d, i) = sig}
           from == LocateFirst(d, sig)
<1>0. d \in Dicts /\ Placed(d) /\ Ordered(d)
  BY DEF Sound
<1>1. /\ n \in Nat /\ Entries(d) = 1..n /\ Live(d) \subseteq 1..n
      /\ \A i \in 1..n : LemmaAt(d, i).spl \in Spellings /\ Sig(d, i) \in Sigs
  BY <1>0, EntriesAre DEF Entries
<1>2. from = BinarySearch(n, low, hits)
  BY DEF LocateFirst
<1>3. \A i \in 1..n : i \in low <=> Lower(Sig(d, i), sig)
  <2> SUFFICES ASSUME NEW i \in 1..n PROVE FuzzyCompare(LemmaAt(d, i).spl, sig) < 0 <=> Lower(Sig(d, i), sig)
    BY <1>1
  <2> QED
    BY <1>1, CompareIs DEF Sig
<1>4. \A i \in 1..n : (i \in wanted => i \in hits) /\ (i \in hits => ~Lower(Sig(d, i), sig))
  <2> SUFFICES ASSUME NEW i \in 1..n
               PROVE  /\ Sig(d, i) = sig => FuzzyPrefix(LemmaAt(d, i).spl, sig)
                      /\ FuzzyPrefix(LemmaAt(d, i).spl, sig) => ~Lower(Sig(d, i), sig)
    BY <1>1
  <2> QED
    BY <1>1, PrefixIs DEF Sig
<1>5. wanted \subseteq 1..n /\ low \subseteq 1..n /\ hits \subseteq 1..n /\ \A i \in wanted : Sig(d, i) = sig
  BY <1>1
<1>6. \A i \in 1..n : Sig(d, i) = sig => i \in wanted
  BY <1>1
<1> HIDE DEF low, hits, wanted, from
<1>7. ASSUME NEW i \in wanted, NEW m \in 1..n
      PROVE  (m \in low => m < i) /\ (m < i /\ m \notin low => m \in wanted)
  <2>1. i \in 1..n /\ Sig(d, i) = sig /\ m \in Nat /\ i \in Nat /\ Sig(d, m) \in Sigs
    BY <1>1, <1>5
  <2>2. i < m => ~Lower(Sig(d, m), sig)
    BY <1>0, <1>1, <2>1 DEF Ordered
  <2>3. m < i => ~Lower(sig, Sig(d, m))
    BY <1>0, <1>1, <2>1 DEF Ordered
  <2>4. ~Lower(sig, sig)
    BY LowerIsStrict
  <2>5. m \in low => m < i
    <3>1. m \in low => ~(i < m) /\ m # i
      BY <1>3, <2>1, <2>2, <2>4
    <3> QED
      BY <2>1, <3>1
  <2>6. m < i /\ m \notin low => m \in wanted
    <3>1. m < i /\ m \notin low => Sig(d, m) = sig
      BY <1>3, <2>1, <2>3, LowerIsTotal
    <3> QED
      BY <1>6, <3>1
  <2> QED
    BY <2>5, <2>6
<1>8. wanted \subseteq hits
  BY <1>4, <1>5
<1>9. /\ from \in 0..n /\ (from # 0 => from \in hits)
      /\ \A i \in wanted \cap 1..n : from # 0 /\ from <= i
  BY <1>1, <1>2, <1>7, <1>8, SearchFinds
<1>10. CASE from = 0
  <2>1. Absent(d, sig)
    BY <1>1, <1>6, <1>9, <1>10 DEF Absent
  <2> QED
    BY <1>10, <2>1 DEF from
<1>11. CASE from # 0
  <2>1. from \in 1..n /\ ~Lower(Sig(d, from), sig)
    BY <1>4, <1>5, <1>9, <1>11
  <2>2. ASSUME NEW i \in Live(d), Sig(d, i) = sig PROVE from <= i /\ i <= n
    <3>1. i \in 1..n /\ i \in wanted
      BY <1>1, <1>6, <2>2
    <3> QED
      BY <1>9, <3>1
  <2>3. Covers(d, sig, from, n)
    BY <1>1, <2>1, <2>2 DEF Covers
  <2> QED
    BY <1>11, <2>3 DEF from
<1> QED
  BY <1>10, <1>11

\* A range to look through for a signature: one that has all its live entries,
\* or one with nothing in it when there are none.
RangeOf(d, sig, r) ==
  /\ r.cached \in BOOLEAN
  /\ \/ Absent(d, sig) /\ (r.from = 0 \/ (r.from = 1 /\ r.to = 0 /\ r.cached))
     \/ r.from # 0 /\ Covers(d, sig, r.from, r.to)

LEMMA RangeIs ==
  ASSUME Sound(dict), Remembered(dict, caches, misses),
         NEW sig \in Sigs, Len(sig) \in Lengths, NEW useMisses \in BOOLEAN
  PROVE  /\ RangeOf(dict, sig, RangeFor(sig, useMisses))
         /\ RangeFor(sig, useMisses) \in [from : Nat, to : Nat, cached : BOOLEAN]
<1> DEFINE r == RangeFor(sig, useMisses)
<1>0. Entries(dict) \subseteq Nat /\ 0 \notin Entries(dict) /\ Len(dict.offsets) \in Nat
  BY EntriesAre DEF Sound, Entries
<1>1. CASE useMisses /\ Missed(sig)
  <2>1. r = [from |-> 1, to |-> 0, cached |-> TRUE]
    BY <1>1 DEF RangeFor
  <2>2. Absent(dict, sig)
    BY <1>1 DEF Missed, Remembered
  <2> QED
    BY <2>1, <2>2 DEF RangeOf
<1>2. CASE ~(useMisses /\ Missed(sig)) /\ Cached(sig) # {}
  <2> DEFINE c == CHOOSE c \in Cached(sig) : TRUE
  <2>1. c \in Cached(sig)
    BY <1>2
  <2>2. r = [from |-> c.from, to |-> c.to, cached |-> TRUE]
    BY <1>2 DEF RangeFor
  <2> HIDE DEF c, r
  <2>3. Covers(dict, sig, c.from, c.to)
    BY <2>1 DEF Cached, Remembered
  <2>4. c.from # 0 /\ c.from \in Nat /\ c.to \in Nat
    BY <1>0, <2>3 DEF Covers
  <2>5. r.from = c.from /\ r.to = c.to /\ r.cached = TRUE
    BY <2>2
  <2>6. RangeOf(dict, sig, r)
    BY <2>3, <2>4, <2>5 DEF RangeOf
  <2> QED
    BY <2>2, <2>4, <2>6 DEF r
<1>3. CASE ~(useMisses /\ Missed(sig)) /\ Cached(sig) = {}
  <2>1. r = [from |-> LocateFirst(dict, sig), to |-> Len(dict.offsets), cached |-> FALSE]
    BY <1>3 DEF RangeFor
  <2>2. \/ LocateFirst(dict, sig) = 0 /\ Absent(dict, sig)
        \/ LocateFirst(dict, sig) # 0 /\ Covers(dict, sig, LocateFirst(dict, sig), Len(dict.offsets))
    BY LocateFirstIs
  <2> HIDE DEF r
  <2>3. r.from = LocateFirst(dict, sig) /\ r.to = Len(dict.offsets) /\ r.cached = FALSE
    BY <2>1
  <2>4. LocateFirst(dict, sig) \in Nat
    BY <1>0, <2>2 DEF Covers
  <2>5. \/ Absent(dict, sig) /\ r.from = 0
        \/ r.from # 0 /\ Covers(dict, sig, r.from, r.to)
    BY <2>2, <2>3, Zenon
  <2>6. r.cached \in BOOLEAN
    BY <2>3
  <2>7. RangeOf(dict, sig, r)
    BY <2>5, <2>6 DEF RangeOf
  <2> QED
    BY <1>0, <2>1, <2>4, <2>7 DEF r
<1> QED
  BY <1>1, <1>2, <1>3

\* What passes for a lemma: an entry that begins with it.
Begins(l, m) ==
  /\ Len(m.spl) >= Len(l.spl)
  /\ SubSeq(m.spl, 1, Len(l.spl)) = l.spl /\ SubSeq(m.word, 1, Len(l.spl)) = l.word

LEMMA LocateIs ==
  ASSUME Sound(dict), Remembered(dict, caches, misses), NEW l \in Lemmas
  PROVE  /\ Locate(l) = 0 \/ (Locate(l) \in Live(dict) /\ Begins(l, LemmaAt(dict, Locate(l))))
         /\ \A i \in Live(dict) : LemmaAt(dict, i) = l => Locate(l) # 0
<1> DEFINE sig == Initials(l.spl)
           r == RangeFor(sig, FALSE)
           live == {i \in r.from..r.to : i \in Live(dict)}
           found == {i \in live : /\ Begins(l, LemmaAt(dict, i))
                                  /\ r.cached \/ \A j \in live : j <= i =>
                                                   FuzzyPrefix(LemmaAt(dict, j).spl, sig)}
<1>1. Locate(l) = IF r.from = 0 \/ found = {} THEN 0 ELSE Min(found)
  BY QueryOfIs DEF Locate, Begins
<1>2. sig \in Sigs /\ Len(sig) \in Lengths /\ FALSE \in BOOLEAN
  BY LemmasAre DEF Lengths
<1>3. RangeOf(dict, sig, r) /\ r \in [from : Nat, to : Nat, cached : BOOLEAN]
  BY <1>2, RangeIs
<1> HIDE DEF r, sig
<1>4. dict \in Dicts /\ Placed(dict) /\ Live(dict) \subseteq Entries(dict) /\ Entries(dict) \subseteq Nat \ {0}
  BY EntriesAre DEF Sound, Entries
<1>5. found \in SUBSET Nat /\ found \subseteq Live(dict) /\ 0 \notin found
  BY <1>4
<1>6. \A i \in found : Begins(l, LemmaAt(dict, i))
  OBVIOUS
<1>7. ASSUME NEW i \in Live(dict), LemmaAt(dict, i) = l PROVE r.from # 0 /\ i \in found
  <2>1. Sig(dict, i) = sig
    BY <1>7 DEF Sig, sig
  <2>2. r.from # 0 /\ Covers(dict, sig, r.from, r.to)
    BY <1>3, <2>1 DEF RangeOf, Absent
  <2>3. i \in Nat /\ r.from \in Nat /\ r.to \in Nat
    BY <1>3, <1>4
  <2>4. r.from <= i /\ i <= r.to
    BY <2>1, <2>2 DEF Covers
  <2>5. i \in live
    BY <2>3, <2>4
  <2>6. Begins(l, LemmaAt(dict, i))
    <3>1. l.spl \in Seq(SplIds) /\ l.word \in Seq(Int) /\ Len(l.word) = Len(l.spl)
      BY UserDictAssumption
    <3>2. SubSeq(l.spl, 1, Len(l.spl)) = l.spl
      BY <3>1
    <3>3. SubSeq(l.word, 1, Len(l.word)) = l.word
      BY <3>1
    <3>4. Len(l.spl) >= Len(l.spl)
      BY <3>1
    <3> QED
      BY <1>7, <3>1, <3>2, <3>3, <3>4 DEF Begins
  <2>7. ASSUME NEW j \in live, j <= i PROVE FuzzyPrefix(LemmaAt(dict, j).spl, sig)
    <3>1. j \in Entries(dict) /\ i \in Entries(dict) /\ r.from <= j
      <4>1. j \in r.from..r.to /\ j \in Live(dict)
        OBVIOUS
      <4> QED
        BY <1>4, <2>3, <4>1
    <3>2. Sig(dict, j) = sig
      BY <1>2, <2>1, <2>2, <2>7, <3>1, BetweenIs
    <3>3. LemmaAt(dict, j).spl \in Spellings
      BY <1>4, <3>1, EntriesAre
    <3> QED
      BY <1>2, <3>2, <3>3, PrefixIs DEF Sig
  <2> QED
    BY <2>2, <2>5, <2>6, <2>7
<1> HIDE DEF found
<1>8. CASE r.from = 0 \/ found = {}
  <2>1. Locate(l) = 0
    BY <1>1, <1>8
  <2> QED
    BY <1>7, <1>8, <2>1
<1>9. CASE r.from # 0 /\ found # {}
  <2>1. Locate(l) = Min(found)
    BY <1>1, <1>9
  <2>2. Min(found) \in found
    BY <1>5, <1>9, MinIs
  <2> QED
    BY <1>5, <1>6, <2>1, <2>2
<1> QED
  BY <1>8, <1>9

-----------------------------------------------------------------------------
(* What a search finds.                                                       *)

\* A spelling that fits a query of its length has its signature.
LEMMA MatchIs ==
  ASSUME NEW q \in Queries, NEW spl \in Spellings, Len(spl) = Len(q), SpellPrefix(spl, q)
  PROVE  Initials(spl) = Signature(q)
<1>1. q \in Seq((SUBSET SplIds) \ {{}})
  BY UserDictAssumption
<1>2. Len(q) \in Nat /\ \A k \in 1..Len(q) : q[k] # {} /\ q[k] \subseteq SplIds
  BY <1>1
<1>3. ASSUME NEW k \in 1..Len(q) PROVE InitialOf[spl[k]] = InitialOf[CHOOSE s \in q[k] : TRUE]
  <2>1. (CHOOSE s \in q[k] : TRUE) \in q[k]
    BY <1>2
  <2>2. spl[k] \in q[k]
    BY DEF SpellPrefix
  <2> QED
    BY <2>1, <2>2, UserDictAssumption
<1> QED
  BY <1>3 DEF Initials, Signature

LEMMA SignatureIs ==
  ASSUME NEW q \in Queries
  PROVE  Signature(q) \in Sigs /\ Len(Signature(q)) = Len(q) /\ Len(q) \in Nat
<1>1. q \in Seq((SUBSET SplIds) \ {{}})
  BY UserDictAssumption
<1>2. Len(q) \in Nat /\ \A k \in 1..Len(q) : q[k] # {} /\ q[k] \subseteq SplIds
  BY <1>1
<1>3. ASSUME NEW k \in 1..Len(q) PROVE InitialOf[CHOOSE s \in q[k] : TRUE] \in Int
  <2>1. (CHOOSE s \in q[k] : TRUE) \in q[k]
    BY <1>2
  <2>2. q[k] \subseteq SplIds
    BY <1>2
  <2> QED
    BY <2>1, <2>2, UserDictAssumption
<1>4. Signature(q) \in [1..Len(q) -> Int]
  BY <1>3 DEF Signature
<1> QED
  BY <1>2, <1>4 DEF Sigs

\* The live entries of one signature are no more than a search has room for.
LEMMA RoomIs ==
  ASSUME RoomForAnswers, NEW d, Sound(d), NEW sig, NEW J \in SUBSET Live(d), J # {},
         \A j \in J : Sig(d, j) = sig
  PROVE  IsFiniteSet(J) /\ Cardinality(J) \in Nat /\ Cardinality(J) <= LpiMax
<1> DEFINE class == {l \in Lemmas : Signature(QueryOf(l)) = sig}
           f == [j \in J |-> LemmaAt(d, j)]
<1>0. d \in Dicts /\ Placed(d) /\ LiveOnce(d) /\ Live(d) \subseteq Entries(d)
  BY EntriesAre DEF Sound
<1>1. IsFiniteSet(class)
  <2>1. IsFiniteSet(Lemmas) /\ class \subseteq Lemmas
    BY UserDictAssumption
  <2> HIDE DEF class
  <2> QED
    BY <2>1, FS_Subset
<1>2. ASSUME NEW j \in J PROVE LemmaAt(d, j) \in class
  <2>1. LemmaAt(d, j) \in Lemmas
    BY <1>0, EntriesAre
  <2> QED
    BY <2>1, QueryOfIs DEF Sig
<1>3. f \in [J -> class]
  BY <1>2
<1>4. \A x, y \in J : f[x] = f[y] => x = y
  BY <1>0 DEF LiveOnce
<1>5. Cardinality(class) <= LpiMax
  <2>1. PICK j \in J : TRUE
    OBVIOUS
  <2>2. LemmaAt(d, j) \in Lemmas /\ Signature(QueryOf(LemmaAt(d, j))) = sig
    BY <1>2
  <2> QED
    BY <2>2 DEF RoomForAnswers
<1> HIDE DEF f, class
<1>6. IsFiniteSet(J) /\ Cardinality(J) <= Cardinality(class)
  BY <1>1, <1>3, <1>4, InjectedIsSmaller
<1>7. Cardinality(J) \in Nat /\ Cardinality(class) \in Nat /\ LpiMax \in Nat
  BY <1>1, <1>6, FS_CardinalityType, UserDictAssumption
<1> QED
  BY <1>5, <1>6, <1>7

\* The parts of a search: the entries of its range, those it is for, those it
\* stops at, and those it looks at.
InRange(r) == {i \in r.from..r.to : i \in Live(dict)}
Hits(q, r) == {i \in InRange(r) : Len(LemmaAt(dict, i).spl) = Len(q) /\ SpellPrefix(LemmaAt(dict, i).spl, q)}
Stops(q, r) ==
  {i \in InRange(r) : \/ ~r.cached /\ FuzzyCompare(LemmaAt(dict, i).spl, Signature(q)) # 0
                      \/ ~FuzzyPrefix(LemmaAt(dict, i).spl, Signature(q))}
Seen(q, r) == {i \in r.from..r.to : /\ \A j \in Stops(q, r) : i <= j
                                    /\ Cardinality({j \in Hits(q, r) : j < i}) < LpiMax}

LEMMA SearchParts ==
  ASSUME NEW q, NEW r, r = RangeFor(Signature(q), TRUE)
  PROVE  /\ r.from = 0 => Search(q) = [sig |-> Signature(q), found |-> {}, extend |-> FALSE, range |-> r]
         /\ r.from # 0 =>
              /\ Search(q).sig = Signature(q)
              /\ Search(q).found = {LemmaAt(dict, i) : i \in Hits(q, r) \cap Seen(q, r)}
              /\ Search(q).range = [r EXCEPT !.to = Max(Seen(q, r) \cup {r.from - 1})]
  BY DEF Search, InRange, Hits, Stops, Seen

LEMMA SeenIs ==
  ASSUME RoomForAnswers, Sound(dict), NEW q \in Queries,
         NEW r \in [from : Nat, to : Nat, cached : BOOLEAN], Covers(dict, Signature(q), r.from, r.to),
         NEW i \in Live(dict), Sig(dict, i) = Signature(q)
  PROVE  i \in InRange(r) /\ i \in Seen(q, r)
<1> DEFINE sig == Signature(q)
           before == {j \in Hits(q, r) : j < i}
<1>0. /\ dict \in Dicts /\ Placed(dict) /\ Live(dict) \subseteq Entries(dict) /\ Entries(dict) \subseteq Nat
      /\ \A j \in Entries(dict) : LemmaAt(dict, j).spl \in Spellings
  BY EntriesAre DEF Sound, Entries
<1>1. sig \in Sigs
  BY SignatureIs
<1>2. r.from \in Nat /\ r.to \in Nat /\ i \in Nat /\ r.from <= i /\ i <= r.to
  BY <1>0 DEF Covers
<1>3. ASSUME NEW j \in Stops(q, r) PROVE i <= j
  <2>1. j \in r.from..r.to /\ j \in Live(dict)
    BY DEF Stops, InRange
  <2>2. j \in Nat /\ r.from <= j /\ j \in Entries(dict) /\ i \in Entries(dict)
    BY <1>0, <1>2, <2>1
  <2> SUFFICES ASSUME ~(i <= j) PROVE FALSE
    OBVIOUS
  <2>3. Sig(dict, j) = sig
    <3>1. j <= i
      BY <1>2, <2>2
    <3> QED
      BY <1>1, <2>2, <3>1, BetweenIs
  <2>4. LemmaAt(dict, j).spl \in Spellings /\ Initials(LemmaAt(dict, j).spl) = sig
    BY <1>0, <2>2, <2>3 DEF Sig
  <2>5. FuzzyPrefix(LemmaAt(dict, j).spl, sig) /\ FuzzyCompare(LemmaAt(dict, j).spl, sig) = 0
    BY <1>1, <2>4, PrefixIs, CompareIs
  <2> QED
    BY <2>5 DEF Stops
<1>4. before \subseteq Live(dict) /\ i \notin before /\ \A j \in before : Sig(dict, j) = sig
  <2>1. i \notin before
    BY <1>2
  <2> SUFFICES ASSUME NEW j \in before PROVE j \in Live(dict) /\ Sig(dict, j) = sig
    BY <2>1
  <2>2. j \in Live(dict) /\ Len(LemmaAt(dict, j).spl) = Len(q) /\ SpellPrefix(LemmaAt(dict, j).spl, q)
    BY DEF Hits, InRange
  <2>3. LemmaAt(dict, j).spl \in Spellings
    BY <1>0, <2>2
  <2> QED
    BY <2>2, <2>3, MatchIs DEF Sig
<1> HIDE DEF before
<1>5. Cardinality(before) < LpiMax
  <2> DEFINE J == before \cup {i}
  <2>1. J \in SUBSET Live(dict) /\ J # {} /\ \A j \in J : Sig(dict, j) = sig
    BY <1>4
  <2> HIDE DEF J
  <2>2. IsFiniteSet(J) /\ Cardinality(J) \in Nat /\ Cardinality(J) <= LpiMax
    BY <2>1, RoomIs
  <2>3. IsFiniteSet(before)
    <3>1. before \subseteq J
      BY DEF J
    <3> QED
      BY <2>2, <3>1, FS_Subset
  <2>4. Cardinality(J) = Cardinality(before) + 1 /\ Cardinality(before) \in Nat
    BY <1>4, <2>3, FS_AddElement, FS_CardinalityType DEF J
  <2> QED
    BY <2>2, <2>4, UserDictAssumption
<1>6. i \in r.from..r.to
  BY <1>2
<1> QED
  BY <1>3, <1>5, <1>6 DEF Seen, before, InRange

\* A search through the table, or through what the caches remember of it, finds
\* the live entries that fit.
LEMMA SearchIsWhole ==
  ASSUME RoomForAnswers, Sound(dict), Remembered(dict, caches, misses), NEW q \in Queries
  PROVE  Search(q).found = {l \in DOMAIN Content(dict) : Len(l.spl) = Len(q) /\ SpellPrefix(l.spl, q)}
<1> DEFINE sig == Signature(q)
           r == RangeFor(sig, TRUE)
           fits(l) == Len(l.spl) = Len(q) /\ SpellPrefix(l.spl, q)
<1>0. /\ dict \in Dicts /\ Placed(dict) /\ Live(dict) \subseteq Entries(dict) /\ Entries(dict) \subseteq Nat
      /\ \A j \in Entries(dict) : LemmaAt(dict, j).spl \in Spellings
  BY EntriesAre DEF Sound, Entries
<1>1. sig \in Sigs /\ Len(sig) \in Lengths /\ TRUE \in BOOLEAN
  BY SignatureIs DEF Lengths
<1>2. RangeOf(dict, sig, r) /\ r \in [from : Nat, to : Nat, cached : BOOLEAN]
  BY <1>1, RangeIs
<1>3. DOMAIN Content(dict) = {LemmaAt(dict, i) : i \in Live(dict)}
  BY DEF Content
<1> HIDE DEF r, sig
<1>4. ASSUME NEW i \in Live(dict), fits(LemmaAt(dict, i)) PROVE Sig(dict, i) = sig
  <2>1. LemmaAt(dict, i).spl \in Spellings
    BY <1>0
  <2> QED
    BY <1>4, <2>1, MatchIs DEF Sig, sig
<1>5. ASSUME NEW i \in Live(dict), fits(LemmaAt(dict, i))
      PROVE  r.from # 0 /\ i \in Hits(q, r) /\ i \in Seen(q, r)
  <2>1. Sig(dict, i) = sig
    BY <1>4, <1>5
  <2>2. r.from # 0 /\ Covers(dict, sig, r.from, r.to)
    BY <1>2, <2>1 DEF RangeOf, Absent
  <2>3. i \in InRange(r) /\ i \in Seen(q, r)
    BY <1>2, <2>1, <2>2, SeenIs DEF sig
  <2> QED
    BY <1>5, <2>2, <2>3 DEF Hits
<1>6. \A i \in Hits(q, r) : i \in Live(dict) /\ fits(LemmaAt(dict, i))
  BY DEF Hits, InRange
<1>7. r = RangeFor(Signature(q), TRUE)
  BY DEF r, sig
<1>8. CASE r.from = 0
  <2>1. Search(q) = [sig |-> Signature(q), found |-> {}, extend |-> FALSE, range |-> r]
    BY <1>7, <1>8, SearchParts, Zenon
  <2>2. Search(q).found = {}
    BY <2>1
  <2>3. \A i \in Live(dict) : ~fits(LemmaAt(dict, i))
    BY <1>5, <1>8
  <2> QED
    BY <1>3, <2>2, <2>3
<1>9. CASE r.from # 0
  <2>1. Search(q).found = {LemmaAt(dict, i) : i \in Hits(q, r) \cap Seen(q, r)}
    BY <1>7, <1>9, SearchParts
  <2>2. \A i \in Live(dict) : fits(LemmaAt(dict, i)) => i \in Hits(q, r) \cap Seen(q, r)
    BY <1>5
  <2>3. \A l : l \in Search(q).found <=> l \in {m \in {LemmaAt(dict, i) : i \in Live(dict)} : fits(m)}
    BY <1>6, <2>1, <2>2
  <2> QED
    BY <1>3, <2>3
<1> QED
  BY <1>8, <1>9

-----------------------------------------------------------------------------
(* The rings.                                                                 *)

\* A ring gains a search, and may lose its first.
LEMMA RememberIs ==
  ASSUME NEW X, NEW rings \in [Lengths -> Seq(X)], NEW n \in Lengths, NEW item \in X
  PROVE  /\ Remember(rings, n, item) \in [Lengths -> Seq(X)]
         /\ \A m \in Lengths : \A c \in ToSet(Remember(rings, n, item)[m]) :
              c \in ToSet(rings[m]) \/ c = item
<1> DEFINE s == rings[n]
           t == IF Len(s) < CacheSize THEN Append(s, item) ELSE Append(Tail(s), item)
<1>0. s \in Seq(X) /\ Len(s) \in Nat /\ CacheSize \in Nat \ {0}
  <2>1. s \in Seq(X)
    OBVIOUS
  <2> QED
    BY <2>1, UserDictAssumption
<1>1. Remember(rings, n, item) = [rings EXCEPT ![n] = t]
  BY DEF Remember
<1> HIDE DEF s
<1>2. t \in Seq(X) /\ \A c \in ToSet(t) : c \in ToSet(s) \/ c = item
  <2>1. CASE Len(s) < CacheSize
    <3>1. t = Append(s, item)
      BY <2>1
    <3>2. t \in Seq(X) /\ Len(t) = Len(s) + 1 /\ \A k \in 1..Len(s) + 1 : t[k] = IF k <= Len(s) THEN s[k] ELSE item
      BY <1>0, <3>1
    <3>3. ASSUME NEW k \in 1..Len(t) PROVE t[k] \in ToSet(s) \/ t[k] = item
      <4>1. k \in 1..Len(s) \/ t[k] = item
        BY <1>0, <3>2
      <4>2. k \in 1..Len(s) => t[k] = s[k]
        BY <1>0, <3>2
      <4> QED
        BY <4>1, <4>2 DEF ToSet
    <3> HIDE DEF t
    <3> QED
      BY <3>2, <3>3 DEF ToSet
  <2>2. CASE ~(Len(s) < CacheSize)
    <3>0. s # <<>>
      BY <1>0, <2>2
    <3>1. t = Append(Tail(s), item)
      BY <2>2
    <3>2. Tail(s) \in Seq(X) /\ Len(Tail(s)) = Len(s) - 1 /\ \A k \in 1..Len(s) - 1 : Tail(s)[k] = s[k + 1]
      BY <1>0, <3>0
    <3>3. /\ t \in Seq(X) /\ Len(t) = Len(s)
          /\ \A k \in 1..Len(s) : t[k] = IF k <= Len(s) - 1 THEN Tail(s)[k] ELSE item
      <4> DEFINE u == Tail(s)
      <4>1. u \in Seq(X) /\ Len(u) = Len(s) - 1
        BY <3>2
      <4> HIDE DEF u, t
      <4>2. Append(u, item) \in Seq(X) /\ Len(Append(u, item)) = Len(u) + 1
        BY <4>1
      <4>3. ASSUME NEW k \in 1..Len(u) + 1
            PROVE  Append(u, item)[k] = IF k <= Len(u) THEN u[k] ELSE item
        BY <4>1
      <4>4. t = Append(u, item)
        BY <3>1 DEF u
      <4>5. Len(u) + 1 = Len(s)
        BY <1>0, <4>1
      <4>6. t \in Seq(X) /\ Len(t) = Len(s)
        BY <4>2, <4>4, <4>5
      <4>7. ASSUME NEW k \in 1..Len(s) PROVE t[k] = IF k <= Len(s) - 1 THEN u[k] ELSE item
        BY <4>1, <4>3, <4>4, <4>5
      <4> QED
        BY <4>6, <4>7 DEF u
    <3>4. ASSUME NEW k \in 1..Len(t) PROVE t[k] \in ToSet(s) \/ t[k] = item
      <4>1. k \in 1..Len(s)
        BY <3>3
      <4>2. CASE k <= Len(s) - 1
        <5>1. t[k] = Tail(s)[k] /\ k \in 1..Len(s) - 1
          BY <1>0, <3>3, <4>1, <4>2
        <5>2. t[k] = s[k + 1] /\ k + 1 \in 1..Len(s)
          BY <1>0, <3>2, <5>1
        <5> QED
          BY <5>2 DEF ToSet
      <4>3. CASE ~(k <= Len(s) - 1)
        BY <3>3, <4>1, <4>3
      <4> QED
        BY <4>2, <4>3
    <3> HIDE DEF t
    <3> QED
      BY <3>3, <3>4 DEF ToSet
  <2> QED
    BY <2>1, <2>2
<1> HIDE DEF t
<1>3. [rings EXCEPT ![n] = t] \in [Lengths -> Seq(X)]
  BY <1>2
<1>4. ASSUME NEW m \in Lengths, NEW c \in ToSet([rings EXCEPT ![n] = t][m])
      PROVE  c \in ToSet(rings[m]) \/ c = item
  <2>1. CASE m = n
    <3>1. [rings EXCEPT ![n] = t][m] = t
      BY <2>1
    <3> QED
      BY <1>2, <2>1, <3>1 DEF s
  <2>2. CASE m # n
    <3>1. [rings EXCEPT ![n] = t][m] = rings[m]
      BY <2>2
    <3> QED
      BY <3>1
  <2> QED
    BY <2>1, <2>2
<1> QED
  BY <1>1, <1>3, <1>4

\* Nothing is remembered of a table that has changed its order, and what is
\* remembered of a table that only lost entries is still true.
LEMMA ForgottenIs ==
  ASSUME NEW d
  PROVE  Remembered(d, NoSearches, NoSearches)
<1>1. ASSUME NEW n \in Lengths PROVE NoSearches[n] = <<>>
  BY DEF NoSearches
<1>2. \A X : NoSearches \in [Lengths -> Seq(X)]
  BY DEF NoSearches
<1>3. ToSet(<<>>) = {}
  BY DEF ToSet
<1> QED
  BY <1>1, <1>2, <1>3 DEF Remembered

LEMMA StillRemembered ==
  ASSUME NEW d, NEW e, NEW cs, NEW ms, Remembered(d, cs, ms), Sound(d),
         Entries(e) = Entries(d), Len(e.offsets) = Len(d.offsets), Live(e) \subseteq Live(d),
         \A i \in Entries(d) : LemmaAt(e, i) = LemmaAt(d, i)
  PROVE  Remembered(e, cs, ms)
<1>0. Live(d) \subseteq Entries(d) /\ \A i \in Entries(d) : Sig(e, i) = Sig(d, i)
  BY DEF Live, Sig
<1>1. ASSUME NEW sig, NEW from, NEW to, Covers(d, sig, from, to) PROVE Covers(e, sig, from, to)
  BY <1>0, <1>1 DEF Covers
<1>2. ASSUME NEW sig, Absent(d, sig) PROVE Absent(e, sig)
  BY <1>0, <1>2 DEF Absent
<1> QED
  BY <1>1, <1>2 DEF Remembered

-----------------------------------------------------------------------------
(* The invariant, and the calls.                                              *)

UserDictInv ==
  Sound(dict) /\ Remembered(dict, caches, misses) /\ Behind(file, dict, state, room)

\* What a search has looked through has all entries of its signature.
LEMMA SeenCovers ==
  ASSUME RoomForAnswers, Sound(dict), NEW q \in Queries,
         NEW r \in [from : Nat, to : Nat, cached : BOOLEAN], Covers(dict, Signature(q), r.from, r.to)
  PROVE  Covers(dict, Signature(q), r.from, Max(Seen(q, r) \cup {r.from - 1}))
<1> DEFINE sig == Signature(q)
           S == Seen(q, r) \cup {r.from - 1}
           n == Len(dict.offsets)
<1>0. n \in Nat /\ Entries(dict) = 1..n /\ Live(dict) \subseteq 1..n
  BY EntriesAre DEF Sound, Entries
<1>1. r.from \in 1..n /\ r.to \in 0..n /\ ~Lower(Sig(dict, r.from), sig)
  BY <1>0 DEF Covers
<1>2. Seen(q, r) \subseteq r.from..r.to
  BY DEF Seen
<1>3. S \in SUBSET Nat /\ S # {} /\ \A x \in S : x <= n
  BY <1>0, <1>1, <1>2
<1> HIDE DEF S
<1>4. Max(S) \in S /\ \A y \in S : Max(S) >= y
  BY <1>0, <1>3, MaxIs
<1>5. Max(S) \in 0..n
  <2>1. Max(S) \in Nat
    BY <1>3, <1>4
  <2>2. Max(S) <= n
    BY <1>3, <1>4
  <2> HIDE DEF n
  <2> QED
    BY <1>0, <2>1, <2>2
<1>6. ASSUME NEW i \in Live(dict), Sig(dict, i) = sig PROVE r.from <= i /\ i <= Max(S)
  <2>1. i \in S
    BY <1>6, SeenIs DEF S
  <2>2. Max(S) >= i
    BY <1>4, <2>1
  <2>3. r.from <= i
    BY <1>6 DEF Covers
  <2>4. i \in Nat /\ Max(S) \in Nat
    BY <1>0, <1>5
  <2> QED
    BY <2>2, <2>3, <2>4
<1>7. Covers(dict, sig, r.from, Max(S))
  BY <1>0, <1>1, <1>5, <1>6 DEF Covers
<1> QED
  BY <1>7 DEF S

LEMMA GetLpisKeeps ==
  ASSUME UserDictInv, RoomForAnswers, NEW q \in Queries, GetLpis(q)
  PROVE  UserDictInv'
<1> DEFINE sig == Signature(q)
           r == RangeFor(sig, TRUE)
           s == Search(q)
<1>0. Sound(dict) /\ Remembered(dict, caches, misses) /\ Behind(file, dict, state, room)
  BY DEF UserDictInv
<1>1. sig \in Sigs /\ Len(sig) = Len(q) /\ Len(q) \in Lengths /\ TRUE \in BOOLEAN
  BY SignatureIs DEF Lengths
<1>2. RangeOf(dict, sig, r) /\ r \in [from : Nat, to : Nat, cached : BOOLEAN]
  BY <1>0, <1>1, RangeIs
<1>3. UNCHANGED <<dict, room, state, file>>
  BY DEF GetLpis
<1>4. /\ caches \in [Lengths -> Seq(Searches)] /\ misses \in [Lengths -> Seq(Sigs)]
      /\ \A n \in Lengths : /\ \A c \in ToSet(caches[n]) : Covers(dict, c.sig, c.from, c.to)
                            /\ \A g \in ToSet(misses[n]) : Absent(dict, g)
  BY <1>0 DEF Remembered
<1>5. r = RangeFor(Signature(q), TRUE)
  OBVIOUS
<1> HIDE DEF r, s
<1>6. s.sig = sig /\ s.range.cached = r.cached /\ s.range.from = r.from
  <2>1. CASE r.from = 0
    <3>1. s = [sig |-> sig, found |-> {}, extend |-> FALSE, range |-> r]
      BY <1>5, <2>1, SearchParts, Zenon DEF s
    <3> QED
      BY <3>1
  <2>2. CASE r.from # 0
    <3>1. s.sig = sig /\ s.range = [r EXCEPT !.to = Max(Seen(q, r) \cup {r.from - 1})]
      BY <1>5, <2>2, SearchParts, Zenon DEF s
    <3> DEFINE to == Max(Seen(q, r) \cup {r.from - 1})
    <3> HIDE DEF to
    <3>2. s.range = [r EXCEPT !.to = to]
      BY <3>1 DEF to
    <3>3. s.range.cached = r.cached /\ s.range.from = r.from
      BY <1>2, <3>2
    <3> QED
      BY <3>1, <3>3
  <2> QED
    BY <2>1, <2>2
<1>7. Remembered(dict, caches', misses')
  <2>1. CASE r.cached
    <3>1. UNCHANGED <<caches, misses>>
      BY <1>6, <2>1 DEF GetLpis, s
    <3> QED
      BY <1>0, <3>1
  <2>2. CASE ~r.cached /\ r.from = 0
    <3>1. misses' = Remember(misses, Len(q), sig) /\ caches' = caches
      <4>1. ~s.range.cached /\ s.range.from = 0
        BY <1>6, <2>2
      <4>2. misses' = Remember(misses, Len(q), s.sig) /\ caches' = caches
        BY <4>1 DEF GetLpis, s
      <4> QED
        BY <1>6, <4>2
    <3>2. Absent(dict, sig)
      BY <1>2, <2>2 DEF RangeOf
    <3>3. /\ misses' \in [Lengths -> Seq(Sigs)]
          /\ \A m \in Lengths : \A c \in ToSet(misses'[m]) : c \in ToSet(misses[m]) \/ c = sig
      BY <1>1, <1>4, <3>1, RememberIs
    <3> QED
      BY <1>4, <3>1, <3>2, <3>3 DEF Remembered
  <2>3. CASE ~r.cached /\ r.from # 0
    <3> DEFINE to == Max(Seen(q, r) \cup {r.from - 1})
               item == [sig |-> sig, from |-> r.from, to |-> to]
    <3>1. Covers(dict, sig, r.from, r.to)
      BY <1>2, <2>3 DEF RangeOf
    <3>2. Covers(dict, sig, r.from, to)
      BY <1>0, <1>2, <3>1, SeenCovers
    <3>3. s.range = [r EXCEPT !.to = to]
      BY <1>5, <2>3, SearchParts, Zenon DEF s
    <3> HIDE DEF to
    <3>4. s.range.to = to /\ ~s.range.cached /\ s.range.from # 0
      BY <1>2, <1>6, <2>3, <3>3
    <3>5. caches' = Remember(caches, Len(q), item) /\ misses' = misses
      <4>1. caches' = Remember(caches, Len(q), [sig |-> s.sig, from |-> s.range.from, to |-> s.range.to])
            /\ misses' = misses
        BY <3>4 DEF GetLpis, s
      <4> QED
        BY <1>6, <3>4, <4>1
    <3>6. item \in Searches
      <4>1. to \in Nat /\ r.from \in Nat
        BY <1>2, <3>2, EntriesAre, <1>0 DEF Covers, Sound
      <4> QED
        BY <1>1, <4>1 DEF Searches
    <3>7. item.sig = sig /\ item.from = r.from /\ item.to = to
      OBVIOUS
    <3> HIDE DEF item
    <3>8. /\ caches' \in [Lengths -> Seq(Searches)]
          /\ \A m \in Lengths : \A c \in ToSet(caches'[m]) : c \in ToSet(caches[m]) \/ c = item
      BY <1>1, <1>4, <3>5, <3>6, RememberIs
    <3>9. Covers(dict, item.sig, item.from, item.to)
      BY <3>2, <3>7
    <3> QED
      BY <1>4, <3>5, <3>8, <3>9 DEF Remembered
  <2> QED
    BY <2>1, <2>2, <2>3
<1> QED
  BY <1>0, <1>3, <1>7 DEF UserDictInv

\* A change of scores, of the queue or of flags is covered by its dirty state.
LEMMA StillBehind ==
  ASSUME Behind(file, dict, state, room), NEW s \in SYNC_DIRTY..OFFSET_DIRTY,
         NEW e, e.lemmas = dict.lemmas, s < SCORE_DIRTY => e.scores = dict.scores,
         s < OFFSET_DIRTY => e.offsets = dict.offsets /\ e.predicts = dict.predicts
  PROVE  Behind(file, e, Dirty(s), room)
<1>1. state \in 1..5 /\ s \in 2..4
  BY DEF Behind, SYNC, SYNC_DIRTY, OFFSET_DIRTY, LEMMA_DIRTY
<1>2. Dirty(s) \in 1..5 /\ Dirty(s) >= s /\ Dirty(s) >= state
  BY <1>1 DEF Dirty
<1>3. \A x : (Dirty(s) < x => state < x /\ s < x) \/ x \notin Int
  BY <1>1, <1>2
<1>4. Dirty(s) < SCORE_DIRTY => file.scores = e.scores
  BY <1>3 DEF Behind, SCORE_DIRTY
<1>5. Dirty(s) < OFFSET_DIRTY => file.offsets = e.offsets /\ file.predicts = e.predicts
  BY <1>3 DEF Behind, OFFSET_DIRTY
<1>6. Dirty(s) < LEMMA_DIRTY => room = PreAlloc
  BY <1>3 DEF Behind, LEMMA_DIRTY
<1>7. Dirty(s) \in SYNC..LEMMA_DIRTY
  BY <1>2 DEF SYNC, LEMMA_DIRTY
<1> QED
  BY <1>4, <1>5, <1>6, <1>7 DEF Behind

LEMMA ScoredIs ==
  ASSUME NEW d, Sound(d), NEW i \in Entries(d), NEW freq \in 1..MaxFreq
  PROVE  LET e == [d EXCEPT !.scores[i] = freq]
         IN  /\ Sound(e) /\ Entries(e) = Entries(d) /\ Live(e) = Live(d)
             /\ \A j : LemmaAt(e, j) = LemmaAt(d, j)
             /\ e.lemmas = d.lemmas /\ e.offsets = d.offsets /\ e.predicts = d.predicts
             /\ e.ids = d.ids /\ e.byId = d.byId /\ e.syncs = d.syncs
<1> DEFINE scores == [d.scores EXCEPT ![i] = freq]
           e == [d EXCEPT !.scores = scores]
<1>0. d \in Dicts /\ Len(d.scores) = Len(d.offsets) /\ d.scores \in Seq(1..MaxFreq)
  BY DEF Sound, Placed, Dicts
<1>1. scores \in Seq(1..MaxFreq) /\ Len(scores) = Len(d.scores)
  BY <1>0 DEF Entries
<1> HIDE DEF scores
<1>2. /\ e \in Dicts /\ e.scores = scores /\ e.lemmas = d.lemmas /\ e.offsets = d.offsets
      /\ e.predicts = d.predicts /\ e.ids = d.ids /\ e.byId = d.byId /\ e.syncs = d.syncs
  BY <1>0, <1>1 DEF Dicts
<1> HIDE DEF e
<1>3. /\ Sound(e) /\ Entries(e) = Entries(d) /\ Live(e) = Live(d)
      /\ \A j : LemmaAt(e, j) = LemmaAt(d, j)
  BY <1>1, <1>2, SameTables
<1>4. e = [d EXCEPT !.scores[i] = freq]
  BY DEF e, scores
<1> QED
  BY <1>2, <1>3, <1>4

\* The same for the queue.
LEMMA ResyncedIs ==
  ASSUME NEW d, Sound(d), NEW syncs \in Seq(Int)
  PROVE  LET e == [d EXCEPT !.syncs = syncs]
         IN  /\ Sound(e) /\ Entries(e) = Entries(d) /\ Live(e) = Live(d)
             /\ \A j : LemmaAt(e, j) = LemmaAt(d, j)
             /\ e.lemmas = d.lemmas /\ e.offsets = d.offsets /\ e.predicts = d.predicts
             /\ e.scores = d.scores
<1> DEFINE e == [d EXCEPT !.syncs = syncs]
<1>0. d \in Dicts
  BY DEF Sound
<1>2. /\ e \in Dicts /\ e.scores = d.scores /\ e.lemmas = d.lemmas /\ e.offsets = d.offsets
      /\ e.predicts = d.predicts /\ e.ids = d.ids /\ e.byId = d.byId
  BY <1>0 DEF Dicts
<1> HIDE DEF e
<1>3. /\ Sound(e) /\ Entries(e) = Entries(d) /\ Live(e) = Live(d)
      /\ \A j : LemmaAt(e, j) = LemmaAt(d, j)
  BY <1>2, SameTables
<1> QED
  BY <1>2, <1>3 DEF e

LEMMA QueuedIs ==
  ASSUME NEW d, Sound(d), NEW id \in Entries(d)
  PROVE  LET e == Queued(d, id)
         IN  /\ Sound(e) /\ Entries(e) = Entries(d) /\ Live(e) = Live(d)
             /\ \A j : LemmaAt(e, j) = LemmaAt(d, j)
             /\ e.lemmas = d.lemmas /\ e.offsets = d.offsets /\ e.predicts = d.predicts
             /\ e.scores = d.scores
<1> DEFINE syncs == Append(d.syncs, d.byId[id])
<1>1. d.byId \in Seq(Nat) /\ d.syncs \in Seq(Int) /\ Len(d.byId) = Len(d.offsets)
  BY DEF Sound, Dicts, Numbered
<1>2. d.byId[id] \in Nat
  BY <1>1 DEF Entries
<1>3. syncs \in Seq(Int)
  BY <1>1, <1>2
<1>4. Queued(d, id) = [d EXCEPT !.syncs = syncs]
  BY DEF Queued
<1> HIDE DEF syncs
<1> QED
  BY <1>3, <1>4, ResyncedIs

\* Whatever becomes of the queue, the rest of the dictionary is as it was.
LEMMA InQueueIs ==
  ASSUME NEW d, Sound(d), NEW n \in Nat, Entries(d) = 1..n + 1, dict.syncs \in Seq(Int),
         NEW queueTaken \in BOOLEAN, NEW flushed \in BOOLEAN, NEW e \in InQueue(d, queueTaken, flushed)
  PROVE  /\ Sound(e) /\ Live(e) = Live(d)
         /\ \A j : LemmaAt(e, j) = LemmaAt(d, j)
         /\ e.lemmas = d.lemmas /\ e.scores = d.scores
<1>1. CASE ~queueTaken
  <2>1. e = Queued(d, Len(d.byId))
    BY <1>1 DEF InQueue
  <2>2. Len(d.byId) = Len(d.offsets) /\ Len(d.offsets) \in Nat /\ Entries(d) = 1..Len(d.offsets)
    BY EntriesAre DEF Sound, Numbered, Entries
  <2>3. Len(d.byId) \in Entries(d)
    <3>1. 1 \in 1..n + 1
      OBVIOUS
    <3>2. 1 \in 1..Len(d.offsets)
      BY <2>2, <3>1
    <3> QED
      BY <2>2, <3>2
  <2> QED
    BY <2>1, <2>3, QueuedIs
<1>2. CASE queueTaken /\ ~flushed
  <2>1. e = d
    BY <1>2 DEF InQueue
  <2> QED
    BY <2>1
<1>3. CASE queueTaken /\ flushed
  <2>1. PICK behind \in 0..Len(d.lemmas) : e = [d EXCEPT !.syncs = PutBack(Len(@) + 1, behind)]
    BY <1>3 DEF InQueue
  <2>2. d.syncs \in Seq(Int) /\ d.lemmas \in Seq(Lemmas)
    BY DEF Sound, Dicts
  <2> DEFINE syncs == PutBack(Len(d.syncs) + 1, behind)
  <2>3. syncs \in Seq(Int)
    <3>1. Len(d.syncs) + 1 \in Nat /\ behind \in Int
      BY <2>2
    <3>2. \A k \in 1..Len(d.syncs) + 1 : (IF k <= Len(dict.syncs) THEN dict.syncs[k] ELSE behind) \in Int
      <4> SUFFICES ASSUME NEW k \in 1..Len(d.syncs) + 1, k <= Len(dict.syncs)
                   PROVE  dict.syncs[k] \in Int
        BY <3>1
      <4>1. k \in 1..Len(dict.syncs)
        BY <3>1
      <4> QED
        BY <4>1
    <3>3. syncs \in [1..Len(d.syncs) + 1 -> Int]
      BY <3>2 DEF PutBack
    <3> QED
      BY <3>1, <3>3
  <2>4. e = [d EXCEPT !.syncs = syncs]
    BY <2>1, <2>2 DEF Dicts
  <2> HIDE DEF syncs
  <2> QED
    BY <2>3, <2>4, ResyncedIs
<1> QED
  BY <1>1, <1>2, <1>3

\* The lemma of an id.
LEMMA IdIs ==
  ASSUME NEW d, Sound(d), NEW id \in 1..Len(d.byId)
  PROVE  d.lemmas[d.byId[id]] \in Lemmas
<1>1. /\ d.lemmas \in Seq(Lemmas) /\ Len(d.lemmas) = Len(d.offsets) /\ Len(d.byId) = Len(d.offsets)
      /\ Numbered(d) /\ Placed(d)
  BY DEF Sound, Dicts, Numbered, Placed
<1>2. id \in Entries(d)
  BY <1>1 DEF Entries
<1>3. PICK i \in Entries(d) : d.ids[i] = id
  BY <1>1, <1>2 DEF Numbered
<1>4. d.byId[id] \in Entries(d)
  BY <1>1, <1>3 DEF Numbered, Placed
<1> QED
  BY <1>1, <1>4 DEF Entries

-----------------------------------------------------------------------------
(* The calls that change no order.                                            *)

\* A step that changes scores, flags or the queue keeps the invariant.
LEMMA InPlaceKeeps ==
  ASSUME UserDictInv, NEW s \in SYNC_DIRTY..OFFSET_DIRTY,
         Sound(dict'), Entries(dict') = Entries(dict), Live(dict') \subseteq Live(dict),
         \A i \in Entries(dict) : LemmaAt(dict', i) = LemmaAt(dict, i),
         dict'.lemmas = dict.lemmas, s < SCORE_DIRTY => dict'.scores = dict.scores,
         s < OFFSET_DIRTY => dict'.offsets = dict.offsets /\ dict'.predicts = dict.predicts,
         state' = Dirty(s), UNCHANGED <<room, caches, misses, file>>
  PROVE  UserDictInv'
<1>0. Sound(dict) /\ Remembered(dict, caches, misses) /\ Behind(file, dict, state, room)
  BY DEF UserDictInv
<1>1. Len(dict'.offsets) = Len(dict.offsets)
  BY <1>0 DEF Sound, Placed
<1>2. Remembered(dict', caches, misses)
  BY <1>0, <1>1, StillRemembered
<1>3. Behind(file, dict', Dirty(s), room)
  BY <1>0, StillBehind
<1> QED
  BY <1>2, <1>3 DEF UserDictInv

LEMMA PutScoreKeeps ==
  ASSUME UserDictInv, NEW l \in Lemmas, NEW freq \in 1..MaxFreq, PutScore(l, freq)
  PROVE  UserDictInv'
<1>0. Sound(dict) /\ Remembered(dict, caches, misses)
  BY DEF UserDictInv
<1> DEFINE i == Locate(l)
<1>1. i \in Live(dict) /\ i \in Entries(dict)
  BY <1>0, LocateIs DEF PutScore, Live
<1>2. dict' = [dict EXCEPT !.scores[i] = freq] /\ state' = Dirty(SCORE_DIRTY)
      /\ UNCHANGED <<room, caches, misses, file>>
  BY DEF PutScore
<1> HIDE DEF i
<1>3. /\ Sound(dict') /\ Entries(dict') = Entries(dict) /\ Live(dict') \subseteq Live(dict)
      /\ \A j \in Entries(dict) : LemmaAt(dict', j) = LemmaAt(dict, j)
      /\ dict'.lemmas = dict.lemmas /\ dict'.offsets = dict.offsets /\ dict'.predicts = dict.predicts
  BY <1>0, <1>1, <1>2, ScoredIs
<1>4. SCORE_DIRTY \in SYNC_DIRTY..OFFSET_DIRTY /\ ~(SCORE_DIRTY < SCORE_DIRTY)
  BY DEF SYNC_DIRTY, SCORE_DIRTY, OFFSET_DIRTY
<1> QED
  BY <1>2, <1>3, <1>4, InPlaceKeeps

LEMMA UpdateKeeps ==
  ASSUME UserDictInv, NEW id \in 1..Len(dict.byId), UpdateLemma(id)
  PROVE  UserDictInv'
<1>0. Sound(dict) /\ Remembered(dict, caches, misses)
  BY DEF UserDictInv
<1> DEFINE l == dict.lemmas[dict.byId[id]]
           i == Locate(l)
           freq == Min({dict.scores[i] + 1, MaxFreq})
           d == [dict EXCEPT !.scores[i] = freq]
<1>1. l \in Lemmas
  BY <1>0, IdIs
<1>2. /\ i # 0 /\ state' = Dirty(SCORE_DIRTY) /\ UNCHANGED <<room, caches, misses, file>>
      /\ dict' = Queued(d, dict.ids[i])
  BY DEF UpdateLemma
<1> HIDE DEF l
<1>3. i \in Live(dict) /\ i \in Entries(dict)
  BY <1>0, <1>1, <1>2, LocateIs DEF Live
<1> HIDE DEF i
<1>4. freq \in 1..MaxFreq
  <2>1. dict.scores \in Seq(1..MaxFreq) /\ Len(dict.scores) = Len(dict.offsets) /\ MaxFreq \in Nat \ {0}
    BY <1>0, UserDictAssumption DEF Sound, Dicts, Placed
  <2>2. dict.scores[i] \in 1..MaxFreq
    BY <1>3, <2>1 DEF Entries
  <2>3. {dict.scores[i] + 1, MaxFreq} \in SUBSET Nat
    BY <2>1, <2>2
  <2>4. freq \in {dict.scores[i] + 1, MaxFreq} /\ freq <= MaxFreq
    BY <2>3, MinIs
  <2> HIDE DEF freq
  <2> QED
    BY <2>1, <2>2, <2>4
<1>5. dict.ids[i] \in Entries(dict)
  BY <1>0, <1>3 DEF Sound, Numbered
<1> HIDE DEF freq
<1>6. /\ Sound(d) /\ Entries(d) = Entries(dict) /\ Live(d) = Live(dict)
      /\ \A j : LemmaAt(d, j) = LemmaAt(dict, j)
      /\ d.lemmas = dict.lemmas /\ d.offsets = dict.offsets /\ d.predicts = dict.predicts
  BY <1>0, <1>3, <1>4, ScoredIs
<1> HIDE DEF d
<1>7. /\ Sound(dict') /\ Entries(dict') = Entries(d) /\ Live(dict') = Live(d)
      /\ \A j : LemmaAt(dict', j) = LemmaAt(d, j)
      /\ dict'.lemmas = d.lemmas /\ dict'.offsets = d.offsets /\ dict'.predicts = d.predicts
  BY <1>2, <1>5, <1>6, QueuedIs
<1>8. SCORE_DIRTY \in SYNC_DIRTY..OFFSET_DIRTY /\ ~(SCORE_DIRTY < SCORE_DIRTY)
  BY DEF SYNC_DIRTY, SCORE_DIRTY, OFFSET_DIRTY
<1> QED
  BY <1>2, <1>6, <1>7, <1>8, InPlaceKeeps

LEMMA RemoveKeeps ==
  ASSUME UserDictInv, NEW id \in 1..Len(dict.byId), RemoveLemma(id)
  PROVE  UserDictInv'
<1>0. Sound(dict) /\ Remembered(dict, caches, misses)
  BY DEF UserDictInv
<1> DEFINE l == dict.lemmas[dict.byId[id]]
           i == Locate(l)
<1>1. l \in Lemmas
  BY <1>0, IdIs
<1>2. i # 0 /\ dict' = Removed(dict, i) /\ state' = Dirty(OFFSET_DIRTY) /\ UNCHANGED <<room, caches, misses, file>>
  BY DEF RemoveLemma
<1> HIDE DEF l
<1>3. i \in Entries(dict)
  BY <1>0, <1>1, <1>2, LocateIs DEF Live
<1> HIDE DEF i
<1>4. /\ Sound(dict') /\ Entries(dict') = Entries(dict) /\ Live(dict') = Live(dict) \ {i}
      /\ \A j \in Entries(dict) : LemmaAt(dict', j) = LemmaAt(dict, j)
      /\ dict'.lemmas = dict.lemmas /\ dict'.scores = dict.scores
  BY <1>0, <1>2, <1>3, RemovedIs
<1>5. Live(dict') \subseteq Live(dict)
  BY <1>4
<1>6. OFFSET_DIRTY \in SYNC_DIRTY..OFFSET_DIRTY /\ ~(OFFSET_DIRTY < OFFSET_DIRTY)
  BY DEF SYNC_DIRTY, OFFSET_DIRTY
<1> QED
  BY <1>2, <1>4, <1>5, <1>6, InPlaceKeeps

LEMMA ClearKeeps ==
  ASSUME UserDictInv, NEW n \in 1..MaxSyncs, ClearSync(n)
  PROVE  UserDictInv'
<1>0. Sound(dict) /\ dict.syncs \in Seq(Int)
  BY DEF UserDictInv, Sound, Dicts
<1> DEFINE syncs == SubSeq(dict.syncs, n + 1, Len(dict.syncs))
<1>1. dict' = [dict EXCEPT !.syncs = syncs] /\ state' = Dirty(SYNC_DIRTY) /\ UNCHANGED <<room, caches, misses, file>>
  BY DEF ClearSync
<1>2. syncs \in Seq(Int)
  <2>1. n \in 1..Len(dict.syncs)
    BY DEF ClearSync
  <2> QED
    BY <1>0, <2>1
<1> HIDE DEF syncs
<1>3. /\ Sound(dict') /\ Entries(dict') = Entries(dict) /\ Live(dict') \subseteq Live(dict)
      /\ \A j \in Entries(dict) : LemmaAt(dict', j) = LemmaAt(dict, j)
      /\ dict'.lemmas = dict.lemmas /\ dict'.offsets = dict.offsets /\ dict'.predicts = dict.predicts
      /\ dict'.scores = dict.scores
  BY <1>0, <1>1, <1>2, ResyncedIs
<1>4. SYNC_DIRTY \in SYNC_DIRTY..OFFSET_DIRTY
  BY DEF SYNC_DIRTY, OFFSET_DIRTY
<1> QED
  BY <1>1, <1>3, <1>4, InPlaceKeeps

-----------------------------------------------------------------------------
(* The calls that write the file or add a lemma.                              *)

\* What is loaded from a file of a dictionary, and the file itself.
LEMMA LoadKeeps ==
  ASSUME NEW f, NEW d, Sound(d), Holds(f, d)
  PROVE  LET e == Loaded(f)
         IN  /\ Sound(e) /\ Entries(e) = Entries(d) /\ Live(e) = Live(d)
             /\ \A i : LemmaAt(e, i) = LemmaAt(d, i)
             /\ e.scores = d.scores /\ e.lemmas = d.lemmas
             /\ Behind(f, e, SYNC, PreAlloc)
<1> DEFINE e == Loaded(f)
<1>1. f \in Dicts /\ f.lemmas = d.lemmas /\ f.offsets = d.offsets /\ f.predicts = d.predicts /\ f.scores = d.scores
  BY DEF Holds
<1>2. /\ Sound(e) /\ Entries(e) = Entries(d) /\ Live(e) = Live(d)
      /\ \A i : LemmaAt(e, i) = LemmaAt(d, i)
      /\ e.scores = d.scores /\ e.lemmas = d.lemmas /\ e.offsets = d.offsets /\ e.predicts = d.predicts
  BY <1>1, LoadedIs
<1> HIDE DEF e
<1>3. Behind(f, e, SYNC, PreAlloc)
  BY <1>2, LoadedIsBehind
<1> QED
  BY <1>2, <1>3 DEF e

LEMMA FlushKeeps ==
  ASSUME UserDictInv, FlushCache
  PROVE  UserDictInv'
<1>0. Sound(dict) /\ Behind(file, dict, state, room)
  BY DEF UserDictInv
<1>1. /\ file' = Flushed(dict, state, FALSE) /\ dict' = Loaded(file') /\ state' = SYNC /\ room' = PreAlloc
      /\ caches' = NoSearches /\ misses' = NoSearches
  BY DEF FlushCache, ForgetSearches
<1>2. Holds(file', dict)
  BY <1>0, <1>1, FlushedIs
<1>3. Sound(dict') /\ Behind(file', dict', SYNC, PreAlloc)
  BY <1>0, <1>1, <1>2, LoadKeeps
<1>4. Remembered(dict', caches', misses')
  BY <1>1, ForgottenIs
<1> QED
  BY <1>1, <1>3, <1>4 DEF UserDictInv

\* The limit is no table.
LEMMA LimitedIs ==
  ASSUME NEW f, NEW s, NEW r, NEW d, Sound(d), Behind(f, d, s, r)
  PROVE  LET e == [d EXCEPT !.limit = Limit]
         IN  /\ Sound(e) /\ Behind(f, e, s, r) /\ Entries(e) = Entries(d) /\ Live(e) = Live(d)
             /\ \A i : LemmaAt(e, i) = LemmaAt(d, i)
             /\ e.scores = d.scores
<1> DEFINE e == [d EXCEPT !.limit = Limit]
<1>0. d \in Dicts /\ Limit \in Nat
  BY UserDictAssumption DEF Sound
<1>1. /\ e \in Dicts /\ e.scores = d.scores /\ e.lemmas = d.lemmas /\ e.offsets = d.offsets
      /\ e.predicts = d.predicts /\ e.ids = d.ids /\ e.byId = d.byId
  BY <1>0 DEF Dicts
<1> HIDE DEF e
<1>2. /\ Sound(e) /\ Entries(e) = Entries(d) /\ Live(e) = Live(d)
      /\ \A j : LemmaAt(e, j) = LemmaAt(d, j)
  BY <1>1, SameTables
<1>3. Behind(f, e, s, r)
  BY <1>1 DEF Behind
<1> QED
  BY <1>1, <1>2, <1>3 DEF e

LEMMA CloseKeeps ==
  ASSUME UserDictInv, CloseAndLoad
  PROVE  UserDictInv'
<1>0. Sound(dict) /\ Behind(file, dict, state, room)
  BY DEF UserDictInv
<1> DEFINE d == Loaded(file')
<1>1. /\ file' = Flushed(dict, state, FALSE) /\ state' = SYNC /\ room' = PreAlloc
      /\ dict' = d \/ dict' = [d EXCEPT !.limit = Limit]
      /\ caches' = NoSearches /\ misses' = NoSearches
  BY DEF CloseAndLoad, ForgetSearches
<1>2. Holds(file', dict)
  BY <1>0, <1>1, FlushedIs
<1>3. Sound(d) /\ Behind(file', d, SYNC, PreAlloc)
  BY <1>0, <1>2, LoadKeeps
<1> HIDE DEF d
<1>4. Sound(dict') /\ Behind(file', dict', SYNC, PreAlloc)
  <2>1. CASE dict' = d
    BY <1>3, <2>1
  <2>2. CASE dict' = [d EXCEPT !.limit = Limit]
    BY <1>3, <2>2, LimitedIs
  <2> QED
    BY <1>1, <2>1, <2>2
<1>5. Remembered(dict', caches', misses')
  BY <1>1, ForgottenIs
<1> QED
  BY <1>1, <1>4, <1>5 DEF UserDictInv

\* A lemma at the end of the block takes a place of the room.
LEMMA AppendBehind ==
  ASSUME NEW f, NEW d, NEW s, NEW r, Sound(d), Behind(f, d, s, r), r # 0, NEW l \in Lemmas,
         NEW e, e.lemmas = Append(d.lemmas, l)
  PROVE  Behind(f, e, LEMMA_DIRTY, r - 1)
<1> DEFINE n == Len(d.lemmas)
           m == Len(f.lemmas)
<1>0. d.lemmas \in Seq(Lemmas) /\ n \in Nat /\ f \in Dicts /\ f.lemmas \in Seq(Lemmas) /\ m \in Nat
  BY DEF Sound, Dicts, Behind
<1>1. PreAlloc \in Nat /\ r \in 0..PreAlloc /\ m = n - (PreAlloc - r)
      /\ \A k \in 1..m : f.lemmas[k] = d.lemmas[k]
  BY UserDictAssumption DEF Behind
<1>2. /\ Len(Append(d.lemmas, l)) = n + 1
      /\ \A k \in 1..n : Append(d.lemmas, l)[k] = d.lemmas[k]
  BY <1>0
<1> HIDE DEF n, m
<1>3. r - 1 \in 0..PreAlloc /\ m = (n + 1) - (PreAlloc - (r - 1)) /\ m <= n
  BY <1>0, <1>1
<1>4. \A k \in 1..m : k \in 1..n
  BY <1>0, <1>3
<1>5. \A k \in 1..m : f.lemmas[k] = e.lemmas[k]
  BY <1>1, <1>2, <1>4
<1>6. Len(f.lemmas) = Len(e.lemmas) - (PreAlloc - (r - 1))
  BY <1>2, <1>3 DEF m
<1>7. \A k \in 1..Len(f.lemmas) : f.lemmas[k] = e.lemmas[k]
  BY <1>5 DEF m
<1>8. /\ LEMMA_DIRTY \in SYNC..LEMMA_DIRTY /\ ~(LEMMA_DIRTY < SCORE_DIRTY) /\ ~(LEMMA_DIRTY < OFFSET_DIRTY)
      /\ ~(LEMMA_DIRTY < LEMMA_DIRTY)
  BY DEF SYNC, SCORE_DIRTY, OFFSET_DIRTY, LEMMA_DIRTY
<1> QED
  BY <1>0, <1>3, <1>6, <1>7, <1>8 DEF Behind

LEMMA PutNewKeeps ==
  ASSUME UserDictInv, NEW l \in Lemmas, NEW freq \in 1..MaxFreq, NEW queueTaken \in BOOLEAN,
         PutNew(l, freq, queueTaken)
  PROVE  UserDictInv'
<1>0. Sound(dict) /\ Remembered(dict, caches, misses) /\ Behind(file, dict, state, room)
  BY DEF UserDictInv
<1> DEFINE full == room = 0
           base == IF full THEN Loaded(Flushed(dict, state, queueTaken)) ELSE dict
           new == Added(base, l, freq)
           left == IF full THEN PreAlloc ELSE room
           s == IF full THEN SYNC ELSE state
<1>1. /\ Locate(l) = 0 /\ file' = IF full THEN Flushed(dict, state, queueTaken) ELSE file
      /\ dict' \in InQueue(new, queueTaken, full)
      /\ room' = left - 1 /\ state' = IF full THEN LEMMA_DIRTY ELSE Dirty(LEMMA_DIRTY)
      /\ caches' = NoSearches /\ misses' = NoSearches
  BY DEF PutNew, ForgetSearches
<1>2. \A i \in Live(dict) : LemmaAt(dict, i) # l
  BY <1>0, <1>1, LocateIs
<1>3. /\ Sound(base) /\ Behind(file', base, s, left) /\ left # 0
      /\ \A i \in Live(base) : LemmaAt(base, i) # l
  <2>1. CASE full
    <3>1. base = Loaded(file') /\ file' = Flushed(dict, state, queueTaken) /\ s = SYNC /\ left = PreAlloc
      BY <1>1, <2>1
    <3>2. PICK d \in {dict, NoLemmas} : Holds(file', d) /\ Sound(d)
      BY <1>0, <3>1, FlushedIs
    <3>3. /\ Sound(base) /\ Behind(file', base, SYNC, PreAlloc) /\ Live(base) = Live(d)
          /\ \A i : LemmaAt(base, i) = LemmaAt(d, i)
      BY <3>1, <3>2, LoadKeeps
    <3>4. \A i \in Live(d) : LemmaAt(d, i) # l
      BY <1>2, NoLemmasIs
    <3> QED
      BY <3>1, <3>3, <3>4, UserDictAssumption
  <2>2. CASE ~full
    BY <1>0, <1>1, <1>2, <2>2
  <2> QED
    BY <2>1, <2>2
<1> HIDE DEF base, left, s
<1>4. Sound(new) /\ new.lemmas = Append(base.lemmas, l) /\ Len(base.offsets) \in Nat
      /\ Entries(new) = 1..Len(base.offsets) + 1
  BY <1>3, AddedIs
<1> HIDE DEF new
<1>5. Sound(dict') /\ dict'.lemmas = new.lemmas
  <2>1. dict.syncs \in Seq(Int) /\ full \in BOOLEAN
    BY <1>0 DEF Sound, Dicts
  <2> HIDE DEF full
  <2> QED
    BY <1>1, <1>4, <2>1, InQueueIs
<1>6. state' = LEMMA_DIRTY
  BY <1>0, <1>1 DEF Behind, Dirty, SYNC, LEMMA_DIRTY
<1>7. Behind(file', dict', LEMMA_DIRTY, left - 1)
  BY <1>3, <1>4, <1>5, AppendBehind
<1>8. Remembered(dict', caches', misses')
  BY <1>1, ForgottenIs
<1> QED
  BY <1>1, <1>5, <1>6, <1>7, <1>8 DEF UserDictInv

\* A file that is written after defragment is written whole.
LEMMA RewrittenIs ==
  ASSUME NEW d, Sound(d)
  PROVE  Holds(WrittenBack(d, DEFRAGMENTED), d)
<1> DEFINE f == [d EXCEPT !.ids = <<>>, !.byId = <<>>, !.lemmas = d.lemmas, !.offsets = d.offsets,
                          !.predicts = d.predicts, !.scores = d.scores]
<1>1. WrittenBack(d, DEFRAGMENTED) = f
  BY DEF WrittenBack, DEFRAGMENTED, LEMMA_DIRTY, OFFSET_DIRTY, SCORE_DIRTY, SYNC
<1>2. d \in Dicts /\ <<>> \in Seq(Nat)
  BY DEF Sound
<1>3. f \in Dicts /\ f.lemmas = d.lemmas /\ f.offsets = d.offsets /\ f.predicts = d.predicts /\ f.scores = d.scores
  BY <1>2 DEF Dicts
<1> HIDE DEF f
<1> QED
  BY <1>1, <1>3 DEF Holds

\* What a reclaim leaves are entries that were there.
LEMMA ReclaimLeaves ==
  ASSUME UserDictInv, NEW order \in [1..(Len(dict.offsets) * Ratio) \div 100 -> Entries(dict)],
         NEW d, d = Defragmented(Reclaimed(order)),
         NEW disk, disk = WrittenBack(d, IF d = dict THEN state ELSE DEFRAGMENTED)
  PROVE  /\ Sound(d) /\ Holds(disk, d)
         /\ \A i \in Live(d) : \E j \in Live(dict) : /\ LemmaAt(d, i) = LemmaAt(dict, j)
                                                     /\ d.scores[i] = dict.scores[j]
<1> DEFINE N == (Len(dict.offsets) * Ratio) \div 100
           r == Reclaimed(order)
           n == Cardinality(Live(r))
<1>0. Sound(dict) /\ Behind(file, dict, state, room) /\ Live(dict) \subseteq Entries(dict)
  BY DEF UserDictInv, Live
<1>1. N \in Nat
  <2>1. Len(dict.offsets) \in Nat /\ Ratio \in Nat
    BY <1>0, EntriesAre, UserDictAssumption DEF Sound
  <2>2. Len(dict.offsets) * Ratio \in Nat
    BY <2>1
  <2> QED
    BY <2>2
<1> HIDE DEF N
<1>2. Len(order) = N /\ \A k \in 1..N : order[k] \in Entries(dict)
  <2> DEFINE S == Entries(dict)
  <2>1. order \in [1..N -> S]
    BY DEF N
  <2> HIDE DEF S
  <2>2. order \in Seq(S)
    BY <1>1, <2>1
  <2>3. \A k \in 1..N : order[k] \in S
    BY <2>1
  <2>4. Len(order) \in Nat /\ DOMAIN order = 1..Len(order) /\ DOMAIN order = 1..N
    BY <2>1, <2>2, LenProperties
  <2>5. Len(order) = N
    BY <1>1, <2>4
  <2> QED
    BY <2>3, <2>5 DEF S
<1>3. /\ Sound(r) /\ Entries(r) = Entries(dict) /\ Live(r) \subseteq Live(dict)
      /\ \A i \in Entries(dict) : LemmaAt(r, i) = LemmaAt(dict, i)
      /\ r.scores = dict.scores
  BY <1>0, <1>1, <1>2, ReclaimedIs
<1> HIDE DEF r
<1>4. /\ Sound(d) /\ Live(d) = 1..n
      /\ \A k \in 1..n : /\ Kept(r)[k] \in Live(r) /\ LemmaAt(d, k) = LemmaAt(r, Kept(r)[k])
                         /\ d.scores[k] = r.scores[Kept(r)[k]]
  BY <1>3, DefragmentedIs DEF r
<1> HIDE DEF n
<1>5. ASSUME NEW i \in Live(d)
      PROVE  \E j \in Live(dict) : LemmaAt(d, i) = LemmaAt(dict, j) /\ d.scores[i] = dict.scores[j]
  <2>1. i \in 1..n
    BY <1>4
  <2>2. Kept(r)[i] \in Live(r) /\ LemmaAt(d, i) = LemmaAt(r, Kept(r)[i]) /\ d.scores[i] = r.scores[Kept(r)[i]]
    BY <1>4, <2>1
  <2>3. Kept(r)[i] \in Live(dict) /\ Kept(r)[i] \in Entries(dict)
    BY <1>0, <1>3, <2>2
  <2>4. LemmaAt(d, i) = LemmaAt(dict, Kept(r)[i]) /\ d.scores[i] = dict.scores[Kept(r)[i]]
    BY <1>3, <2>2, <2>3
  <2> QED
    BY <2>3, <2>4
<1>6. Holds(disk, d)
  <2>1. CASE d = dict
    <3>1. disk = WrittenBack(dict, state)
      BY <2>1
    <3> QED
      BY <1>0, <2>1, <3>1, WrittenBackIs
  <2>2. CASE d # dict
    BY <1>4, <2>2, RewrittenIs
  <2> QED
    BY <2>1, <2>2
<1> QED
  BY <1>4, <1>5, <1>6

LEMMA ReclaimKeeps ==
  ASSUME UserDictInv, NEW l \in Lemmas, NEW freq \in 1..MaxFreq, ReclaimAndPut(l, freq)
  PROVE  UserDictInv'
<1>0. Sound(dict) /\ Remembered(dict, caches, misses)
  BY DEF UserDictInv
<1>1. /\ Locate(l) = 0 /\ caches' = NoSearches /\ misses' = NoSearches
      /\ \E order \in [1..(Len(dict.offsets) * Ratio) \div 100 -> Entries(dict)] :
           LET d    == Defragmented(Reclaimed(order))
               disk == WrittenBack(d, IF d = dict THEN state ELSE DEFRAGMENTED)
               base == Loaded(disk)
           IN  /\ file' = disk
               /\ IF AtLimit(base)
                  THEN dict' = base /\ room' = PreAlloc /\ state' = SYNC
                  ELSE dict' = Added(base, l, freq) /\ room' = PreAlloc - 1 /\ state' = LEMMA_DIRTY
  BY DEF ReclaimAndPut, ForgetSearches
<1>2. PICK order \in [1..(Len(dict.offsets) * Ratio) \div 100 -> Entries(dict)] :
           LET d    == Defragmented(Reclaimed(order))
               disk == WrittenBack(d, IF d = dict THEN state ELSE DEFRAGMENTED)
               base == Loaded(disk)
           IN  /\ file' = disk
               /\ IF AtLimit(base)
                  THEN dict' = base /\ room' = PreAlloc /\ state' = SYNC
                  ELSE dict' = Added(base, l, freq) /\ room' = PreAlloc - 1 /\ state' = LEMMA_DIRTY
  BY <1>1, Zenon
<1> DEFINE d    == Defragmented(Reclaimed(order))
           disk == WrittenBack(d, IF d = dict THEN state ELSE DEFRAGMENTED)
           base == Loaded(disk)
           new  == Added(base, l, freq)
<1>3. /\ file' = disk
      /\ \/ dict' = base /\ room' = PreAlloc /\ state' = SYNC
         \/ dict' = new /\ room' = PreAlloc - 1 /\ state' = LEMMA_DIRTY
  BY <1>2, Zenon
<1>4. disk = WrittenBack(d, IF d = dict THEN state ELSE DEFRAGMENTED) /\ d = Defragmented(Reclaimed(order))
  OBVIOUS
<1> HIDE DEF d, disk
<1>5. /\ Sound(d) /\ Holds(disk, d)
      /\ \A i \in Live(d) : \E j \in Live(dict) : LemmaAt(d, i) = LemmaAt(dict, j)
  BY <1>4, ReclaimLeaves
<1>6. /\ Sound(base) /\ Live(base) = Live(d) /\ Behind(disk, base, SYNC, PreAlloc)
      /\ \A i : LemmaAt(base, i) = LemmaAt(d, i)
  BY <1>5, LoadKeeps
<1> HIDE DEF base
<1>7. \A i \in Live(dict) : LemmaAt(dict, i) # l
  BY <1>0, <1>1, LocateIs
<1>8. \A i \in Live(base) : LemmaAt(base, i) # l
  BY <1>5, <1>6, <1>7
<1>9. Sound(new) /\ new.lemmas = Append(base.lemmas, l)
  BY <1>6, <1>8, AddedIs
<1> HIDE DEF new
<1>10. PreAlloc # 0
  BY UserDictAssumption
<1>11. Behind(disk, new, LEMMA_DIRTY, PreAlloc - 1)
  BY <1>6, <1>9, <1>10, AppendBehind
<1>12. Remembered(dict', caches', misses')
  BY <1>1, ForgottenIs
<1>13. Sound(dict') /\ Behind(file', dict', state', room')
  BY <1>3, <1>6, <1>9, <1>11
<1> QED
  BY <1>12, <1>13 DEF UserDictInv

-----------------------------------------------------------------------------
(* The theorem.                                                               *)

LEMMA InitIsSound == UserDictInit => UserDictInv
<1> SUFFICES ASSUME UserDictInit PROVE UserDictInv
  OBVIOUS
<1>1. dict = NoLemmas /\ file = NoLemmas /\ state = SYNC /\ room = PreAlloc /\ caches = NoSearches /\ misses = NoSearches
  BY DEF UserDictInit
<1>2. Sound(NoLemmas)
  BY NoLemmasIs
<1>3. Holds(NoLemmas, NoLemmas)
  BY <1>2 DEF Holds, Sound
<1>4. Behind(file, dict, state, room)
  BY <1>1, <1>2, <1>3, LoadedIsBehind
<1> QED
  BY <1>1, <1>2, <1>4, ForgottenIs DEF UserDictInv

LEMMA NextKeeps ==
  ASSUME RoomForAnswers, UserDictInv, [UserDictNext]_udVars
  PROVE  UserDictInv'
<1>1. CASE UNCHANGED udVars
  <2>1. UNCHANGED <<dict, room, state, caches, misses, file>>
    BY <1>1 DEF udVars
  <2> QED
    BY <2>1 DEF UserDictInv
<1>2. ASSUME NEW q \in Queries, GetLpis(q) PROVE UserDictInv'
  BY <1>2, GetLpisKeeps
<1>3. ASSUME NEW l \in Lemmas, NEW freq \in 1..MaxFreq,
             PutLemma(l, freq) \/ PutNoSync(l, freq) \/ ReclaimAndPut(l, freq)
      PROVE  UserDictInv'
  <2>1. CASE PutLemma(l, freq)
    <3>1. PutScore(l, freq) \/ PutNew(l, freq, FALSE)
      BY <2>1 DEF PutLemma
    <3>2. FALSE \in BOOLEAN
      OBVIOUS
    <3> QED
      BY <3>1, <3>2, PutScoreKeeps, PutNewKeeps
  <2>2. CASE PutNoSync(l, freq)
    <3>1. PutScore(l, freq) \/ PutNew(l, freq, TRUE)
      BY <2>2 DEF PutNoSync
    <3>2. TRUE \in BOOLEAN
      OBVIOUS
    <3> QED
      BY <3>1, <3>2, PutScoreKeeps, PutNewKeeps
  <2>3. CASE ReclaimAndPut(l, freq)
    BY <2>3, ReclaimKeeps
  <2> QED
    BY <1>3, <2>1, <2>2, <2>3
<1>4. ASSUME NEW id \in 1..Len(dict.byId), UpdateLemma(id) \/ RemoveLemma(id) PROVE UserDictInv'
  BY <1>4, UpdateKeeps, RemoveKeeps
<1>5. ASSUME NEW n \in 1..MaxSyncs, ClearSync(n) PROVE UserDictInv'
  BY <1>5, ClearKeeps
<1>6. CASE FlushCache
  BY <1>6, FlushKeeps
<1>7. CASE CloseAndLoad
  BY <1>7, CloseKeeps
<1> QED
  BY <1>1, <1>2, <1>3, <1>4, <1>5, <1>6, <1>7 DEF UserDictNext

\* The statement of the module in the terms of the proof.
LEMMA SoundAgrees ==
  ASSUME NEW d, Sound(d)
  PROVE  Agree(d)
<1> DEFINE n == Len(d.offsets)
<1>0. /\ d \in Dicts /\ Placed(d) /\ Numbered(d) /\ Predicted(d) /\ LiveOnce(d) /\ Ordered(d)
      /\ n \in Nat /\ Entries(d) = 1..n
  BY EntriesAre DEF Sound, Entries
<1>1. n = Len(d.lemmas) /\ n = Len(d.scores) /\ Len(d.predicts) = n
  BY <1>0 DEF Placed, Predicted
<1>2. {d.offsets[i].at : i \in Entries(d)} = 1..n
  BY <1>0 DEF Placed
<1>3. {d.ids[i] : i \in Entries(d)} = 1..n
  BY <1>0 DEF Numbered
<1>4. \A i \in Entries(d) : d.byId[d.ids[i]] = d.offsets[i].at
  BY <1>0 DEF Numbered
<1>5. ToSet(d.predicts) = ToSet(d.offsets)
  <2>1. ToSet(d.predicts) = {d.predicts[k] : k \in 1..n} /\ ToSet(d.offsets) = {d.offsets[k] : k \in 1..n}
    BY <1>1 DEF ToSet
  <2>2. \A k \in 1..n : \E i \in 1..n : d.predicts[k] = d.offsets[i]
    BY <1>0 DEF Predicted
  <2>3. \A i \in 1..n : \E k \in 1..n : d.predicts[k] = d.offsets[i]
    BY <1>0 DEF Predicted
  <2> HIDE DEF n
  <2> QED
    BY <2>1, <2>2, <2>3
<1>6. ASSUME NEW i \in Entries(d), NEW j \in Entries(d), i < j
      PROVE  FuzzyCompare(LemmaAt(d, i).spl, Signature(QueryOf(LemmaAt(d, j)))) <= 0
  <2>1. LemmaAt(d, i).spl \in Spellings /\ LemmaAt(d, j) \in Lemmas /\ Sig(d, j) \in Sigs
    BY <1>0, EntriesAre
  <2>2. Signature(QueryOf(LemmaAt(d, j))) = Sig(d, j)
    BY <2>1, QueryOfIs DEF Sig
  <2>3. ~Lower(Sig(d, j), Initials(LemmaAt(d, i).spl))
    BY <1>0, <1>6 DEF Ordered, Sig
  <2>4. ~(FuzzyCompare(LemmaAt(d, i).spl, Sig(d, j)) > 0) /\ FuzzyCompare(LemmaAt(d, i).spl, Sig(d, j)) \in Int
    BY <2>1, <2>3, CompareIsPositive, CompareIs
  <2> QED
    BY <2>2, <2>4
<1> QED
  BY <1>0, <1>1, <1>2, <1>3, <1>4, <1>5, <1>6 DEF Agree, LiveOnce

\* The tables of the user dictionary agree and its searches find what they are
\* for, after any sequence of the calls of either client: insertions, removals,
\* compactions, write-backs and reloads.
THEOREM TablesAndLookupsCorrect == RoomForAnswers => (UserDictSpec => [](TablesAgree /\ LookupIsComplete))
<1> SUFFICES ASSUME RoomForAnswers PROVE UserDictSpec => [](TablesAgree /\ LookupIsComplete)
  OBVIOUS
<1>1. UserDictInit => UserDictInv
  BY InitIsSound
<1>2. UserDictInv /\ [UserDictNext]_udVars => UserDictInv'
  BY NextKeeps
<1>3. UserDictInv => TablesAgree /\ LookupIsComplete
  <2> SUFFICES ASSUME UserDictInv PROVE TablesAgree /\ LookupIsComplete
    OBVIOUS
  <2>0. Sound(dict) /\ Remembered(dict, caches, misses) /\ room \in 0..PreAlloc
    BY DEF UserDictInv, Behind
  <2>1. TablesAgree
    BY <2>0, SoundAgrees DEF TablesAgree
  <2>2. \A q \in Queries :
          Search(q).found = {l \in DOMAIN Content(dict) : Len(l.spl) = Len(q) /\ SpellPrefix(l.spl, q)}
    BY <2>0, SearchIsWhole
  <2>3. \A l \in DOMAIN Content(dict) : Locate(l) # 0
    <3> SUFFICES ASSUME NEW i \in Live(dict) PROVE Locate(LemmaAt(dict, i)) # 0
      BY DEF Content
    <3>1. LemmaAt(dict, i) \in Lemmas
      BY <2>0, EntriesAre DEF Sound
    <3> QED
      BY <2>0, <3>1, LocateIs
  <2> QED
    BY <2>1, <2>2, <2>3 DEF LookupIsComplete
<1> QED
  BY <1>1, <1>2, <1>3, PTL DEF UserDictSpec

\* Where no lemma begins with another, what put_lemma, update_lemma and
\* remove_lemma take for a lemma is that lemma.
LEMMA LocateIsTheLemma ==
  ASSUME NoneBegins, UserDictInv, NEW l \in Lemmas, Locate(l) # 0
  PROVE  Locate(l) \in Live(dict) /\ LemmaAt(dict, Locate(l)) = l
<1>0. Sound(dict) /\ Remembered(dict, caches, misses)
  BY DEF UserDictInv
<1> DEFINE i == Locate(l)
<1>1. i \in Live(dict) /\ Begins(l, LemmaAt(dict, i))
  BY <1>0, LocateIs
<1> HIDE DEF i
<1>2. LemmaAt(dict, i) \in Lemmas
  BY <1>0, <1>1, EntriesAre DEF Sound
<1>3. l = LemmaAt(dict, i)
  BY <1>1, <1>2 DEF NoneBegins, Begins
<1> QED
  BY <1>1, <1>3 DEF i

\* With lemmas none of which begins with another, the user dictionary is
\* consistent: the tables agree, and both lookups are complete and exact.
THEOREM UserDictCorrect ==
  RoomForAnswers /\ NoneBegins => (UserDictSpec => []UserDictIsConsistent)
<1> SUFFICES ASSUME RoomForAnswers, NoneBegins PROVE UserDictSpec => []UserDictIsConsistent
  OBVIOUS
<1>1. UserDictInit => UserDictInv
  BY InitIsSound
<1>2. UserDictInv /\ [UserDictNext]_udVars => UserDictInv'
  BY NextKeeps
<1>3. UserDictInv => LocateIsExact
  BY LocateIsTheLemma DEF LocateIsExact
<1>4. UserDictSpec => [](TablesAgree /\ LookupIsComplete)
  BY TablesAndLookupsCorrect
<1>5. TablesAgree /\ LookupIsComplete /\ LocateIsExact => UserDictIsConsistent
  BY DEF UserDictIsConsistent
<1> QED
  BY <1>1, <1>2, <1>3, <1>4, <1>5, PTL DEF UserDictSpec

-----------------------------------------------------------------------------
(* The refinement: what the dictionary holds is the store of LemmaStore.      *)

\* A function is the content of a dictionary if it says of each live entry its
\* score, and of nothing else anything.
Tells(c, d) ==
  /\ c = [l \in DOMAIN c |-> c[l]]
  /\ \A i \in Live(d) : LemmaAt(d, i) \in DOMAIN c /\ c[LemmaAt(d, i)] = d.scores[i]
  /\ \A l \in DOMAIN c : \E i \in Live(d) : LemmaAt(d, i) = l

LEMMA ContentTells ==
  ASSUME NEW d, Sound(d)
  PROVE  Tells(Content(d), d)
<1> DEFINE D == {LemmaAt(d, i) : i \in Live(d)}
           c == [l \in D |-> d.scores[CHOOSE i \in Live(d) : LemmaAt(d, i) = l]]
<1>1. Content(d) = c
  BY DEF Content
<1>2. DOMAIN c = D /\ c = [l \in DOMAIN c |-> c[l]]
  OBVIOUS
<1>3. ASSUME NEW i \in Live(d) PROVE LemmaAt(d, i) \in D /\ c[LemmaAt(d, i)] = d.scores[i]
  <2> DEFINE j == CHOOSE j \in Live(d) : LemmaAt(d, j) = LemmaAt(d, i)
  <2>1. j \in Live(d) /\ LemmaAt(d, j) = LemmaAt(d, i)
    OBVIOUS
  <2>2. j = i
    BY <2>1 DEF Sound, LiveOnce
  <2>3. c[LemmaAt(d, i)] = d.scores[j]
    OBVIOUS
  <2> QED
    BY <2>2, <2>3
<1>4. \A l \in D : \E i \in Live(d) : LemmaAt(d, i) = l
  OBVIOUS
<1> HIDE DEF c, D
<1>5. Tells(c, d)
  BY <1>2, <1>3, <1>4 DEF Tells
<1> QED
  BY <1>1, <1>5

LEMMA ToldOnce ==
  ASSUME NEW d, NEW b, NEW c, Tells(b, d), Tells(c, d)
  PROVE  b = c
<1>1. \A l : l \in DOMAIN b <=> l \in DOMAIN c
  BY DEF Tells
<1>2. DOMAIN b = DOMAIN c
  BY <1>1
<1>3. ASSUME NEW l \in DOMAIN b PROVE b[l] = c[l]
  BY <1>3 DEF Tells
<1>4. b = [l \in DOMAIN b |-> b[l]] /\ c = [l \in DOMAIN c |-> c[l]]
  BY DEF Tells
<1> QED
  BY <1>2, <1>3, <1>4

\* The content of a dictionary is a store.
LEMMA ContentIsStore ==
  ASSUME NEW d, Sound(d)
  PROVE  Content(d) \in [DOMAIN Content(d) -> 1..MaxFreq] /\ DOMAIN Content(d) \subseteq Lemmas
<1> DEFINE c == Content(d)
<1>1. Tells(c, d)
  BY ContentTells
<1> HIDE DEF c
<1>2. /\ \A i \in Live(d) : LemmaAt(d, i) \in Lemmas
      /\ d.scores \in Seq(1..MaxFreq) /\ Len(d.scores) = Len(d.offsets) /\ Live(d) \subseteq Entries(d)
  BY EntriesAre DEF Sound, Placed, Dicts
<1>3. \A i \in Live(d) : d.scores[i] \in 1..MaxFreq
  BY <1>2, ElementOfSeq DEF Entries
<1>4. ASSUME NEW l \in DOMAIN c PROVE l \in Lemmas /\ c[l] \in 1..MaxFreq
  <2>1. PICK i \in Live(d) : LemmaAt(d, i) = l
    BY <1>1 DEF Tells
  <2>2. c[LemmaAt(d, i)] = d.scores[i]
    BY <1>1 DEF Tells
  <2> QED
    BY <1>2, <1>3, <2>1, <2>2
<1>5. c = [l \in DOMAIN c |-> c[l]]
  BY <1>1 DEF Tells
<1>6. c \in [DOMAIN c -> 1..MaxFreq] /\ DOMAIN c \subseteq Lemmas
  BY <1>4, <1>5
<1> QED
  BY <1>6 DEF c

\* Two dictionaries with the same live entries and scores have one content.
LEMMA SameContent ==
  ASSUME NEW d, NEW e, Sound(d), Sound(e), Live(e) = Live(d), e.scores = d.scores,
         \A i \in Live(d) : LemmaAt(e, i) = LemmaAt(d, i)
  PROVE  Content(e) = Content(d)
<1> DEFINE b == Content(d)
           c == Content(e)
<1>1. Tells(b, d) /\ Tells(c, e)
  BY ContentTells
<1> HIDE DEF b, c
<1>2. Tells(b, e)
  BY <1>1 DEF Tells
<1>3. c = b
  BY <1>1, <1>2, ToldOnce
<1> QED
  BY <1>3 DEF b, c

\* A score stored anew changes one frequency.
LEMMA ScoredContent ==
  ASSUME NEW d, Sound(d), NEW i \in Live(d), NEW freq \in 1..MaxFreq
  PROVE  LET e == [d EXCEPT !.scores[i] = freq]
             l == LemmaAt(d, i)
         IN  /\ l \in DOMAIN Content(d) /\ Content(d)[l] = d.scores[i]
             /\ Content(e) = [m \in DOMAIN Content(d) |-> IF m = l THEN freq ELSE Content(d)[m]]
<1> DEFINE e == [d EXCEPT !.scores[i] = freq]
           l == LemmaAt(d, i)
           b == Content(d)
           c == [m \in DOMAIN b |-> IF m = l THEN freq ELSE b[m]]
<1>1. i \in Entries(d) /\ Live(d) \subseteq Entries(d)
  BY DEF Live
<1>2. /\ Sound(e) /\ Live(e) = Live(d) /\ \A j : LemmaAt(e, j) = LemmaAt(d, j)
  BY <1>1, ScoredIs
<1>3. \A j \in Live(d) : e.scores[j] = IF j = i THEN freq ELSE d.scores[j]
  <2>1. /\ d \in Dicts /\ d.scores \in Seq(1..MaxFreq) /\ Len(d.scores) = Len(d.offsets)
        /\ LiveOnce(d)
    BY DEF Sound, Dicts, Placed
  <2>2. e.scores = [d.scores EXCEPT ![i] = freq]
    BY <2>1 DEF Dicts
  <2>3. i \in 1..Len(d.scores) /\ \A j \in Live(d) : j \in 1..Len(d.scores)
    BY <1>1, <2>1 DEF Entries
  <2> HIDE DEF e
  <2>4. DOMAIN d.scores = 1..Len(d.scores)
    BY <2>1, LenProperties
  <2> QED
    BY <2>2, <2>3, <2>4
<1>4. Tells(b, d)
  BY ContentTells
<1>5. Tells(Content(e), e)
  BY <1>2, ContentTells
<1> HIDE DEF b, e
<1>6. DOMAIN c = DOMAIN b /\ \A m \in DOMAIN b : c[m] = IF m = l THEN freq ELSE b[m]
  OBVIOUS
<1>7. c = [m \in DOMAIN c |-> c[m]]
  OBVIOUS
<1> HIDE DEF c
<1>8. ASSUME NEW j \in Live(d)
      PROVE  LemmaAt(d, j) \in DOMAIN b /\ b[LemmaAt(d, j)] = d.scores[j] /\ (LemmaAt(d, j) = l <=> j = i)
  <2>1. LemmaAt(d, j) = LemmaAt(d, i) => j = i
    BY DEF Sound, LiveOnce
  <2> QED
    BY <1>4, <2>1 DEF Tells
<1>9. ASSUME NEW j \in Live(e) PROVE LemmaAt(e, j) \in DOMAIN c /\ c[LemmaAt(e, j)] = e.scores[j]
  <2>1. j \in Live(d) /\ LemmaAt(e, j) = LemmaAt(d, j)
    BY <1>2
  <2>2. e.scores[j] = IF j = i THEN freq ELSE d.scores[j]
    BY <1>3, <2>1
  <2>3. LemmaAt(d, j) \in DOMAIN b /\ b[LemmaAt(d, j)] = d.scores[j] /\ (LemmaAt(d, j) = l <=> j = i)
    BY <1>8, <2>1
  <2>4. c[LemmaAt(d, j)] = IF LemmaAt(d, j) = l THEN freq ELSE b[LemmaAt(d, j)]
    BY <1>6, <2>3
  <2> QED
    BY <1>6, <2>1, <2>2, <2>3, <2>4
<1>10. \A m \in DOMAIN c : \E j \in Live(e) : LemmaAt(e, j) = m
  BY <1>2, <1>4, <1>6 DEF Tells
<1>11. Tells(c, e)
  BY <1>7, <1>9, <1>10 DEF Tells
<1>12. Content(e) = c
  BY <1>5, <1>11, ToldOnce
<1>13. l \in DOMAIN b /\ b[l] = d.scores[i]
  BY <1>8
<1> QED
  BY <1>12, <1>13 DEF b, c, e

\* A lemma that is added, or stored anew, is in the content with its frequency.
Stores(b, c, l, freq) == c = [m \in DOMAIN b \cup {l} |-> IF m = l THEN freq ELSE b[m]]

LEMMA AddedContent ==
  ASSUME NEW d, Sound(d), NEW l \in Lemmas, NEW freq \in 1..MaxFreq,
         \A i \in Live(d) : LemmaAt(d, i) # l
  PROVE  Stores(Content(d), Content(Added(d, l, freq)), l, freq)
<1> DEFINE e == Added(d, l, freq)
           n == Len(d.offsets)
           pos == SlotIn(d, Initials(l.spl))
           b == Content(d)
           c == [m \in DOMAIN b \cup {l} |-> IF m = l THEN freq ELSE b[m]]
<1>1. /\ Sound(e) /\ n \in Nat /\ pos \in 1..n + 1 /\ Entries(d) = 1..n /\ Entries(e) = 1..n + 1
      /\ pos \in Live(e) /\ LemmaAt(e, pos) = l /\ e.scores[pos] = freq
      /\ \A k \in 1..n + 1 : k # pos =>
           /\ Old(pos, k) \in 1..n /\ LemmaAt(e, k) = LemmaAt(d, Old(pos, k))
           /\ e.scores[k] = d.scores[Old(pos, k)] /\ (k \in Live(e) <=> Old(pos, k) \in Live(d))
  BY AddedIs
<1>2. Tells(b, d)
  BY ContentTells
<1>3. Tells(Content(e), e)
  BY <1>1, ContentTells
<1> HIDE DEF b, e, pos, n
<1>4. DOMAIN c = DOMAIN b \cup {l} /\ c = [m \in DOMAIN c |-> c[m]] /\ c[l] = freq
  OBVIOUS
<1>5. ASSUME NEW m \in DOMAIN b, m # l PROVE c[m] = b[m]
  BY <1>5
<1>6. \A m \in DOMAIN b : m # l
  BY <1>2 DEF Tells
<1> HIDE DEF c
<1>7. ASSUME NEW k \in Live(e) PROVE LemmaAt(e, k) \in DOMAIN c /\ c[LemmaAt(e, k)] = e.scores[k]
  <2>1. k \in 1..n + 1
    BY <1>1 DEF Live
  <2>2. CASE k = pos
    BY <1>1, <1>4, <2>2
  <2>3. CASE k # pos
    <3> DEFINE j == Old(pos, k)
    <3>1. LemmaAt(e, k) = LemmaAt(d, j) /\ e.scores[k] = d.scores[j] /\ j \in Live(d)
      BY <1>1, <2>1, <2>3
    <3> HIDE DEF j
    <3>2. LemmaAt(d, j) \in DOMAIN b /\ b[LemmaAt(d, j)] = d.scores[j] /\ LemmaAt(d, j) # l
      BY <1>2, <3>1 DEF Tells
    <3>3. c[LemmaAt(d, j)] = b[LemmaAt(d, j)]
      BY <1>5, <3>2
    <3> QED
      BY <1>4, <3>1, <3>2, <3>3
  <2> QED
    BY <2>2, <2>3
<1>8. ASSUME NEW m \in DOMAIN c PROVE \E k \in Live(e) : LemmaAt(e, k) = m
  <2>1. CASE m = l
    BY <1>1, <2>1
  <2>2. CASE m # l
    <3>1. m \in DOMAIN b
      BY <1>4, <2>2
    <3>2. PICK i \in Live(d) : LemmaAt(d, i) = m
      BY <1>2, <3>1 DEF Tells
    <3>3. i \in 1..n
      BY <1>1 DEF Live
    <3>4. \A j \in 1..n : \E k \in 1..n + 1 : k # pos /\ Old(pos, k) = j
      <4>1. Moved(n, pos)
        BY <1>1, OldIs
      <4> QED
        BY <4>1 DEF Moved
    <3>5. PICK k \in 1..n + 1 : k # pos /\ Old(pos, k) = i
      BY <3>3, <3>4
    <3>6. k \in Live(e) /\ LemmaAt(e, k) = m
      BY <1>1, <3>2, <3>5
    <3> QED
      BY <3>6
  <2> QED
    BY <2>1, <2>2
<1>9. Tells(c, e)
  BY <1>4, <1>7, <1>8 DEF Tells
<1>10. Content(e) = c
  BY <1>3, <1>9, ToldOnce
<1> QED
  BY <1>10 DEF Stores, b, c, e

\* A removal takes one lemma out of the content.
LEMMA RemovedContent ==
  ASSUME NEW d, Sound(d), NEW i \in Live(d)
  PROVE  LET l == LemmaAt(d, i)
         IN  /\ l \in DOMAIN Content(d)
             /\ Content(Removed(d, i)) = [m \in DOMAIN Content(d) \ {l} |-> Content(d)[m]]
<1> DEFINE e == Removed(d, i)
           l == LemmaAt(d, i)
           b == Content(d)
           c == [m \in DOMAIN b \ {l} |-> b[m]]
<1>1. i \in Entries(d) /\ Live(d) \subseteq Entries(d)
  BY DEF Live
<1>2. /\ Sound(e) /\ Live(e) = Live(d) \ {i} /\ \A j \in Entries(d) : LemmaAt(e, j) = LemmaAt(d, j)
      /\ e.scores = d.scores
  BY <1>1, RemovedIs
<1>3. Tells(b, d)
  BY ContentTells
<1>4. Tells(Content(e), e)
  BY <1>2, ContentTells
<1> HIDE DEF b, e
<1>5. DOMAIN c = DOMAIN b \ {l} /\ c = [m \in DOMAIN c |-> c[m]] /\ \A m \in DOMAIN c : c[m] = b[m]
  OBVIOUS
<1> HIDE DEF c
<1>6. ASSUME NEW j \in Live(e) PROVE LemmaAt(e, j) \in DOMAIN c /\ c[LemmaAt(e, j)] = e.scores[j]
  <2>1. j \in Live(d) /\ j # i /\ LemmaAt(e, j) = LemmaAt(d, j)
    BY <1>1, <1>2
  <2>2. LemmaAt(d, j) # l
    BY <2>1 DEF Sound, LiveOnce
  <2>3. LemmaAt(d, j) \in DOMAIN b /\ b[LemmaAt(d, j)] = d.scores[j]
    BY <1>3, <2>1 DEF Tells
  <2>4. LemmaAt(d, j) \in DOMAIN c
    BY <1>5, <2>2, <2>3
  <2>5. c[LemmaAt(d, j)] = b[LemmaAt(d, j)]
    BY <1>5, <2>4
  <2> QED
    BY <1>2, <2>1, <2>3, <2>4, <2>5
<1>7. ASSUME NEW m \in DOMAIN c PROVE \E j \in Live(e) : LemmaAt(e, j) = m
  <2>1. m \in DOMAIN b /\ m # l
    BY <1>5
  <2>2. PICK j \in Live(d) : LemmaAt(d, j) = m
    BY <1>3, <2>1 DEF Tells
  <2>3. j # i
    BY <2>1, <2>2
  <2> QED
    BY <1>1, <1>2, <2>2, <2>3
<1>8. Tells(c, e)
  BY <1>5, <1>6, <1>7 DEF Tells
<1>9. Content(e) = c
  BY <1>4, <1>8, ToldOnce
<1>10. l \in DOMAIN b
  BY <1>3 DEF Tells
<1> QED
  BY <1>9, <1>10 DEF b, c, e

\* What has only entries of another, with their scores, has part of its content.
LEMMA PartOfContent ==
  ASSUME NEW d, NEW e, Sound(d), Sound(e),
         \A i \in Live(e) : \E j \in Live(d) : LemmaAt(e, i) = LemmaAt(d, j) /\ e.scores[i] = d.scores[j]
  PROVE  /\ DOMAIN Content(e) \subseteq DOMAIN Content(d)
         /\ \A m \in DOMAIN Content(e) : Content(e)[m] = Content(d)[m]
<1> DEFINE b == Content(d)
           c == Content(e)
<1>1. Tells(b, d) /\ Tells(c, e)
  BY ContentTells
<1> HIDE DEF b, c
<1>2. ASSUME NEW m \in DOMAIN c PROVE m \in DOMAIN b /\ c[m] = b[m]
  <2>1. PICK i \in Live(e) : LemmaAt(e, i) = m
    BY <1>1 DEF Tells
  <2>2. PICK j \in Live(d) : LemmaAt(e, i) = LemmaAt(d, j) /\ e.scores[i] = d.scores[j]
    OBVIOUS
  <2>3. c[m] = e.scores[i] /\ m \in DOMAIN b /\ b[m] = d.scores[j]
    BY <1>1, <2>1, <2>2 DEF Tells
  <2> QED
    BY <2>2, <2>3
<1> QED
  BY <1>2 DEF b, c

\* A step of the store, or none.
StoreStep == Store!StoreNext \/ Content(dict') = Content(dict)

LEMMA InPlaceIsNoStep ==
  ASSUME Sound(dict), Sound(dict'), Live(dict') = Live(dict), dict'.scores = dict.scores,
         \A i \in Live(dict) : LemmaAt(dict', i) = LemmaAt(dict, i)
  PROVE  StoreStep
<1>1. Content(dict') = Content(dict)
  BY SameContent
<1> QED
  BY <1>1 DEF StoreStep

LEMMA PutScoreSteps ==
  ASSUME NoneBegins, UserDictInv, NEW l \in Lemmas, NEW freq \in 1..MaxFreq, PutScore(l, freq)
  PROVE  StoreStep
<1> DEFINE i == Locate(l)
           b == Content(dict)
<1>1. Sound(dict) /\ i \in Live(dict) /\ LemmaAt(dict, i) = l
  BY LocateIsTheLemma DEF UserDictInv, PutScore
<1>2. dict' = [dict EXCEPT !.scores[i] = freq]
  BY DEF PutScore
<1> HIDE DEF i
<1>3. /\ l \in DOMAIN b
      /\ Content(dict') = [m \in DOMAIN b |-> IF m = l THEN freq ELSE b[m]]
  BY <1>1, <1>2, ScoredContent
<1>4. DOMAIN b \cup {l} = DOMAIN b
  BY <1>3
<1> HIDE DEF b
<1>5. Content(dict') = [m \in DOMAIN b \cup {l} |-> IF m = l THEN freq ELSE b[m]]
  BY <1>3, <1>4
<1>6. Store!Put(l, freq)
  BY <1>5 DEF Store!Put, b
<1> QED
  BY <1>6 DEF StoreStep, Store!StoreNext

LEMMA UpdateSteps ==
  ASSUME NoneBegins, UserDictInv, NEW id \in 1..Len(dict.byId), UpdateLemma(id)
  PROVE  StoreStep
<1> DEFINE l == dict.lemmas[dict.byId[id]]
           i == Locate(l)
           freq == Min({dict.scores[i] + 1, MaxFreq})
           d == [dict EXCEPT !.scores[i] = freq]
           b == Content(dict)
<1>0. Sound(dict)
  BY DEF UserDictInv
<1>1. l \in Lemmas
  BY <1>0, IdIs
<1>2. i # 0 /\ dict' = Queued(d, dict.ids[i])
  BY DEF UpdateLemma
<1> HIDE DEF l
<1>3. i \in Live(dict) /\ LemmaAt(dict, i) = l /\ i \in Entries(dict)
  BY <1>1, <1>2, LocateIsTheLemma DEF Live
<1> HIDE DEF i
<1>4. dict.scores[i] \in 1..MaxFreq /\ MaxFreq \in Nat \ {0}
  <2>1. dict.scores \in Seq(1..MaxFreq) /\ Len(dict.scores) = Len(dict.offsets) /\ MaxFreq \in Nat \ {0}
    BY <1>0, UserDictAssumption DEF Sound, Dicts, Placed
  <2> QED
    BY <1>3, <2>1 DEF Entries
<1>5. freq = IF dict.scores[i] < MaxFreq THEN dict.scores[i] + 1 ELSE MaxFreq
  <2>1. {dict.scores[i] + 1, MaxFreq} \in SUBSET Nat
    BY <1>4
  <2>2. freq \in {dict.scores[i] + 1, MaxFreq} /\ freq <= MaxFreq /\ freq <= dict.scores[i] + 1
    BY <2>1, MinIs
  <2> HIDE DEF freq
  <2> QED
    BY <1>4, <2>2
<1> HIDE DEF freq
<1>6. freq \in 1..MaxFreq
  BY <1>4, <1>5
<1>7. /\ Sound(d) /\ Entries(d) = Entries(dict)
  BY <1>0, <1>3, <1>6, ScoredIs
<1>8. /\ l \in DOMAIN b /\ b[l] = dict.scores[i]
      /\ Content(d) = [m \in DOMAIN b |-> IF m = l THEN freq ELSE b[m]]
  BY <1>0, <1>3, <1>6, ScoredContent
<1>9. dict.ids[i] \in Entries(dict)
  BY <1>0, <1>3 DEF Sound, Numbered
<1> HIDE DEF d
<1>10. /\ Sound(dict') /\ Live(dict') = Live(d) /\ dict'.scores = d.scores
       /\ \A j \in Live(d) : LemmaAt(dict', j) = LemmaAt(d, j)
  BY <1>2, <1>7, <1>9, QueuedIs
<1>11. Content(dict') = Content(d)
  BY <1>7, <1>10, SameContent
<1>12. b = [m \in DOMAIN b |-> b[m]]
  BY <1>0, ContentTells DEF Tells
<1> HIDE DEF b
<1>13. CASE b[l] < MaxFreq
  <2>1. freq = b[l] + 1
    BY <1>5, <1>8, <1>13
  <2>2. Content(d) = [b EXCEPT ![l] = @ + 1]
    BY <1>8, <1>12, <2>1
  <2>3. Store!Raise(l)
    BY <1>8, <1>11, <1>13, <2>2 DEF Store!Raise, b
  <2> QED
    BY <1>1, <2>3 DEF StoreStep, Store!StoreNext
<1>14. CASE ~(b[l] < MaxFreq)
  <2>1. freq = b[l]
    BY <1>4, <1>5, <1>8, <1>14
  <2>2. Content(d) = b
    BY <1>8, <1>12, <2>1
  <2> QED
    BY <1>11, <2>2 DEF StoreStep, b
<1> QED
  BY <1>13, <1>14

LEMMA RemoveSteps ==
  ASSUME NoneBegins, UserDictInv, NEW id \in 1..Len(dict.byId), RemoveLemma(id)
  PROVE  StoreStep
<1> DEFINE l == dict.lemmas[dict.byId[id]]
           i == Locate(l)
<1>0. Sound(dict)
  BY DEF UserDictInv
<1>1. l \in Lemmas
  BY <1>0, IdIs
<1>2. i # 0 /\ dict' = Removed(dict, i)
  BY DEF RemoveLemma
<1> HIDE DEF l
<1>3. i \in Live(dict) /\ LemmaAt(dict, i) = l
  BY <1>1, <1>2, LocateIsTheLemma
<1> HIDE DEF i
<1>4. /\ l \in DOMAIN Content(dict)
      /\ Content(dict') = [m \in DOMAIN Content(dict) \ {l} |-> Content(dict)[m]]
  BY <1>0, <1>2, <1>3, RemovedContent
<1>5. Store!Forget(l)
  BY <1>4 DEF Store!Forget
<1> QED
  BY <1>1, <1>5 DEF StoreStep, Store!StoreNext

LEMMA ClearSteps ==
  ASSUME UserDictInv, NEW n \in 1..MaxSyncs, ClearSync(n)
  PROVE  StoreStep
<1>0. Sound(dict) /\ dict.syncs \in Seq(Int)
  BY DEF UserDictInv, Sound, Dicts
<1> DEFINE syncs == SubSeq(dict.syncs, n + 1, Len(dict.syncs))
<1>1. dict' = [dict EXCEPT !.syncs = syncs]
  BY DEF ClearSync
<1>2. syncs \in Seq(Int)
  <2>1. n \in 1..Len(dict.syncs)
    BY DEF ClearSync
  <2> QED
    BY <1>0, <2>1
<1> HIDE DEF syncs
<1> QED
  BY <1>0, <1>1, <1>2, ResyncedIs, InPlaceIsNoStep

LEMMA FlushSteps ==
  ASSUME UserDictInv, FlushCache \/ CloseAndLoad
  PROVE  StoreStep
<1> DEFINE d == Loaded(file')
<1>0. Sound(dict) /\ Behind(file, dict, state, room)
  BY DEF UserDictInv
<1>1. file' = Flushed(dict, state, FALSE) /\ (dict' = d \/ dict' = [d EXCEPT !.limit = Limit])
  BY DEF FlushCache, CloseAndLoad
<1>2. Holds(file', dict)
  BY <1>0, <1>1, FlushedIs
<1>3. /\ Sound(d) /\ Live(d) = Live(dict) /\ d.scores = dict.scores /\ Behind(file', d, SYNC, PreAlloc)
      /\ \A i : LemmaAt(d, i) = LemmaAt(dict, i)
  BY <1>0, <1>2, LoadKeeps
<1> HIDE DEF d
<1>4. /\ Sound(dict') /\ Live(dict') = Live(d) /\ dict'.scores = d.scores
      /\ \A i : LemmaAt(dict', i) = LemmaAt(d, i)
  <2>1. CASE dict' = d
    BY <1>3, <2>1
  <2>2. CASE dict' = [d EXCEPT !.limit = Limit]
    <3> DEFINE e == [d EXCEPT !.limit = Limit]
    <3>1. /\ Sound(e) /\ Behind(file', e, SYNC, PreAlloc) /\ Live(e) = Live(d) /\ e.scores = d.scores
          /\ \A i : LemmaAt(e, i) = LemmaAt(d, i)
      BY <1>3, LimitedIs
    <3>2. dict' = e
      BY <2>2
    <3> HIDE DEF e
    <3> QED
      BY <3>1, <3>2
  <2> QED
    BY <1>1, <2>1, <2>2
<1> QED
  BY <1>0, <1>3, <1>4, InPlaceIsNoStep

\* What the sync client puts may take the place of others.
LEMMA RoomMade ==
  ASSUME client = "sync", Sound(dict), NEW base, Sound(base), NEW l \in Lemmas, NEW freq \in 1..MaxFreq,
         \A i \in Live(base) : \E j \in Live(dict) : LemmaAt(base, i) = LemmaAt(dict, j)
                                                   /\ base.scores[i] = dict.scores[j]
  PROVE  /\ Content(dict') = Content(base) => StoreStep
         /\ Stores(Content(base), Content(dict'), l, freq) => StoreStep
<1> DEFINE a == Content(dict)
           b == Content(base)
           c == Content(dict')
<1>1. DOMAIN b \subseteq DOMAIN a /\ \A m \in DOMAIN b : b[m] = a[m]
  BY PartOfContent
<1>2. ASSUME c = b PROVE StoreStep
  <2>1. DOMAIN c \subseteq DOMAIN a /\ \A m \in DOMAIN c : c[m] = a[m]
    BY <1>1, <1>2
  <2>2. Store!MakeRoom
    BY <2>1 DEF Store!MakeRoom
  <2> QED
    BY <2>2 DEF StoreStep, Store!StoreNext
<1>3. ASSUME Stores(b, c, l, freq) PROVE StoreStep
  <2> HIDE DEF a, b, c
  <2>1. c = [m \in DOMAIN b \cup {l} |-> IF m = l THEN freq ELSE b[m]]
    BY <1>3 DEF Stores
  <2>2. l \in DOMAIN c /\ c[l] = freq
    BY <2>1
  <2>3. ASSUME NEW m \in DOMAIN c \ {l} PROVE m \in DOMAIN a /\ c[m] = a[m]
    BY <1>1, <2>1, <2>3
  <2>4. Store!MakeRoomAndPut(l, freq)
    BY <2>2, <2>3 DEF Store!MakeRoomAndPut, a, c
  <2> QED
    BY <2>4 DEF StoreStep, Store!StoreNext
<1> QED
  BY <1>2, <1>3

LEMMA PutNewSteps ==
  ASSUME UserDictInv, NEW l \in Lemmas, NEW freq \in 1..MaxFreq, NEW queueTaken \in BOOLEAN,
         PutNew(l, freq, queueTaken), queueTaken => client = "sync"
  PROVE  StoreStep
<1>0. Sound(dict) /\ Remembered(dict, caches, misses) /\ Behind(file, dict, state, room)
  BY DEF UserDictInv
<1> DEFINE full == room = 0
           base == IF full THEN Loaded(Flushed(dict, state, queueTaken)) ELSE dict
           new == Added(base, l, freq)
<1>1. /\ Locate(l) = 0
      /\ dict' \in InQueue(new, queueTaken, full)
  BY DEF PutNew
<1>2. \A i \in Live(dict) : LemmaAt(dict, i) # l
  BY <1>0, <1>1, LocateIs
<1>3. /\ Sound(base) /\ \A i \in Live(base) : LemmaAt(base, i) # l
      /\ Content(base) = Content(dict) \/ (queueTaken /\ Live(base) = {})
  <2>1. CASE full
    <3> DEFINE f == Flushed(dict, state, queueTaken)
    <3>1. base = Loaded(f)
      BY <2>1
    <3>2. PICK d \in {dict, NoLemmas} : Holds(f, d) /\ Sound(d) /\ (~queueTaken => d = dict)
      BY <1>0, FlushedIs
    <3> HIDE DEF f
    <3>3. /\ Sound(base) /\ Live(base) = Live(d) /\ base.scores = d.scores
          /\ \A i : LemmaAt(base, i) = LemmaAt(d, i)
      BY <3>1, <3>2, LoadKeeps
    <3>4. CASE d = dict
      <4>1. Content(base) = Content(dict)
        BY <3>2, <3>3, <3>4, SameContent
      <4> QED
        BY <1>2, <3>3, <3>4, <4>1
    <3>5. CASE d # dict
      <4>1. queueTaken /\ Live(base) = {}
        BY <3>2, <3>3, <3>5, NoLemmasIs
      <4> QED
        BY <3>3, <4>1
    <3> QED
      BY <3>4, <3>5
  <2>2. CASE ~full
    BY <1>0, <1>2, <2>2
  <2> QED
    BY <2>1, <2>2
<1> HIDE DEF base
<1>4. /\ Sound(new) /\ Stores(Content(base), Content(new), l, freq) /\ Len(base.offsets) \in Nat
      /\ Entries(new) = 1..Len(base.offsets) + 1
  BY <1>3, AddedIs, AddedContent
<1> HIDE DEF new
<1>5. Content(dict') = Content(new)
  <2>1. dict.syncs \in Seq(Int) /\ full \in BOOLEAN
    BY <1>0 DEF Sound, Dicts
  <2> HIDE DEF full
  <2>2. /\ Sound(dict') /\ Live(dict') = Live(new) /\ dict'.scores = new.scores
        /\ \A j : LemmaAt(dict', j) = LemmaAt(new, j)
    BY <1>1, <1>4, <2>1, InQueueIs
  <2> QED
    BY <1>4, <2>2, SameContent
<1>6. CASE Content(base) = Content(dict)
  <2>1. Stores(Content(dict), Content(dict'), l, freq)
    BY <1>4, <1>5, <1>6
  <2>2. Store!Put(l, freq)
    BY <2>1 DEF Stores, Store!Put
  <2> QED
    BY <2>2 DEF StoreStep, Store!StoreNext
<1>7. CASE queueTaken /\ Live(base) = {}
  <2>1. Stores(Content(base), Content(dict'), l, freq) /\ client = "sync"
    BY <1>4, <1>5, <1>7
  <2> QED
    BY <1>0, <1>3, <1>7, <2>1, RoomMade
<1> QED
  BY <1>3, <1>6, <1>7

LEMMA ReclaimSteps ==
  ASSUME UserDictInv, NEW l \in Lemmas, NEW freq \in 1..MaxFreq, ReclaimAndPut(l, freq)
  PROVE  StoreStep
<1>0. Sound(dict) /\ Remembered(dict, caches, misses)
  BY DEF UserDictInv
<1>1. /\ Locate(l) = 0 /\ client = "sync"
      /\ \E order \in [1..(Len(dict.offsets) * Ratio) \div 100 -> Entries(dict)] :
           LET d    == Defragmented(Reclaimed(order))
               disk == WrittenBack(d, IF d = dict THEN state ELSE DEFRAGMENTED)
               base == Loaded(disk)
           IN  dict' = base \/ dict' = Added(base, l, freq)
  BY DEF ReclaimAndPut
<1>2. PICK order \in [1..(Len(dict.offsets) * Ratio) \div 100 -> Entries(dict)] :
           LET d    == Defragmented(Reclaimed(order))
               disk == WrittenBack(d, IF d = dict THEN state ELSE DEFRAGMENTED)
               base == Loaded(disk)
           IN  dict' = base \/ dict' = Added(base, l, freq)
  BY <1>1, Zenon
<1> DEFINE d    == Defragmented(Reclaimed(order))
           disk == WrittenBack(d, IF d = dict THEN state ELSE DEFRAGMENTED)
           base == Loaded(disk)
           new  == Added(base, l, freq)
<1>3. dict' = base \/ dict' = new
  BY <1>2, Zenon
<1>4. disk = WrittenBack(d, IF d = dict THEN state ELSE DEFRAGMENTED) /\ d = Defragmented(Reclaimed(order))
  OBVIOUS
<1> HIDE DEF d, disk
<1>5. /\ Sound(d) /\ Holds(disk, d)
      /\ \A i \in Live(d) : \E j \in Live(dict) : LemmaAt(d, i) = LemmaAt(dict, j) /\ d.scores[i] = dict.scores[j]
  BY <1>4, ReclaimLeaves
<1>6. /\ Sound(base) /\ Live(base) = Live(d) /\ base.scores = d.scores
      /\ \A i : LemmaAt(base, i) = LemmaAt(d, i)
  BY <1>5, LoadKeeps
<1> HIDE DEF base
<1>7. ASSUME NEW i \in Live(base)
      PROVE  \E j \in Live(dict) : LemmaAt(base, i) = LemmaAt(dict, j) /\ base.scores[i] = dict.scores[j]
  BY <1>5, <1>6
<1>8. \A i \in Live(dict) : LemmaAt(dict, i) # l
  BY <1>0, <1>1, LocateIs
<1>9. \A i \in Live(base) : LemmaAt(base, i) # l
  BY <1>7, <1>8
<1>10. Stores(Content(base), Content(new), l, freq)
  BY <1>6, <1>9, AddedContent
<1> HIDE DEF new
<1>11. /\ Content(dict') = Content(base) => StoreStep
       /\ Stores(Content(base), Content(dict'), l, freq) => StoreStep
  BY <1>0, <1>1, <1>6, <1>7, RoomMade
<1> QED
  BY <1>3, <1>10, <1>11

LEMMA NextSteps ==
  ASSUME NoneBegins, UserDictInv, [UserDictNext]_udVars
  PROVE  StoreStep
<1>1. CASE UNCHANGED udVars
  BY <1>1 DEF udVars, StoreStep
<1>2. ASSUME NEW q \in Queries, GetLpis(q) PROVE StoreStep
  BY <1>2 DEF GetLpis, StoreStep
<1>3. ASSUME NEW l \in Lemmas, NEW freq \in 1..MaxFreq,
             PutLemma(l, freq) \/ PutNoSync(l, freq) \/ ReclaimAndPut(l, freq)
      PROVE  StoreStep
  <2>1. CASE PutLemma(l, freq)
    <3>1. PutScore(l, freq) \/ PutNew(l, freq, FALSE)
      BY <2>1 DEF PutLemma
    <3>2. FALSE \in BOOLEAN
      OBVIOUS
    <3> QED
      BY <3>1, <3>2, PutScoreSteps, PutNewSteps
  <2>2. CASE PutNoSync(l, freq)
    <3>1. (PutScore(l, freq) \/ PutNew(l, freq, TRUE)) /\ client = "sync"
      BY <2>2 DEF PutNoSync
    <3>2. TRUE \in BOOLEAN
      OBVIOUS
    <3> QED
      BY <3>1, <3>2, PutScoreSteps, PutNewSteps
  <2>3. CASE ReclaimAndPut(l, freq)
    BY <2>3, ReclaimSteps
  <2> QED
    BY <1>3, <2>1, <2>2, <2>3
<1>4. ASSUME NEW id \in 1..Len(dict.byId), UpdateLemma(id) \/ RemoveLemma(id) PROVE StoreStep
  BY <1>4, UpdateSteps, RemoveSteps
<1>5. ASSUME NEW n \in 1..MaxSyncs, ClearSync(n) PROVE StoreStep
  BY <1>5, ClearSteps
<1>6. CASE FlushCache \/ CloseAndLoad
  BY <1>6, FlushSteps
<1> QED
  BY <1>1, <1>2, <1>3, <1>4, <1>5, <1>6 DEF UserDictNext

\* The user dictionary implements LemmaStore: through table order, flags of
\* removal, compaction, a file written back by parts and loaded again, it is a
\* map from lemmas to frequencies of which only the sync client loses entries.
THEOREM UserDictImplementsStore ==
  RoomForAnswers /\ NoneBegins => (UserDictSpec => ImplementsStore)
<1> SUFFICES ASSUME RoomForAnswers, NoneBegins PROVE UserDictSpec => ImplementsStore
  OBVIOUS
<1>1. UserDictInit => UserDictInv
  BY InitIsSound
<1>2. UserDictInv /\ [UserDictNext]_udVars => UserDictInv'
  BY NextKeeps
<1>3. UserDictInv => Store!StoreInit
  <2> SUFFICES ASSUME UserDictInv PROVE Store!StoreInit
    OBVIOUS
  <2> DEFINE c == Content(dict)
  <2>1. c \in [DOMAIN c -> 1..MaxFreq] /\ DOMAIN c \subseteq Lemmas
    BY ContentIsStore DEF UserDictInv
  <2> HIDE DEF c
  <2>2. c \in UNION {[S -> 1..MaxFreq] : S \in SUBSET Lemmas}
    BY <2>1
  <2> QED
    BY <2>2 DEF Store!StoreInit, c
<1>4. UserDictInv /\ [UserDictNext]_udVars => [Store!StoreNext]_(Content(dict))
  BY NextSteps DEF StoreStep
<1> QED
  BY <1>1, <1>2, <1>3, <1>4, PTL DEF UserDictSpec, ImplementsStore, Store!StoreSpec
=============================================================================
