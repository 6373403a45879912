------------------------------ MODULE Codebook ------------------------------
(* NGram::build_unigram (pinyin/share/ngram.cpp): the frequencies of the      *)
(* words are replaced by the indexes of a few codes.  The codes begin with    *)
(* the first frequencies that differ; then each frequency takes the nearest   *)
(* code (in logarithms) and each code the mean of its frequencies, until an   *)
(* iteration changes nothing.  A code is <<sum, number>>, so that comparing   *)
(* is exact.  Scores, the logarithms of the codes, are left out.              *)
EXTENDS Integers, FiniteSets, Sequences

LOCAL INSTANCE SequencesExt
LOCAL INSTANCE FiniteSetsExt

CONSTANTS FreqLists,  \* sequences of frequencies, with enough different ones
          BookSize    \* kCodeBookSize

\* Frequencies are above zero (ngram.cpp:266, 277), and there are enough for the codes.
ASSUME BookAssumption ==
  /\ BookSize \in Nat \ {0}
  /\ FreqLists \subseteq Seq(Nat \ {0})
  /\ \A s \in FreqLists : Cardinality(ToSet(s)) >= BookSize

VARIABLES freqs, codes, index, before, step

cbVars == <<freqs, codes, index, before, step>>

Book == 1..BookSize
Below(c, d) == c[1] * d[2] < d[1] * c[2]

\* distance(f, c) <= distance(f, d): between the two, f * f decides.
AsNear(f, c, d) ==
  LET square == f * f * c[2] * d[2]
      product == c[1] * d[1]
  IN  /\ Below(c, d) => square <= product
      /\ Below(d, c) => square >= product

\* A mutant of QSearchNearest: the code below is taken without a comparison.
QSearchBelow(f) ==
  LET below == {c \in Book : codes[c][1] <= f * codes[c][2]}
  IN  IF below = {} THEN 1 ELSE Max(below)

\* A binary search for the two codes around f; of equally near ones the upper.
Ranges == {r \in Book \X Book : r[1] <= r[2]}
NearestIn(f, r, search) ==
  LET b == r[1]  e == r[2]  mid == (b + e) \div 2
  IN  IF b = e THEN b
      ELSE IF b + 1 = e THEN IF AsNear(f, codes[e], codes[b]) THEN e ELSE b
      ELSE IF codes[mid][1] > f * codes[mid][2] THEN search[<<b, mid>>] ELSE search[<<mid, e>>]
QSearchNearest(f) ==
  LET search[r \in Ranges] == NearestIn(f, r, search)
  IN  search[<<1, BookSize>>]

Items(c) == {k \in 1..Len(freqs) : index[k] = c}
SumOf(S) ==
  LET sum[k \in 0..Len(freqs)] == IF k = 0 THEN 0 ELSE sum[k - 1] + (IF k \in S THEN freqs[k] ELSE 0)
  IN  sum[Len(freqs)]

UpdateCodeIdx ==
  /\ step = "assign"
  /\ index' = [k \in 1..Len(freqs) |-> QSearchNearest(freqs[k])]
  /\ step' = "mean"
  /\ UNCHANGED <<freqs, codes, before>>

\* A mutant of RecalculateKernel: delta_last is never set.
RecalculateAlways ==
  /\ step = "mean" /\ \A c \in Book : Items(c) # {}
  /\ codes' = [c \in Book |-> <<SumOf(Items(c)), Cardinality(Items(c))>>]
  /\ step' = IF before = <<codes, index>> THEN "done" ELSE "assign"
  /\ UNCHANGED <<freqs, index, before>>

\* recalculate_kernel; the distances to the codes it replaces are the same as in
\* the last iteration when those and the indexes are.
RecalculateKernel ==
  /\ step = "mean" /\ \A c \in Book : Items(c) # {}
  /\ codes' = [c \in Book |-> <<SumOf(Items(c)), Cardinality(Items(c))>>]
  /\ before' = <<codes, index>>
  /\ step' = IF before = <<codes, index>> THEN "done" ELSE "assign"
  /\ UNCHANGED <<freqs, index>>

\* Where a code has no frequency there is no mean, and the program is aborted.
AssertionFails ==
  /\ step = "mean" /\ \E c \in Book : Items(c) = {}
  /\ step' = "aborted"
  /\ UNCHANGED <<freqs, codes, index, before>>

\* build_unigram begins with the first frequencies that differ, in order.
BuildUnigram ==
  /\ step = "new"
  /\ freqs' \in FreqLists
  /\ codes' = LET firsts == {k \in 1..Len(freqs') : \A j \in 1..k - 1 : freqs'[j] # freqs'[k]}
                 values == {freqs'[k] : k \in {k \in firsts : Cardinality({j \in firsts : j <= k}) <= BookSize}}
             IN  [c \in Book |-> <<CHOOSE f \in values : Cardinality({g \in values : g < f}) = c - 1, 1>>]
  /\ index' = [k \in 1..Len(freqs') |-> 1]
  /\ before' = <<>>
  /\ step' = "assign"

CodebookInit == freqs = <<>> /\ codes = <<>> /\ index = <<>> /\ before = <<>> /\ step = "new"
Iterate == UpdateCodeIdx \/ RecalculateKernel \/ AssertionFails
CodebookNext == BuildUnigram \/ Iterate
CodebookSpec == CodebookInit /\ [][CodebookNext]_cbVars /\ WF_cbVars(Iterate)

-----------------------------------------------------------------------------
(* Properties.                                                                *)

\* The search, which looks at two codes only, finds the nearest of all
\* ("Find the index of the code value which is nearest", ngram.cpp:42): the
\* codes stay in order although each is replaced by a mean.
CodesAreNearest ==
  /\ step \in {"assign", "done"} => \A c, d \in Book : c < d => Below(codes[c], codes[d])
  /\ step = "mean" => \A k \in 1..Len(freqs), c \in Book : AsNear(freqs[k], codes[index[k]], codes[c])

\* assert(item_num[code] > 0), ngram.cpp:94: no code loses its last frequency.
\* It does not hold: both neighbours of a code can come nearer to its
\* frequencies than their own mean is.
EveryCodeIsUsed == step = "mean" => \A c \in Book : Items(c) # {}

\* The loop of iterate_codes, which has no bound, comes to its end, or to the
\* assertion.
IterationEnds == step = "assign" ~> step \in {"done", "aborted"}
=============================================================================
