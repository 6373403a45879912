---------------------------- MODULE SpellingTrie ----------------------------
(* The trie of spellings (pinyin/share/spellingtrie.cpp) and the parser that  *)
(* walks it (splparser.cpp).  A spelling is a sequence of letters, a node of  *)
(* the trie is the prefix that leads to it.  The spellings of the language    *)
(* have full ids, in their order; a first letter and zh, ch, sh have half ids *)
(* and stand for the full ids that begin with them.  What a trie was built of *)
(* is a record t: the sorted spellings, the half ids it gave out, and which   *)
(* letters may stand for a whole spelling (ShouZiMu) at present.              *)
EXTENDS Integers, FiniteSets, Sequences

LOCAL INSTANCE SequencesExt
LOCAL INSTANCE FiniteSetsExt

CONSTANTS Alphabet,         \* the letters, in order
          Shengmu, Yunmu,   \* letters that begin a spelling, or are one
          HalfStrs          \* the strings of the half ids, in the order of the ids

Letters == ToSet(Alphabet)
Words == Seq(Letters)

\* Every letter has its place, and a half string comes after those it begins
\* with: kHalfId2Sc_ is "0ABCcDEF...", c for ch.
ASSUME SpellingAssumption ==
  /\ Alphabet \in Seq(Letters) /\ \A i, j \in 1..Len(Alphabet) : Alphabet[i] = Alphabet[j] => i = j
  /\ HalfStrs \in Seq(Words) /\ \A h \in 1..Len(HalfStrs) : HalfStrs[h] # <<>>
  /\ \A g, h \in 1..Len(HalfStrs) : IsPrefix(HalfStrs[g], HalfStrs[h]) => g <= h

HalfNum == Len(HalfStrs)    \* kFullSplIdStart - 1
Code(c) == CHOOSE k \in 1..Len(Alphabet) : Alphabet[k] = c
IsLetter(c) == c \in Letters

Before(s, t) ==
  \/ IsStrictPrefix(s, t)
  \/ \E k \in 1..Min({Len(s), Len(t)}) :
       SubSeq(s, 1, k - 1) = SubSeq(t, 1, k - 1) /\ Code(s[k]) < Code(t[k])

\* The elements of a set in a strict order, and a fold over a sequence: what
\* SetToSortSeq and FoldLeft return, in a form TLC evaluates step by step.
Ranked(S, Less(_, _)) ==
  [k \in 1..Cardinality(S) |-> CHOOSE x \in S : Cardinality({y \in S : Less(y, x)}) = k - 1]
Fold(Op(_, _), base, s) ==
  LET f[k \in 0..Len(s)] == IF k = 0 THEN base ELSE Op(f[k - 1], s[k]) IN f[Len(s)]

Sorted(S) == Ranked(S, Before)

SzmEnabled(t, c) == (t.shm /\ c \in Shengmu) \/ (t.ym /\ c \in Yunmu)

\* The half ids of a new trie.  A first letter gets one if it can stand for a
\* spelling; only for the last of the first letters does it matter whether it
\* may at the time of the construction.
Halves(spls, shm, ym) ==
  LET starts == {s[1] : s \in ToSet(spls)}
      last   == spls[Len(spls)][1]
      szm(c) == IF c = last THEN SzmEnabled([shm |-> shm, ym |-> ym], c) ELSE c \in Shengmu \cup Yunmu
      strs   == {<<c>> : c \in {c \in starts : szm(c)}}
                \cup {SubSeq(s, 1, 2) : s \in {s \in ToSet(spls) : Len(s) > 1 /\ s[2] = "h"}}
  IN  {h \in 1..HalfNum : HalfStrs[h] \in strs}

Trie(spls, shm, ym) ==
  [spls |-> spls, halves |-> Halves(spls, shm, ym), shm |-> shm, ym |-> ym]

HasNode(t, p) == \E s \in ToSet(t.spls) : IsPrefix(p, s)

\* spelling_idx of the node: the half id if it has one.
NodeId(t, p) ==
  LET half == {h \in t.halves : HalfStrs[h] = p}
      full == {k \in 1..Len(t.spls) : t.spls[k] = p}
  IN  IF half # {} THEN Min(half) ELSE IF full # {} THEN HalfNum + Min(full) ELSE 0

IsHalf(id) == id \in 1..HalfNum
IsFull(t, id) == id \in HalfNum + 1..HalfNum + Len(t.spls)

\* h2f_start_ and h2f_num_: the spellings below a node are a range of the
\* sorted array.
H2FStart(t, h) ==
  IF h \in t.halves
  THEN HalfNum + Min({k \in 1..Len(t.spls) : IsPrefix(HalfStrs[h], t.spls[k])}) ELSE 0
H2FNum(t, h) ==
  IF h \in t.halves THEN Cardinality({k \in 1..Len(t.spls) : IsPrefix(HalfStrs[h], t.spls[k])})
  ELSE 0
HalfToFull(t, h) == H2FStart(t, h)..H2FStart(t, h) + H2FNum(t, h) - 1

\* build_f2h: of the half ids whose range a full id is in, the last.  A full id
\* in no range keeps what the new array happens to hold.
FullToHalf(t, f) ==
  LET in == {h \in t.halves : f \in HalfToFull(t, h)}
  IN  IF in = {} THEN 0..HalfNum ELSE {Max(in)}

IsHalfYunmu(h) == IsHalf(h) /\ Len(HalfStrs[h]) = 1 /\ HalfStrs[h][1] \in Yunmu

\* if_valid_id_update: the id itself, the first full id of a vowel that may not
\* stand for its spellings, or none.
ValidId(t, id) ==
  IF ~IsHalf(id) \/ Len(HalfStrs[id]) = 2 \/ SzmEnabled(t, HalfStrs[id][1]) THEN id
  ELSE IF HalfStrs[id][1] \in Yunmu THEN H2FStart(t, id) ELSE 0

SpellingStr(t, id) == IF IsHalf(id) THEN HalfStrs[id] ELSE t.spls[id - HalfNum]

-----------------------------------------------------------------------------
(* splstr_to_idxs: the longest walks down the trie, one after the other.      *)

\* A spelling ends before position pos; the next one begins there.
Emit(t, p, pos) ==
  [p EXCEPT !.ids = Append(@, ValidId(t, NodeId(t, p.node))),
            !.starts = Append(@, pos), !.node = <<>>]

Endable(t, p) == p.node # <<>> /\ ValidId(t, NodeId(t, p.node)) # 0

\* At a letter the walk goes on, or it ends and starts again with this letter.
ParseLetter(t, p, c, pos, max) ==
  LET next == Emit(t, p, pos)
      open == [p EXCEPT !.split = FALSE]
  IN  IF HasNode(t, Append(p.node, c)) THEN [open EXCEPT !.node = Append(@, c)]
      ELSE IF ~Endable(t, p) THEN [open EXCEPT !.stop = TRUE]
      ELSE IF Len(next.ids) >= max \/ ~HasNode(t, <<c>>) THEN [next EXCEPT !.stop = TRUE]
      ELSE [next EXCEPT !.node = <<c>>, !.split = FALSE]

\* At a splitter it has to end; more splitters are passed over.
ParseSplitter(t, p, pos, max) ==
  LET next == Emit(t, p, pos + 1)
  IN  IF Endable(t, p) THEN [next EXCEPT !.split = TRUE, !.stop = Len(next.ids) >= max]
      ELSE IF p.split THEN [p EXCEPT !.starts[Len(p.starts)] = pos + 1]
      ELSE [p EXCEPT !.stop = TRUE]

ParseBegin(str) ==
  [node |-> <<>>, ids |-> <<>>, starts |-> <<0>>, split |-> FALSE,
   stop |-> Len(str) = 0 \/ ~IsLetter(str[1]), pre |-> FALSE]

ParseStep(t, str, max, p, k) ==
  IF p.stop THEN p
  ELSE IF IsLetter(str[k]) THEN ParseLetter(t, p, str[k], k - 1, max)
  ELSE ParseSplitter(t, p, k - 1, max)

\* What has been parsed when the loop ends.
Walk(t, str, max) ==
  LET f[k \in 0..Len(str)] ==
        IF k = 0 THEN ParseBegin(str) ELSE ParseStep(t, str, max, f[k - 1], k)
  IN  f[Len(str)]

Parse(t, str, max) ==
  LET end  == Walk(t, str, max)
      last == IF Endable(t, end) THEN Emit(t, end, Len(str)) ELSE end
  IN  IF end.stop THEN end ELSE [last EXCEPT !.pre = ~end.split]

\* The id of a string that is one spelling, and whether it may go on.
GetSplidByStr(t, str) ==
  LET p == Parse(t, str, 2)
  IN  [id |-> IF Len(p.ids) = 1 /\ p.starts[2] = Len(str) THEN p.ids[1] ELSE 0, pre |-> p.pre]

\* The variant that takes a vowel alone for the spelling it is.
ParseFull(t, str, max) ==
  LET p == Parse(t, str, max)
      n == Len(p.ids)
  IN  [p EXCEPT !.ids = [k \in 1..n |-> IF IsHalfYunmu(@[k]) THEN H2FStart(t, @[k]) ELSE @[k]],
                !.pre = @ /\ ~(n > 0 /\ IsHalfYunmu(p.ids[n]))]
=============================================================================
