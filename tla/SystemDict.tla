----------------------------- MODULE SystemDict -----------------------------
(* The system dictionary of the Pinyin engine: DictBuilder reads the raw list *)
(* of words and arranges it (pinyin/share/dictbuilder.cpp), DictTrie walks it *)
(* by spelling ids (dicttrie.cpp), DictList holds the strings                 *)
(* (dictlist.cpp), and MatrixSearch keeps the best words of a half id         *)
(* (extend_dmi, lpicache.cpp).  A spelling is its id: the half ids come       *)
(* first, then the full ones.  A node of the trie is the sequence of full ids *)
(* that leads to it; its sons lie side by side, so a place among them is a    *)
(* number.  An id of a word is its place in the list.                         *)
EXTENDS Integers, FiniteSets, Sequences

LOCAL INSTANCE SequencesExt
LOCAL INSTANCE FiniteSetsExt

CONSTANTS HalfRange,   \* for each half id its full ids: <<first, number>>
          HalfOf,      \* for each full id its half id
          YunmuHalf,   \* half ids that are spellings themselves
          Wider,       \* <<h, g>>: half id g is Z, C, S and h is Zh, Ch, Sh
          RawFiles,    \* sequences of lines [text, freq, gbk, spl]
          Again,       \* those a second dictionary is built of
          MaxChars,    \* 4
          MinFreq,     \* 60
          TopLemmas,   \* kTopScoreLemmaNum
          MaxLpi,      \* kMaxLmaPsbItems
          MaxExtendBuf,   \* MAX_EXTENDBUF_LEN
          CacheLen,    \* kMaxLpiCachePerId
          MaxMarks, MaxStones,   \* kMaxParsingMark, kMaxMileStone
          IdRange,     \* end_id - start_id + 1
          OneFile      \* does the program load only one dictionary?

\* The full ids follow one another, and a half id stands for a run of them.
ASSUME DictAssumption ==
  /\ DOMAIN HalfOf \subseteq Nat /\ IsFiniteSet(DOMAIN HalfOf)
  /\ \A f, g \in DOMAIN HalfOf : f..g \subseteq DOMAIN HalfOf
  /\ DOMAIN HalfRange \cap DOMAIN HalfOf = {} /\ YunmuHalf \subseteq DOMAIN HalfRange
  /\ \A f \in DOMAIN HalfOf : HalfOf[f] \in DOMAIN HalfRange
  /\ \A h \in DOMAIN HalfRange :
       /\ HalfRange[h][1] \in Nat /\ HalfRange[h][2] \in Nat \ {0}
       /\ HalfRange[h][1]..HalfRange[h][1] + HalfRange[h][2] - 1 \subseteq DOMAIN HalfOf
  /\ RawFiles \cup Again \subseteq
       Seq([text : Seq(Int) \ {<<>>}, freq : Nat, gbk : BOOLEAN, spl : Seq(DOMAIN HalfOf)])
  /\ MaxChars \in Nat \ {0} /\ TopLemmas \in Nat \ (0..2) /\ MaxLpi \in Nat
  /\ MaxExtendBuf \in Nat /\ MaxMarks \in Nat /\ MaxStones \in Nat

VARIABLES lines,      \* what is left of the file that is read
          entries,  \* lemma_arr_
          built,    \* the dictionary in the builder's hands
          saved,     \* the saved dictionaries
          memory,   \* the sections of the dictionary in memory, and may it be used?
          cache,    \* LpiCache
          shown     \* what the last search of a half id answered

dictVars == <<lines, entries, built, saved, memory, cache, shown>>

HalfIds == DOMAIN HalfRange
FullIds == DOMAIN HalfOf
IsHalfId(id) == id \in HalfIds
Range0(id) == IF IsHalfId(id) THEN HalfRange[id] ELSE <<id, 1>>
InRange(full, id) == Range0(id)[1] <= full /\ full < Range0(id)[1] + Range0(id)[2]
Matching(ids, spl) == Len(ids) = Len(spl) /\ \A k \in 1..Len(ids) : InRange(spl[k], ids[k])

\* The elements of a set in a strict order; equal ones in any.
InOrder(S, Less(_, _)) ==
  [k \in 1..Cardinality(S) |-> CHOOSE x \in S : Cardinality({y \in S : Less(y, x)}) = k - 1]
Step(Op(_, _), base, s) ==
  LET f[k \in 0..Len(s)] == IF k = 0 THEN base ELSE Op(f[k - 1], s[k]) IN f[Len(s)]
First(s, n) == SubSeq(s, 1, Min({n, Len(s)}))
Concat(s) == Step(LAMBDA a, x : a \o x, <<>>, s)

SmallerSeq(s, t) ==
  \/ IsStrictPrefix(s, t)
  \/ \E k \in 1..Min({Len(s), Len(t)}) : SubSeq(s, 1, k - 1) = SubSeq(t, 1, k - 1) /\ s[k] < t[k]
\* cmp_lemma_entry_hzs and compare_py.
ByHanzi(e, f) ==
  \/ Len(e.text) < Len(f.text)
  \/ Len(e.text) = Len(f.text) /\ (SmallerSeq(e.text, f.text) \/ (e.text = f.text /\ SmallerSeq(e.spl, f.spl)))
ByFreq(e, f) == e.freq > f.freq \/ (e.freq = f.freq /\ ByHanzi(e, f))

-----------------------------------------------------------------------------
(* Building.                                                                  *)

\* A line is left out when it is long, rare, outside of the character set, or
\* has more spellings than characters; with fewer the reading fails.
Discarded(line) ==
  \/ Len(line.text) > MaxChars
  \/ Len(line.text) > 1 /\ line.freq < MinFreq
  \/ line.gbk
  \/ Len(line.spl) > Len(line.text)

NoDict == [num |-> 0]

ReadRawDict ==
  /\ lines = <<>> /\ entries = <<>> /\ built = NoDict
  /\ Cardinality(saved) < 2
  /\ lines' \in IF saved = {} THEN RawFiles ELSE Again
  /\ UNCHANGED <<entries, built, saved, memory, cache, shown>>

ReadLine ==
  LET line == Head(lines)
  IN  /\ lines # <<>>
      /\ IF ~Discarded(line) /\ Len(line.spl) < Len(line.text)
         THEN lines' = <<>> /\ entries' = <<>>
         ELSE lines' = Tail(lines) /\ entries' = IF Discarded(line) THEN entries ELSE Append(entries, line)
      /\ UNCHANGED <<built, saved, memory, cache, shown>>

\* The words in the order of their spellings (compare_py).
ByPinyin(v, w) == SmallerSeq(v.spl, w.spl) \/ (v.spl = w.spl /\ ByFreq(v, w))
ByPinyinOrder(words) == InOrder(1..Len(words), LAMBDA i, j : ByPinyin(words[i], words[j]))

\* get_top_lemmas: a list that is full at TopLemmas.  A word above the last one
\* takes a place in front of the last but one, which moves to the last place
\* without being compared; what was there is lost when the list is full.
InsertTop(words, top, id) ==
  LET freq(k) == words[top[k]].freq
      kept  == Min({Len(top), TopLemmas - 1})
      place == 1 + Max({0} \cup {k \in 1..kept - 1 : freq(k) > words[id].freq})
  IN  IF top = <<>> \/ words[id].freq <= freq(Len(top)) THEN First(Append(top, id), TopLemmas)
      ELSE InsertAt(First(top, kept), place, id)

TopOf(words) == Step(LAMBDA top, id : InsertTop(words, top, id), <<>>, ByPinyinOrder(words))

\* calculate_size: where the words of each length begin, in the string of all
\* characters and among the ids.
Starts(words) ==
  LET longest == Len(words[Len(words)].text)
      ofLen(n) == {k \in 1..Len(words) : Len(words[k].text) = n}
      chars(k) == Len(Concat([j \in 1..k - 1 |-> words[j].text]))
      at[n \in 1..MaxChars + 1] ==
        IF n > longest THEN [pos |-> chars(Len(words) + 1), id |-> Len(words)]
        ELSE IF ofLen(n) = {} THEN at[n - 1]
        ELSE [pos |-> chars(Min(ofLen(n))), id |-> Min(ofLen(n))]
  IN  at

\* construct_subset: a node has the items from one place to another.  Those that
\* end at the node come first; the rest is scanned, and where the spelling of the
\* next level changes a son begins.
SonBegins(words, items, part, level) ==
  {i \in part.rest..part.to :
     i = part.rest \/ words[items[i]].spl[level] # words[items[i - 1]].spl[level]}

SonPart(words, items, part, level, spl) ==
  LET begins == SonBegins(words, items, part, level)
      from   == CHOOSE i \in begins : words[items[i]].spl[level] = spl
      to     == Min({j - 1 : j \in {j \in begins : j > from}} \cup {part.to})
      homos  == {i \in from..to : Len(words[items[i]].spl) = level}
  IN  [from |-> from, rest |-> from + Cardinality(homos), to |-> to]

PartOf(words, items, p) ==
  Step(LAMBDA part, n : SonPart(words, items, part, n, p[n]),
       [from |-> 1, rest |-> 1, to |-> Len(items)], [n \in 1..Len(p) |-> n])

HomosOf(items, part) == SubSeq(items, part.from, part.rest - 1)
SonsOf(words, items, part, level) ==
  LET begins == InOrder(SonBegins(words, items, part, level), <)
  IN  [k \in 1..Len(begins) |-> words[items[begins[k]]].spl[level]]

\* How many sons and words a node can count (the assertions of construct_subset).
MostCounted(p) == IF Len(p) < 2 THEN 65535 ELSE 255

\* The nodes of the trie; every character keeps the spellings it has in some word.
SortByHz(ents) == InOrder(ToSet(ents), ByHanzi)
NodesOf(words) == UNION {{SubSeq(words[k].spl, 1, n) : n \in 0..Len(words[k].spl)} : k \in 1..Len(words)}
Scis(words) == UNION {{<<w.text[k], w.spl[k]>> : k \in 1..Len(w.text)} : w \in ToSet(words)}

Arrange(words, nodes, items) ==
  [chars |-> Concat([k \in 1..Len(words) |-> words[k].text]),
   starts |-> Starts(words), scis |-> Scis(words),
   freq |-> [k \in 1..Len(words) |-> words[k].freq],
   homos |-> [p \in nodes |-> HomosOf(items, PartOf(words, items, p))],
   sons |-> [p \in nodes |-> SonsOf(words, items, PartOf(words, items, p), Len(p) + 1)],
   top |-> TopOf(words), num |-> Len(words)]

BuildDict ==
  /\ lines = <<>> /\ entries # <<>> /\ built = NoDict
  /\ \E words \in {SortByHz(entries)} : built' = Arrange(words, NodesOf(words), ByPinyinOrder(words))
  /\ \A p \in DOMAIN built'.homos : Len(built'.homos[p]) <= MostCounted(p) /\ Len(built'.sons[p]) <= MostCounted(p)
  /\ UNCHANGED <<lines, entries, saved, memory, cache, shown>>

-----------------------------------------------------------------------------
(* Saving and loading: spelling trie, list, trie, n-gram, one after another.  *)

Sections == 1..4

SaveDict ==
  /\ built # NoDict
  /\ saved' = saved \cup {built}
  /\ built' = NoDict /\ entries' = <<>>
  /\ UNCHANGED <<lines, memory, cache, shown>>

\* A mutant of LoadDict: what is read is used, however much it is.
LoadWhatIsThere(d, ends) ==
  /\ d \in saved
  /\ OneFile => memory.has[1] \in {NoDict, d} \/ \A h \in HalfIds : cache[h] = <<>>
  /\ memory' = [usable |-> d.num <= IdRange,
                has |-> [s \in Sections |-> IF s <= ends THEN d ELSE memory.has[s]]]
  /\ shown' = <<>>
  /\ UNCHANGED <<lines, entries, built, saved, cache>>

\* The file may end after any section.  The spelling trie and the n-gram are
\* singletons: what was read of them stays.
LoadDict(d, ends) ==
  LET ok == ends = Max(Sections) /\ d.num <= IdRange
      now == [s \in Sections |-> IF s <= ends THEN d ELSE memory.has[s]]
  IN  /\ d \in saved
      /\ OneFile => memory.has[1] \in {NoDict, d} \/ \A h \in HalfIds : cache[h] = <<>>
      /\ memory' = [usable |-> ok,
                    has |-> IF ok THEN now ELSE [now EXCEPT ![2] = NoDict, ![3] = NoDict]]
      /\ shown' = <<>>
      /\ UNCHANGED <<lines, entries, built, saved, cache>>

-----------------------------------------------------------------------------
(* Walking: an operator for each way into the trie.                           *)

\* A mutant of Le0Index: the entry behind the last son is missing.
Le0IndexShort(d, full) ==
  LET sons == d.sons[<<>>]
  IN  IF full \in ToSet(sons) THEN CHOOSE k \in 1..Len(sons) : sons[k] = full
      ELSE Cardinality({k \in 1..Len(sons) : sons[k] <= full})

\* splid_le0_index_: the places of the sons of the root (0 is the root itself).
Le0Index(d, full) ==
  LET sons == d.sons[<<>>]
      gaps == {k \in 1..Len(sons) : sons[k] <= full}
      next == {k \in 1..Len(sons) : sons[k] > full}
  IN  IF full \in ToSet(sons) THEN CHOOSE k \in 1..Len(sons) : sons[k] = full
      ELSE IF next = {} THEN Len(sons) + 1 ELSE Cardinality(gaps)
\* The places of the sons of the root that an id stands for.
RootSons(d, id) ==
  LET from == Le0Index(d, Range0(id)[1])
      to   == Le0Index(d, Range0(id)[1] + Range0(id)[2])
  IN  [k \in 1..to - from |-> from + k - 1]

Son(d, p, k) == Append(p, d.sons[p][k])
SonsFor(d, p, id) == InOrder({k \in 1..Len(d.sons[p]) : InRange(d.sons[p][k], id)}, <)

\* get_lpis: level by level, as far as the buffer has room.
NextNodes(d, nodes, id) ==
  Concat([n \in 1..Len(nodes) |-> [j \in 1..Len(SonsFor(d, nodes[n], id)) |->
            Son(d, nodes[n], SonsFor(d, nodes[n], id)[j])]])

FirstNodes(d, id) == [j \in 1..Len(RootSons(d, id)) |-> Son(d, <<>>, RootSons(d, id)[j])]

LpisNodes(d, ids) ==
  Step(LAMBDA nodes, k : First(IF k = 1 THEN FirstNodes(d, ids[1]) ELSE NextNodes(d, nodes, ids[k]), MaxExtendBuf),
       <<<<>>>>, [k \in 1..Len(ids) |-> k])

TrieLpis(d, ids, max) ==
  LET nodes == LpisNodes(d, ids)
      used  == IF Len(ids) = 1 /\ ids[1] \in YunmuHalf THEN First(nodes, 1) ELSE nodes
  IN  First(Concat([n \in 1..Len(used) |-> d.homos[used[n]]]), max)

\* extend_dict: one more id behind a mile stone, a sequence of marks; a mark is
\* a run of brothers.  The pools of marks and of mile stones are filled.
Root == [marks |-> <<>>, lpis |-> <<>>, depth |-> 0, markPos |-> 0, stonePos |-> 1]
MayMark(m) == m.stonePos < MaxStones /\ m.markPos < MaxMarks

Extend0(d, m, id) ==
  LET places == RootSons(d, id)
      used == IF id \in YunmuHalf THEN First(places, 1) ELSE places
      stone == MayMark(m) /\ \E k \in 1..Len(places) : d.sons[<<>>][places[k]] = Range0(id)[1]
      more == IF stone THEN 1 ELSE 0
  IN  [depth |-> 1, markPos |-> m.markPos + more, stonePos |-> m.stonePos + more,
       lpis |-> First(Concat([k \in 1..Len(used) |-> d.homos[Son(d, <<>>, used[k])]]), MaxLpi),
       marks |-> IF stone THEN <<[of |-> <<>>, from |-> places[1], num |-> Range0(id)[2]]>> ELSE <<>>]

\* The nodes that marks stand for, and what is found under one of them.
MarkedNodes(d, marks) ==
  Concat([k \in 1..Len(marks) |-> [j \in 1..marks[k].num |-> Son(d, marks[k].of, marks[k].from + j - 1)]])

Visit(d, m, node, id) ==
  LET sons == SonsFor(d, node, id)
      here == Concat([i \in 1..Len(sons) |-> d.homos[Son(d, node, sons[i])]])
      mark == [of |-> node, from |-> sons[1], num |-> Len(sons)]
  IN  IF sons = <<>> THEN m
      ELSE [m EXCEPT !.lpis = First(@ \o here, MaxLpi), !.found = @ + 1,
              !.marks = IF MayMark(m) THEN Append(@, mark) ELSE @,
              !.markPos = IF MayMark(m) THEN @ + 1 ELSE @]

Extend1(d, m, id) ==
  LET end == Step(LAMBDA b, node : Visit(d, b, node, id),
                  [marks |-> <<>>, lpis |-> <<>>, found |-> 0, markPos |-> m.markPos, stonePos |-> m.stonePos],
                  MarkedNodes(d, m.marks))
  IN  [depth |-> m.depth + 1, marks |-> end.marks, lpis |-> end.lpis, markPos |-> end.markPos,
       stonePos |-> IF end.found > 0 THEN end.stonePos + 1 ELSE end.stonePos]

ExtendStone(d, m, id) ==
  IF m.depth = 0 THEN Extend0(d, m, id)
  ELSE IF m.marks = <<>> THEN [m EXCEPT !.lpis = <<>>]
  ELSE Extend1(d, m, id)

Extend(d, ids) == Step(LAMBDA m, id : ExtendStone(d, m, id), Root, ids)

\* try_extend, and get_lemma_splids: a word's spellings, of which some ids are
\* known, tried in turn.
TryExtend(d, spl, id) ==
  spl \in DOMAIN d.homos /\ \E k \in 1..Len(d.homos[spl]) : d.homos[spl][k] = id

SplidsForHanzi(d, hz, half) ==
  LET strict == {f \in FullIds : <<hz, f>> \in d.scis /\ HalfOf[f] = half}
      wide   == {f \in FullIds : <<hz, f>> \in d.scis /\ (half = 0 \/ <<HalfOf[f], half>> \in Wider)}
  IN  IF strict # {} THEN strict ELSE wide

\* get_lemma_str and get_lemma_id of the list.
GetLemmaStr(d, id) ==
  LET fits == {n \in 1..MaxChars : d.starts[n].id <= id /\ d.starts[n + 1].id > id}
      n    == Min(fits)
      from == d.starts[n].pos + (id - d.starts[n].id) * n
  IN  IF id >= d.starts[MaxChars + 1].id \/ fits = {} THEN <<>> ELSE SubSeq(d.chars, from + 1, from + n)

GetLemmaSplids(d, id, known) ==
  LET str == GetLemmaStr(d, id)
      options(k) == IF known[k] \in FullIds THEN {known[k]} ELSE SplidsForHanzi(d, str[k], known[k])
  IN  {s \in [1..Len(str) -> FullIds] : (\A k \in 1..Len(str) : s[k] \in options(k)) /\ TryExtend(d, s, id)}

\* The words of length n that begin with the characters given: find the first,
\* go on while they match.
WordAt(d, n, k) == SubSeq(d.chars, d.starts[n].pos + k * n + 1, d.starts[n].pos + (k + 1) * n)
StartedBy(d, n, hzs) ==
  {k \in 0..(d.starts[n + 1].pos - d.starts[n].pos) \div n - 1 : IsPrefix(hzs, WordAt(d, n, k))}

\* An assertion keeps the first word of all from being found.
Aborts == -1
GetLemmaId(d, str) ==
  LET found == StartedBy(d, Len(str), str)
  IN  IF found = {} THEN 0
      ELSE IF d.starts[Len(str)].pos + Min(found) * Len(str) = 0 THEN Aborts
      ELSE d.starts[Len(str)].id + Min(found)

PredictLemmas(d, hzs) ==
  UNION {{[hzs |-> SubSeq(WordAt(d, n, k), Len(hzs) + 1, n), psb |-> d.freq[d.starts[n].id + k]]
            : k \in StartedBy(d, n, hzs)} : n \in Len(hzs) + 1..MaxChars}

-----------------------------------------------------------------------------

\* extend_dmi for a half id: the best words are kept, and asked for again.
BestWords(d, id) == First(InOrder(ToSet(Extend(d, <<id>>).lpis), LAMBDA i, j : d.freq[i] > d.freq[j] \/ (d.freq[i] = d.freq[j] /\ i < j)), CacheLen)

LookUpHalf(id) ==
  LET found == IF cache[id] # <<>> THEN cache[id] ELSE BestWords(memory.has[3], id)
  IN  /\ memory.usable
      /\ cache' = [cache EXCEPT ![id] = found]
      /\ shown' = <<id, found>>
      /\ UNCHANGED <<lines, entries, built, saved, memory>>

DictInit ==
  /\ lines = <<>> /\ entries = <<>> /\ built = NoDict /\ saved = {}
  /\ memory = [usable |-> FALSE, has |-> [s \in Sections |-> NoDict]]
  /\ cache = [h \in HalfIds |-> <<>>]
  /\ shown = <<>>

DictNext ==
  \/ ReadRawDict \/ ReadLine \/ BuildDict \/ SaveDict
  \/ \E d \in saved, ends \in 0..Max(Sections) : LoadDict(d, ends)
  \/ \E id \in HalfIds : LookUpHalf(id)

DictSpec == DictInit /\ [][DictNext]_dictVars

-----------------------------------------------------------------------------
(* Properties.  They compare the arranged dictionary with the entries it was  *)
(* made of.                                                                   *)

Entered == InOrder(ToSet(entries), ByHanzi)
Ids == HalfIds \cup FullIds
IdQueries == (UNION {[1..n -> Ids] : n \in 1..2}) \cup {q \in [1..3 -> Ids] : q[3] \in FullIds}
\* What a sequence of ids stands for.  A half id that is a spelling by itself
\* stands, alone, for that spelling.
Wanted(words, q) ==
  LET ids == IF Len(q) = 1 /\ q[1] \in YunmuHalf THEN <<Range0(q[1])[1]>> ELSE q
  IN  {k \in 1..Len(words) : Matching(ids, words[k].spl)}
Unique(s) == Len(s) = Cardinality(ToSet(s))

\* The words found for a sequence of ids are those whose spellings it matches
\* (dicttrie.cpp:663, get_lpis).
LookupIsExact ==
  built # NoDict => LET words == Entered IN \A q \in IdQueries :
    LET found == TrieLpis(built, q, MaxLpi) IN ToSet(found) = Wanted(words, q) /\ Unique(found)

\* The decoder, which goes on from mile stone to mile stone, finds the same, and
\* can go on exactly when a word goes on like this (dicttrie.cpp:365).
StepsFindTheSame ==
  built # NoDict => LET words == Entered IN \A q \in IdQueries :
    LET m == Extend(built, q)
    IN  /\ ToSet(m.lpis) = Wanted(words, q) /\ Unique(m.lpis)
        /\ (m.marks # <<>>) = \E w \in ToSet(words) : Len(w.spl) >= Len(q) /\ Matching(q, SubSeq(w.spl, 1, Len(q)))

\* The list gives a word its string, the string its word, and the spellings of a
\* character with several ones are those of the word (dictlist.cpp:286, :310,
\* dicttrie.cpp:853).  The word with the last id has no string, and the first
\* one cannot be asked for (dictlist.cpp:356).
ListIsExact ==
  built # NoDict => LET words == Entered IN \A k \in 1..Len(words) - 1 :
    LET w == words[k]
        known == {[i \in 1..Len(w.spl) |-> IF i \in S THEN HalfOf[w.spl[i]] ELSE w.spl[i]] : S \in SUBSET (1..Len(w.spl))}
    IN  /\ GetLemmaStr(built, k) = w.text
        /\ IF w.text = words[1].text THEN GetLemmaId(built, w.text) = Aborts
           ELSE words[GetLemmaId(built, w.text)].text = w.text
        /\ \A ids \in known : GetLemmaSplids(built, k, ids) = {w.spl}

\* What is predicted behind some characters is the rest of each word that begins
\* with them, with the score of that word (dictlist.cpp:233).
PredictionIsExact ==
  built # NoDict => \A w \in ToSet(Entered), n \in 1..MaxChars - 1 :
    n < Len(w.text) =>
      PredictLemmas(built, SubSeq(w.text, 1, n)) =
        {[hzs |-> SubSeq(v.text, n + 1, Len(v.text)), psb |-> v.freq]
           : v \in {v \in ToSet(Entered) : Len(v.text) > n /\ IsPrefix(SubSeq(w.text, 1, n), v.text)}}

\* The words offered when there is nothing to go on are as many as there is room
\* for, each once; the first is the most frequent of all, and they follow in the
\* order of their frequencies, but for the last of a list from which words were
\* left out (dictbuilder.cpp:289).
TopBeginsBest ==
  built # NoDict =>
    LET top     == built.top
        freq(k) == built.freq[built.top[k]]
    IN  /\ Len(top) = Min({TopLemmas, built.num}) /\ Unique(top)
        /\ \A k \in 1..built.num : freq(1) >= built.freq[k]
        /\ \A i, j \in 1..Len(top) :
             i < j /\ (j < TopLemmas \/ built.num <= TopLemmas) => freq(i) >= freq(j)

\* The words of that list are the most frequent ones, as its comment says
\* (dictbuilder.h:65, dicttrie.h:84).
TopIsBest ==
  built # NoDict =>
    /\ Len(built.top) = Min({TopLemmas, built.num}) /\ Unique(built.top)
    /\ \A k \in ToSet(built.top), j \in 1..built.num \ ToSet(built.top) : built.freq[k] >= built.freq[j]

\* A dictionary that is used has all its sections from one file, whatever the
\* loads that failed before have left behind (dicttrie.cpp:168).
UsableIsWhole ==
  memory.usable => \E d \in saved : \A s \in Sections : memory.has[s] = d

\* The words shown for a half id are the best ones of the dictionary in use
\* (matrixsearch.cpp:1400).
CacheIsCurrent ==
  shown # <<>> => shown[2] = BestWords(memory.has[3], shown[1])

\* The dictionary, each way it is looked at, is what was read.
DictionaryIsExact ==
  LookupIsExact /\ StepsFindTheSame /\ ListIsExact /\ PredictionIsExact /\ TopBeginsBest

\* The lists that can be read: the lines that are kept, as a set.
Kept(list) == {line \in ToSet(list) : ~Discarded(line)}
WordLists ==
  {S \in {Kept(list) : list \in RawFiles \cup Again} : S # {} /\ \A e \in S : Len(e.spl) >= Len(e.text)}

\* What the builder takes for granted of a list: a word is listed once for each
\* reading, every spelling begins a word (the walks assert it, dicttrie.cpp:408,
\* :704), and no length is missing below that of the longest word (where one is,
\* calculate_size gives its words the place of the shorter ones).
ListsAreComplete ==
  \A S \in WordLists :
    /\ \A e, f \in S : e.text = f.text /\ e.spl = f.spl => e = f
    /\ \A id \in FullIds : \E e \in S : e.spl[1] = id
    /\ \A e \in S : \A n \in 1..Len(e.text) : \E f \in S : Len(f.text) = n

\* A search has room for the words it finds, for the nodes of each level, and for
\* the marks of its walk: one for each node that it goes on from.
Beginning(q, p) == Len(p) < Len(q) /\ Matching(SubSeq(q, 1, Len(p)), p)
RoomToWalk ==
  /\ MaxStones > 3
  /\ \A S \in WordLists, q \in IdQueries :
       LET words == InOrder(S, ByHanzi)
       IN  /\ Cardinality(Wanted(words, q)) <= MaxLpi
           /\ Cardinality({p \in NodesOf(words) : Matching(q, p)}) <= MaxExtendBuf
           /\ Cardinality({p \in NodesOf(words) : Beginning(q, p)}) <= MaxMarks

\* What is used and shown belongs to the one dictionary that was loaded last.
InUseIsWhole == UsableIsWhole /\ CacheIsCurrent
=============================================================================
