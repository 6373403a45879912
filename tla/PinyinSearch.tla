---------------------------- MODULE PinyinSearch ----------------------------
(* The decoder of the Pinyin engine (pinyin/share/matrixsearch.cpp behind the *)
(* calls of pinyinime.cpp): a matrix with a row behind each letter, in which  *)
(* the spellings that end there are matched with the dictionaries (DMIs) and  *)
(* the best sentences that end there are kept (nodes); the words the user has *)
(* chosen are fixed, and what has been decoded is used again when the string  *)
(* changes.  The pools the rows are allocated in are left out: a DMI is the   *)
(* ids it matches, a node the words that lead to it, a dictionary what it     *)
(* holds.  All operators work on the decoder, a record d; a failed assertion  *)
(* is noted in d.failed and ends the program.                                 *)
EXTENDS SpellingTrie

LOCAL INSTANCE SequencesExt
LOCAL INSTANCE FiniteSetsExt

CONSTANTS Table,       \* the spellings, sorted
          Lexicon,     \* the system dictionary: records [ids, text, psb], low psb first
          UserPsb,     \* the score of a word the user dictionary has learnt
          MaxLen,      \* kMaxRowNum - 1
          MaxLemma,    \* kMaxLemmaSize
          MaxExt,      \* kMaxPinyinSize + 1
          NodesARow,   \* kMaxNodeARow
          Pruning,     \* PRUMING_SCORE
          MaxSpellings,   \* 9
          XiAn,        \* xi_an_enabled_
          Szm,         \* may a letter stand for a whole spelling (im_enable_shm_as_szm)?
          Careful,     \* does the client keep off the calls the decoder fails at?
          MaxLearnt    \* bound of the model: words in the user dictionary

VARIABLES dec,    \* the decoder
          parser  \* what it asks the spelling trie: the full ids an id stands
                  \* for, and the id of a string

searchVars == <<dec, parser>>

Half(id) == IsHalf(id)
\* The letters that are typed.
Keys == UNION {ToSet(s) : s \in ToSet(Table)}

Sum(s) == Fold(LAMBDA a, x : a + x, 0, s)
Flat(s) == Fold(LAMBDA a, x : a \o x, <<>>, s)
SeqMap(Op(_), s) == [k \in 1..Len(s) |-> Op(s[k])]
Left(s, k) == IF k <= Len(s) THEN s[k] ELSE 0     \* what an array was left with
FirstFrom(s, v) == Min({k \in 1..Len(s) : s[k] >= v} \cup {Len(s) + 1}) - 1

COMPOSING == [ids |-> <<>>, text |-> <<>>, psb |-> 0]   \* kLemmaIdComposing
NoPhrase == [ids |-> <<>>, starts |-> <<0>>, subs |-> <<0>>, text |-> <<>>, len |-> 0]
NoNode == [words |-> <<>>, score |-> -1]
StrayNode == [words |-> <<>>, score |-> -2]    \* a place without a node
StartNode == [words |-> <<>>, score |-> 0]
NewRow == [dmis |-> <<>>, nodes |-> <<>>, full |-> FALSE]
FirstRow == [dmis |-> <<>>, nodes |-> <<StartNode>>, full |-> TRUE]

\* A node is a sequence of words, each with the DMI it was matched by.
Steps(node) == SeqMap(LAMBDA w : Sum(w.lens), node.words)
StepOf(node) == Sum(Steps(node))

Composed(d) == d.lmaIds # <<>> /\ d.lmaIds[1] = COMPOSING
FixedStep(d) == d.splStart[d.hzs + 1]
Check(d, fact, name) == IF fact THEN d ELSE [d EXCEPT !.failed = @ \cup {name}]
CheckOk(d, name) == Check(d, d.ok, name)
Unless(failed, d) == IF failed.failed # {} THEN failed ELSE d

\* The words that have these ids, and whether some word begins with them.
\* The user dictionary is the decoder's copy: it is read when a row is added.
Matches(ids, word) == Len(ids) = Len(word.ids) /\ \A k \in 1..Len(ids) : word.ids[k] \in parser.fulls[ids[k]]
WordsFor(d, ids) == {w \in Lexicon \cup d.user : Matches(ids, w)}
Extendable(d, ids) ==
  \E w \in Lexicon \cup d.user : Len(ids) <= Len(w.ids) /\ Matches(ids, [ids |-> SubSeq(w.ids, 1, Len(ids))])
ByPsb(S) == Ranked(S, LAMBDA v, w : v.psb < w.psb)

\* reset_search0.
Reset0(d) ==
  [d EXCEPT !.decoded = 0, !.rows = [r \in 0..MaxLen |-> IF r = 0 THEN FirstRow ELSE NewRow],
            !.fixedAt[0] = StartNode, !.lmaStart[1] = 0, !.lmas = 0, !.splStart[1] = 0, !.hzs = 0]

-----------------------------------------------------------------------------
(* Adding a letter.                                                           *)

InsertNode(nodes, node) ==
  LET before == Cardinality({k \in 1..Len(nodes) : nodes[k].score <= node.score})
      longer == InsertAt(nodes, before + 1, node)
  IN  SubSeq(longer, 1, Min({NodesARow, Len(longer)}))

\* extend_mtrx_nd: the items are sorted, the rest of them is left out when the
\* scores get too bad.
ExtendNode(nodes, from, items, dmi) ==
  LET most == IF StepOf(from) = 0 THEN Min({NodesARow, Len(items)}) ELSE Len(items)
      node(w) == [words |-> Append(from.words, [word |-> w, ids |-> dmi.ids, lens |-> dmi.lens]),
                  score |-> from.score + w.psb]
      add(a, k) == IF a.stop \/ (k > 1 /\ node(items[k]).score - Pruning > a.nodes[1].score)
                   THEN [a EXCEPT !.stop = TRUE]
                   ELSE [a EXCEPT !.nodes = InsertNode(@, node(items[k]))]
  IN  Fold(add, [nodes |-> nodes, stop |-> FALSE], [k \in 1..most |-> k]).nodes

\* extend_dmi and extend_dmi_c: one more id behind a DMI; the words for it.
Extended(d, comp, ids) ==
  LET n == Len(ids)
  IN  IF comp THEN [found |-> n <= d.phrase.len /\ ids[n] = d.phrase.ids[n],
                    items |-> IF n = d.phrase.len /\ ids[n] = d.phrase.ids[n] THEN <<COMPOSING>> ELSE <<>>]
      ELSE [found |-> Extendable(d, ids), items |-> ByPsb(WordsFor(d, ids))]

\* A mutant of Barred: a DMI may reach into the fixed words.
BarredByLength(d, acc, comp, old, ext, dmi) ==
  LET root == dmi.ids = <<>>
  IN  \/ dmi.comp /\ ~comp
      \/ acc.longest > ext /\ IF root THEN ~d.rows[old].full ELSE Half(dmi.ids[Len(dmi.ids)])
      \/ Len(dmi.ids) >= IF comp THEN MaxLen + 1 ELSE MaxLemma

\* Which DMIs of the old row are not to be extended: those that reach into the
\* fixed words or belong to a composing phrase, "g ao" after "gao", "z h" after
\* "zh", and those that are long enough.
Barred(d, acc, comp, old, ext, dmi) ==
  LET root == dmi.ids = <<>>
  IN  \/ ~root /\ d.hzs > 0 /\ old - Sum(dmi.lens) < FixedStep(d)
      \/ dmi.comp /\ ~comp
      \/ acc.longest > ext /\ IF root THEN ~d.rows[old].full ELSE Half(dmi.ids[Len(dmi.ids)])
      \/ Len(dmi.ids) >= IF comp THEN MaxLen + 1 ELSE MaxLemma

ExtendTo(acc, new, from, x) ==
  LET reached == x.items # <<>> /\ from # <<>>
  IN  [acc EXCEPT !.row = [dmis |-> IF x.found THEN Append(@.dmis, new) ELSE @.dmis,
                           nodes |-> Fold(LAMBDA ns, n : ExtendNode(ns, n, x.items, new), @.nodes, from),
                           full |-> @.full \/ (x.found /\ ~Half(Last(new.ids)))],
                  !.reached = @ \/ reached,
                  !.longest = IF @ = 0 /\ reached THEN Last(new.lens) ELSE @]

ExtendFrom(d, acc, comp, old, ext, id, dmi) ==
  LET new == [ids |-> Append(dmi.ids, id), lens |-> Append(dmi.lens, ext), comp |-> comp]
  IN  IF Barred(d, acc, comp, old, ext, dmi) THEN acc
      ELSE ExtendTo(acc, new, d.rows[old - Sum(dmi.lens)].nodes, Extended(d, comp, new.ids))

\* The spellings that end with the new letter, the longest first.
ExtendBy(d, acc, comp, ext) ==
  LET n   == d.decoded
      old == n - ext
      spl == parser.splOf[SubSeq(d.pys, old + 1, n)]
      far == ext > 1 /\ acc.longest # 0 /\ ~d.rows[old].full
      froms == Append(d.rows[old].dmis, [ids |-> <<>>, lens |-> <<>>, comp |-> FALSE])
      seen == [acc EXCEPT !.matched = @ \/ spl.pre]
  IN  IF acc.stop \/ old < FixedStep(d) THEN acc
      ELSE IF far THEN [acc EXCEPT !.stop = ~XiAn]
      ELSE IF d.rows[old].nodes = <<>> /\ ~comp THEN acc
      ELSE IF spl.id = 0 THEN seen
      ELSE Fold(LAMBDA a, dmi : ExtendFrom(d, a, comp, old, ext, spl.id, dmi), seen, froms)

\* add_char; d.ok is what it returns.  A row that no node reaches keeps the
\* mark of a fixed word it may have had before.
RowAdded(d, comp, acc) ==
  [d EXCEPT !.rows[d.decoded] = acc.row,
            !.fixedAt[d.decoded] = IF acc.reached THEN NoNode ELSE @,
            !.ok = comp \/ acc.row.nodes # <<>> \/ acc.matched]

ExtendByAll(d, comp) ==
  Fold(LAMBDA a, k : ExtendBy(d, a, comp, MaxExt + 1 - k),
       [row |-> NewRow, longest |-> 0, matched |-> FALSE, reached |-> FALSE, stop |-> FALSE],
       [k \in 1..MaxExt |-> k])

AddChar(d, comp, ch) ==
  LET n == d.decoded + 1
      e == [d EXCEPT !.pys = IF n <= Len(@) THEN [@ EXCEPT ![n] = ch] ELSE Append(@, ch), !.decoded = n]
  IN  IF d.decoded >= MaxLen THEN [d EXCEPT !.ok = FALSE]
      ELSE RowAdded(e, comp, ExtendByAll(e, comp))

Cut(d, n) == [d EXCEPT !.decoded = n, !.rows = [r \in 0..MaxLen |-> IF r <= n THEN @[r] ELSE NewRow]]

\* Letters first..last of the string once more; does each of them go in?
AddAgain(d, comp, first, last) ==
  Fold(LAMBDA e, k : LET f == AddChar(e, comp, d.pys[k]) IN [f EXCEPT !.ok = @ /\ e.ok],
           [d EXCEPT !.ok = TRUE], [k \in 1..last - first + 1 |-> first + k - 1])

KeptIfIn(d, n) == IF d.ok THEN d ELSE Cut(d, n - 1)

\* Letters from place n on, until one does not go in.
DecodeFrom(d, n) ==
  Fold(LAMBDA e, k : IF e.ok THEN KeptIfIn(AddChar(e, FALSE, d.pys[k]), k) ELSE e,
       [d EXCEPT !.ok = TRUE], [k \in 1..Len(d.pys) - n |-> n + k])

-----------------------------------------------------------------------------
(* Going back.                                                                *)

\* The composing phrase becomes the first word again and is fixed: its row is
\* marked with the address of its first place, be there a node or not.
FixPhrase(d) ==
  LET s == d.splStart[d.phrase.len + 1]
  IN  [d EXCEPT !.lmaNum = 1, !.lmas = 1, !.no1 = <<FALSE>>, !.hzs = d.phrase.len,
                !.lmaStart = <<0, d.phrase.len>>, !.lmaIds = <<COMPOSING>>,
                !.fixedAt[s] = IF d.rows[s].nodes = <<>> THEN StrayNode ELSE d.rows[s].nodes[1]]

Recompose(d, pyLen) ==
  FixPhrase(CheckOk(AddAgain(Reset0(d), TRUE, 1, pyLen), "the composing phrase decodes"))

\* Everything of the phrase from the spelling on that letter pos is in.
CutPhrase(d, pos) ==
  LET p == d.phrase
      spl == Max({k \in 0..p.len - 1 : p.starts[k + 1] <= pos})
      sub == Max({j \in 1..Len(p.subs) - 1 : p.subs[j] <= spl})
  IN  [d EXCEPT !.phrase.len = spl, !.phrase.text = SubSeq(@, 1, spl),
                !.phrase.subs = SubSeq(@, 1, sub) \o (IF p.subs[sub] = spl THEN <<>> ELSE <<spl>>)]

\* reset_search: back to the row behind letter pos.  The words fixed behind it
\* are free again, and the letters behind the last one that stays fixed are
\* decoded once more.
BackToFixed(d, pos, clearFixed) ==
  LET most == IF clearFixed THEN pos - 1 ELSE pos
      f    == Max({r \in 0..most : r = 0 \/ d.fixedAt[r] # NoNode})
      hzs  == IF f = 0 THEN 0 ELSE FirstFrom(d.splStart, f)
      lmas == IF f = 0 THEN 0 ELSE FirstFrom(d.lmaStart, hzs)
      e    == Check(Check(d, f > 0 => Left(d.splStart, hzs + 1) = f, "a fixed word ends with a spelling"),
                    Left(d.lmaStart, lmas + 1) = hzs, "a fixed spelling ends a word")
  IN  IF e.failed # {} THEN e
      ELSE AddAgain([Cut(e, f) EXCEPT !.hzs = hzs, !.lmas = lmas], FALSE, f + 1, pos)

ResetSearch(d, pos, clearFixed, clearNodes) ==
  LET e == IF clearNodes THEN [Cut(d, pos) EXCEPT !.rows[pos].nodes = <<>>] ELSE Cut(d, pos)
  IN  IF pos > d.decoded THEN d
      ELSE IF pos = 0 THEN Reset0(d)
      ELSE IF d.hzs = 0 THEN e
      ELSE IF ~Composed(d) \/ d.splStart[d.phrase.len + 1] <= pos THEN BackToFixed(e, pos, clearFixed)
      ELSE LET f == CutPhrase(e, pos) IN Recompose(f, f.splStart[f.phrase.len + 1])

-----------------------------------------------------------------------------
(* What the client is shown.                                                  *)

Best(d) == d.rows[d.decoded].nodes[1]
HasSentence(d) == d.decoded > 0 /\ d.rows[d.decoded].nodes # <<>>

TextOf(d, word) == IF word = COMPOSING THEN SubSeq(d.phrase.text, 1, d.phrase.subs[Len(d.phrase.subs)])
                   ELSE word.text
Sentence(d) == Flat(SeqMap(LAMBDA w : TextOf(d, w.word), Best(d).words))

\* get_spl_start_id: spellings and words of the best sentence behind what is
\* fixed.  Without a sentence the arrays are left as they were.
WithTail(d, tail, lens) ==
  LET from   == d.decoded - Sum(lens)
      ids    == SubSeq(d.splIds, 1, d.hzs) \o Flat(SeqMap(LAMBDA w : w.ids, tail))
      counts == SeqMap(LAMBDA w : Len(w.ids), tail)
  IN  [d EXCEPT !.splIds = ids, !.splNum = Len(ids),
                !.splStart = SubSeq(@, 1, d.hzs + 1) \o [k \in 1..Len(lens) |-> from + Sum(SubSeq(lens, 1, k))],
                !.lmaIds = SubSeq(@, 1, d.lmas) \o SeqMap(LAMBDA w : w.word, tail),
                !.lmaStart = SubSeq(@, 1, d.lmas + 1)
                             \o [k \in 1..Len(tail) |-> d.lmaStart[d.lmas + 1] + Sum(SubSeq(counts, 1, k))],
                !.lmaNum = d.lmas + Len(tail)]

CountFixed(d) ==
  [d EXCEPT !.hzs = Max({0} \cup {k \in 1..d.splNum : d.fixedAt[d.splStart[k + 1]] # NoNode})]

GetSplStartId(d) ==
  LET ends(k) == Sum(SubSeq(Steps(Best(d)), 1, k))
      behind == SelectSeq([k \in 1..Len(Best(d).words) |-> k], LAMBDA k : d.hzs = 0 \/ ends(k) > FixedStep(d))
      tail == SeqMap(LAMBDA k : Best(d).words[k], behind)
  IN  IF ~HasSentence(d) THEN [d EXCEPT !.splNum = 0, !.lmaNum = 0, !.splStart[1] = 0, !.lmaStart[1] = 0]
      ELSE CountFixed(WithTail(d, tail, Flat(SeqMap(LAMBDA w : w.lens, tail))))

\* prepare_candidates and get_lpis: the words for the next spellings, each text
\* once, with its best score; the one that equals the rest of the sentence is
\* not offered again.  Without a sentence the number of spellings less the fixed
\* ones wraps around and words of old spellings are collected, of which
\* get_candidate_num offers none.
WordsOfSize(d, size) ==
  LET all == WordsFor(d, SubSeq(d.splIds, d.hzs + 1, d.hzs + size))
  IN  {w \in all : \A v \in all : v.text = w.text => w.psb <= v.psb}

PrepareCandidates(d) ==
  LET most == Min({MaxLemma, d.splNum - d.hzs})
      rest == SubSeq(Sentence(d), d.hzs + 1, Len(Sentence(d)))
  IN  IF ~HasSentence(d) \/ most < 1 THEN [d EXCEPT !.cands = {}]
      ELSE [d EXCEPT !.cands = {w \in UNION {WordsOfSize(d, n) : n \in 1..most} : w.text # rest}]

\* try_add_cand0_to_userdict: a sentence whose words are not all the decoder's
\* first choice is learnt, in pieces that are no longer than a word may be; a
\* piece of a single word is not.
Learn(d) ==
  LET add(a, k) ==
        LET split == d.lmaStart[k + 1] - d.lmaStart[a.from] > MaxLemma
            b == IF split THEN [from |-> k, changed |-> FALSE,
                                pieces |-> IF a.changed THEN a.pieces \cup {<<a.from, k - 1>>} ELSE a.pieces]
                 ELSE a
        IN  [b EXCEPT !.changed = @ \/ ~d.no1[k]]
      last == Fold(add, [from |-> 1, changed |-> FALSE, pieces |-> {}], [k \in 1..d.lmas |-> k])
      pieces == last.pieces \cup (IF last.changed THEN {<<last.from, d.lmas>>} ELSE {})
      fullIds(k) == IF d.lmaIds[k] = COMPOSING THEN SubSeq(d.phrase.ids, 1, d.phrase.len) ELSE d.lmaIds[k].ids
      learnt(p) == [ids |-> Flat([k \in 1..p[2] - p[1] + 1 |-> fullIds(p[1] + k - 1)]),
                    text |-> Flat([k \in 1..p[2] - p[1] + 1 |-> TextOf(d, d.lmaIds[p[1] + k - 1])]),
                    psb |-> UserPsb]
      new == {learnt(p) : p \in {p \in pieces : p[2] > p[1]}}
  IN  IF d.hzs > 0 /\ HasSentence(d) /\ d.cands = {}
      THEN [d EXCEPT !.user = @ \cup {w \in new : \A k \in 1..Len(w.ids) : ~Half(w.ids[k])}]
      ELSE d

Refreshed(d) == PrepareCandidates(GetSplStartId(d))

-----------------------------------------------------------------------------
(* The calls.                                                                 *)

\* search: what the new string has in common with the old one is kept.
FewerSpellings(d) ==
  Fold(LAMBDA e, k : IF e.splNum <= MaxSpellings THEN e
                         ELSE LET n == Len(e.pys) - 1
                              IN  GetSplStartId([ResetSearch(e, n, FALSE, FALSE) EXCEPT !.pys = SubSeq(@, 1, n)]),
           d, [k \in 1..MaxLen |-> k])

CommonLength(d, py) ==
  Max({n \in 0..Min({d.decoded, Len(py)}) : SubSeq(py, 1, n) = SubSeq(d.pys, 1, n)})

Compared(d, str) ==
  [d EXCEPT !.lost = ~IsPrefix(SubSeq(str, 1, Min({Len(d.pys), Len(str)})), d.pys)]

SearchOn(d, str, n) ==
  Unless(d, Compared(PrepareCandidates(FewerSpellings(GetSplStartId(DecodeFrom([d EXCEPT !.pys = str], n)))), str))

Searched(d, py) ==
  LET str == SubSeq(py, 1, Min({Len(py), MaxLen}))
      n   == CommonLength(d, str)
  IN  SearchOn(ResetSearch(d, n, n # d.decoded, FALSE), str, n)

\* merge_fixed_lmas: spelling spl (from 0) is taken away; the fixed words become
\* a composing phrase without it.
MergeFixedLmas(d, spl) ==
  LET gone == d.splStart[spl + 2] - d.splStart[spl + 1]
      ids  == RemoveAt(d.splIds, spl + 1)
      starts == SubSeq(d.splStart, 1, spl) \o [k \in 1..d.splNum - spl |-> d.splStart[spl + k + 1] - gone]
      phrase == Composed(d)
      ends == SubSeq(IF phrase THEN d.phrase.subs ELSE d.lmaStart, 1, IF phrase THEN Len(d.phrase.subs) ELSE d.lmas + 1)
      text == IF phrase THEN d.phrase.text ELSE Flat([k \in 1..d.lmas |-> TextOf(d, d.lmaIds[k])])
      subs == Ranked({IF x > spl THEN x - 1 ELSE x : x \in ToSet(ends)}, <)
      e    == [d EXCEPT !.splNum = @ - 1, !.splIds = ids, !.splStart = starts]
  IN  IF phrase /\ d.lmas > 1
      THEN Check(e, d.lmaStart[2] = 0, "the lengths of the merged words add up")
      ELSE [e EXCEPT !.phrase = [ids |-> ids, starts |-> starts, subs |-> subs, len |-> Len(text) - 1,
                                 text |-> RemoveAt(text, spl + 1)]]

\* delsearch takes away a letter behind the fixed words,
Recomposed(d, pyLen) ==
  LET p == d.phrase
  IN  Recompose(Check(d, p.len > 0 /\ pyLen = p.starts[p.subs[Len(p.subs)] + 1],
                      "the phrase is as long as its spellings"), pyLen)

FixedEnd(d) == d.splStart[d.lmaStart[d.lmas + 1] + 1]

\* or behind what is decoded, even where a spelling was meant: the rest is tried again,
Without(d, pos) == [d EXCEPT !.pys = IF pos < Len(@) THEN RemoveAt(@, pos + 1) ELSE @]
DeletedBehind(d, pos) == Refreshed(DecodeFrom(Without(d, pos), d.decoded))

DeletedLetter(d, pos, clearFixed) ==
  LET e == Without(d, pos)
      p == d.phrase
      f == [e EXCEPT !.phrase.subs = Front(@), !.phrase.len = p.subs[Len(p.subs) - 1]]
      n == d.splStart[f.phrase.len + 1]
      unlock == pos = FixedEnd(d) /\ Composed(d) /\ clearFixed
  IN  IF d.decoded <= pos THEN DeletedBehind(d, pos)
      ELSE IF d.lmas > 0 /\ pos < FixedEnd(d) THEN d
      ELSE IF unlock /\ n > 0 THEN Refreshed(DecodeFrom(Recomposed(f, n), n))
      ELSE LET m == IF unlock THEN n ELSE pos
           IN  Refreshed(DecodeFrom([ResetSearch(d, m, clearFixed, FALSE) EXCEPT !.pys = e.pys], m))

\* or a spelling anywhere else.
Remerged(d, n) == Unless(d, Refreshed(DecodeFrom(Recomposed(d, n), n)))

DeletedSpelling(d, spl, clearFixed) ==
  LET from == d.splStart[spl + 1]
      to   == d.splStart[spl + 2]
      pys  == SubSeq(d.pys, 1, from) \o SubSeq(d.pys, to + 1, Len(d.pys))
      n    == FixedEnd(d) - (to - from)
      behind == spl >= d.lmaStart[d.lmas + 1]
  IN  IF d.decoded <= spl THEN DeletedBehind(d, spl)
      ELSE IF d.splNum <= spl THEN d
      ELSE IF ~behind /\ n > 0 THEN Remerged(MergeFixedLmas([d EXCEPT !.pys = pys], spl), n)
      ELSE LET m == IF behind THEN from ELSE n
           IN  Refreshed(DecodeFrom([ResetSearch(d, m, clearFixed, FALSE) EXCEPT !.pys = pys], m))

\* choose: the sentence as a whole,
ChosenSentence(d) ==
  LET e == [d EXCEPT !.hzs = d.splNum, !.fixedAt[d.splStart[d.splNum + 1]] = Best(d),
                     !.no1 = [k \in 1..d.lmaNum |-> k > d.lmas \/ d.no1[k]],
                     !.lmas = d.lmaNum, !.cands = {}]
  IN  IF d.lmaNum = 1 THEN e ELSE Learn(e)

\* or a word, behind the fixed ones.  The words offered may be those of another
\* segmentation than the present one: what is matched are the present spellings.
\* (Where there are fewer of those the arrays are read behind their end, which is
\* left out.)
Reaches(d, w) == d.hzs + Len(w.ids) <= d.splNum
Fits(d, w) == Matches(SubSeq(d.splIds, d.hzs + 1, d.hzs + Len(w.ids)), w)

FixWord(d, w, to, dmi) ==
  LET n    == Len(w.ids)
      node == ExtendNode(<<>>, d.fixedAt[d.splStart[d.hzs + 1]], <<w>>, dmi)[1]
  IN  [d EXCEPT !.rows[to].nodes = <<node>>, !.fixedAt[to] = node,
                !.no1 = Append(SubSeq(@, 1, d.lmas), w = d.lmaIds[d.lmas + 1]),
                !.lmaIds = SubSeq(@, 1, d.lmas) \o <<w>> \o SubSeq(@, d.lmas + 2, Len(@)),
                !.lmaStart = SubSeq(@, 1, d.lmas + 1) \o <<d.lmaStart[d.lmas + 1] + n>> \o SubSeq(@, d.lmas + 3, Len(@)),
                !.lmas = @ + 1, !.hzs = @ + n]

NextCandidates(d) == IF d.hzs < d.splNum THEN PrepareCandidates(d) ELSE Learn([d EXCEPT !.cands = {}])

\* d is back at the end of the word.
ChooseAt(d, w, to, ids, last) ==
  LET dmis == SelectSeq(d.rows[to].dmis, LAMBDA m : m.ids = ids)
      node == d.fixedAt[d.splStart[d.hzs + 1]] # NoNode
  IN  Unless(Check(Check(d, dmis # <<>>, "the chosen word has its DMI"), node, "the fixed words have their node"),
             NextCandidates(CheckOk(AddAgain(FixWord(d, w, to, dmis[1]), FALSE, to + 1, last),
                                    "the letters behind the chosen word go in again")))

ChosenWord(d, w) ==
  LET to == d.splStart[d.hzs + Len(w.ids) + 1]
  IN  ChooseAt(ResetSearch(d, to, FALSE, TRUE), w, to, SubSeq(d.splIds, d.hzs + 1, d.hzs + Len(w.ids)), d.decoded)

\* A mutant of DecodeAfterCancel: the letters behind the word are left out.
DecodeThatWord(d, from, len) ==
  Unless(d, PrepareCandidates(AddAgain(d, FALSE, from + 1, from + len)))

DecodeAfterCancel(d, from, len) ==
  Unless(d, PrepareCandidates(CheckOk(AddAgain(d, FALSE, from + 1, Len(d.pys)),
                                      "the letters behind the cancelled word go in again")))

\* cancel_last_choice: the whole string behind it is added again.
CancelWord(d, word, from) ==
  DecodeAfterCancel(ResetSearch([d EXCEPT !.hzs = IF from > 0 THEN @ - Len(word.ids) ELSE 0], from, FALSE, FALSE),
                    from, Sum(word.lens))

Cancelled(d) ==
  LET end == d.fixedAt[FixedStep(d)]
  IN  IF d.hzs = 0 THEN d
      ELSE IF end \in {NoNode, StrayNode} THEN Check(d, FALSE, "the fixed words have their node")
      ELSE CancelWord(d, Last(end.words), StepOf(end) - Sum(Last(end.words).lens))

-----------------------------------------------------------------------------

Running == dec.failed = {}
\* The client asks for the spellings after each choice (pinyinime_test.cpp); a
\* careful one does so before anything else, does not change the letters of a
\* composing phrase in a new string, does not take a letter or a spelling from
\* it while other words are fixed too, chooses what fits the spellings, and
\* cancels nothing while letters are not decoded.
Ready == Running /\ (Careful => ~dec.stale)

\* What is never read again is forgotten.
Done(d) == [d EXCEPT !.ok = TRUE, !.no1 = SubSeq(@, 1, d.lmas),
                     !.phrase = IF Composed(d) THEN @ ELSE NoPhrase]

ImSearch(py) ==
  /\ Ready
  /\ Careful /\ dec.hzs > 0 /\ Composed(dec) =>
       CommonLength(dec, py) > IF CommonLength(dec, py) = dec.decoded THEN 0 ELSE dec.splStart[dec.phrase.len + 1]
  /\ dec' = Done(Searched(dec, py))
  /\ UNCHANGED parser

DelSearch(pos, inSpl, clearFixed) ==
  /\ Ready
  /\ Careful /\ Composed(dec) /\ dec.hzs > 0 =>
       /\ inSpl => pos # dec.hzs /\ (dec.lmas > 1 => pos > dec.hzs)
       /\ ~inSpl /\ dec.lmas > 1 => pos # FixedEnd(dec)
  /\ dec' = Done(IF inSpl THEN DeletedSpelling(dec, pos, clearFixed)
                 ELSE DeletedLetter(dec, pos, clearFixed))
  /\ UNCHANGED parser

Choose ==
  /\ Ready /\ HasSentence(dec)
  /\ \E d \in {ChosenSentence(dec)} \cup {ChosenWord(dec, w) : w \in {w \in dec.cands : Reaches(dec, w) /\ (Careful => Fits(dec, w))}} :
       Cardinality(d.user) <= MaxLearnt /\ dec' = [Done(d) EXCEPT !.stale = TRUE]
  /\ UNCHANGED parser

GetSplStart ==
  /\ Running
  /\ dec' = [Done(GetSplStartId(dec)) EXCEPT !.stale = FALSE]
  /\ UNCHANGED parser

CancelLastChoice ==
  /\ Ready /\ dec.decoded > 0
  /\ Careful => dec.decoded = Len(dec.pys)
  /\ dec' = [Done(Cancelled(dec)) EXCEPT !.stale = TRUE]
  /\ UNCHANGED parser

ImReset == Ready /\ dec' = Done(Reset0(dec)) /\ UNCHANGED parser

SearchInit ==
  /\ LET t == Trie(Table, Szm, TRUE)
     IN  parser = [fulls |-> [id \in 1..HalfNum + Len(Table) |-> IF Half(id) THEN HalfToFull(t, id) ELSE {id}],
                   splOf |-> [str \in UNION {[1..n -> Keys] : n \in 1..MaxLen} |-> GetSplidByStr(t, str)]]
  /\ dec = Reset0([pys |-> <<>>, decoded |-> 0, rows |-> [r \in 0..MaxLen |-> NewRow],
                fixedAt |-> [r \in 0..MaxLen |-> NoNode], splIds |-> <<>>, splStart |-> <<0>>, splNum |-> 0,
                lmaIds |-> <<>>, lmaStart |-> <<0>>, lmaNum |-> 0, hzs |-> 0, lmas |-> 0, no1 |-> <<>>,
                phrase |-> NoPhrase,
                cands |-> {}, lost |-> FALSE, user |-> {}, ok |-> TRUE, stale |-> FALSE, failed |-> {}])

\* The client types a letter behind the string, or changes it from a place on.
SearchNext ==
  \/ \E k \in 0..Len(dec.pys), c \in Keys : ImSearch(Append(SubSeq(dec.pys, 1, k), c))
  \/ \E pos \in 0..MaxLen - 1, clearFixed \in BOOLEAN :
       DelSearch(pos, TRUE, clearFixed) \/ DelSearch(pos, FALSE, clearFixed)
  \/ Choose \/ GetSplStart \/ CancelLastChoice \/ ImReset

SearchSpec == SearchInit /\ [][SearchNext]_searchVars

-----------------------------------------------------------------------------
(* Properties.                                                                *)

\* No assertion of the decoder fails.
AssertionsHold == dec.failed = {}

\* "Use a spelling string(Pinyin string) to search" (pinyinime.h:78): what the
\* decoder keeps after a search is what it was given.
SearchKeepsTheString == ~dec.lost

\* What is used again is what would be found anew: while nothing is fixed, the
\* rows do not depend on the calls that led to them.
FromScratch(d) == AddAgain(Reset0(d), FALSE, 1, d.decoded)
RowsAreCurrent == dec.hzs = 0 /\ dec.user = {} => FromScratch(dec).rows = dec.rows

\* Whatever is decoded behind them, the sentence begins with the words the user
\* has fixed, and spellings, words and rows agree about where those end.
FixedWordsBegin ==
  HasSentence(dec) /\ Running /\ ~dec.stale =>
    /\ dec.lmaStart[dec.lmas + 1] = dec.hzs
    /\ Len(Best(dec).words) >= dec.lmas
    /\ \A k \in 1..dec.lmas : Best(dec).words[k].word = dec.lmaIds[k]
    /\ Len(Sentence(dec)) = dec.splNum
    /\ dec.splStart[dec.splNum + 1] = dec.decoded

\* "Cancel the last selection, or revert the last operation of im_choose()"
\* (pinyinime.h): after the choice of a word of the present segmentation, the
\* rows and the candidates are those before.
SameAsNow(d) == d.user = dec.user => d.rows = dec.rows /\ d.cands = dec.cands /\ d.hzs = dec.hzs
CancelReverts ==
  Ready /\ HasSentence(dec) /\ dec.decoded = Len(dec.pys) /\ dec.cands = PrepareCandidates(dec).cands =>
    \A w \in dec.cands : SameAsNow(Cancelled(GetSplStartId(ChosenWord(dec, w))))

\* The decoder goes on whatever the client asks, and keeps what it was given and
\* what the user has chosen.
DecoderIsSound == AssertionsHold /\ SearchKeepsTheString /\ FixedWordsBegin

\* Decoding what has changed and undoing a choice lead to where decoding all of
\* the string would.
ReuseIsExact == RowsAreCurrent /\ CancelReverts
=============================================================================
