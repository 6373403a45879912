------------------------------ MODULE MCPinyin ------------------------------
(* One instance of each part of the Pinyin engine.  The parts are checked side *)
(* by side: the subject is chosen at the beginning and the others stay in      *)
(* their initial states.                                                       *)
EXTENDS UserDict, UserDictFile, SpellingTable, PinyinSearch, MCSystemDict, Codebook, TextReader, TLC

VARIABLE subject

\* UserDict: two first letters, a lemma of each length that share some.
MCInitialOf == <<1, 1, 2>>
Lemma(spl, word) == [spl |-> spl, word |-> word]
MCLemmas == {Lemma(<<1>>, <<1>>), Lemma(<<2>>, <<1>>), Lemma(<<3, 1>>, <<2, 1>>)}
MCQueries == {<<{1}>>, <<{1, 2}>>, <<{3}, {1, 2}>>, <<{3}>>}

\* Spellings and half ids.
MCAlphabet == <<"a", "h", "i", "n", "z">>
MCHalfStrs == << <<"a">>, <<"n">>, <<"z">>, <<"z", "h">> >>
MCSyllables == {<<"a">>, <<"a", "n">>, <<"n", "i">>, <<"z", "a">>, <<"z", "h", "a">>, <<"z", "h", "i">>}

\* The decoder: a vowel, and a consonant before it.
MCTable == << <<"a">>, <<"z", "a">> >>
A == 5
ZA == 6
Word(ids, chars, psb) == [ids |-> ids, text |-> chars, psb |-> psb]
MCLexicon == {Word(<<A>>, <<1>>, 2), Word(<<ZA>>, <<4>>, 5), Word(<<ZA>>, <<5>>, 6), Word(<<ZA, A>>, <<4, 1>>, 8)}

\* Frequencies, of which three at least differ, and five with which a code loses
\* its last one; texts of at most five characters.
MCFreqLists == {s \in [1..4 -> {1, 2, 4, 5, 9, 30}] : Cardinality({s[k] : k \in 1..4}) >= 3}
                 \cup {<<20, 1, 23, 4, 5>>, <<23, 3, 25, 8, 9>>}
MCFiles == UNION {[1..n -> {"x", "blank", "CR", "LF"}] : n \in 0..5}

PinyinInit ==
  /\ subject \in {"userDict", "file", "spellings", "search", "systemDict", "codebook", "reader"}
  /\ UserDictInit /\ FileInit /\ TableInit /\ SearchInit /\ DictInit /\ CodebookInit /\ ReaderInit

PinyinNext ==
  \/ subject = "userDict" /\ UserDictNext /\ UNCHANGED <<subject, ufVars, stVars, searchVars, dictVars, cbVars, trVars>>
  \/ subject = "file" /\ FileNext /\ UNCHANGED <<subject, udVars, stVars, searchVars, dictVars, cbVars, trVars>>
  \/ subject = "spellings" /\ TableNext /\ UNCHANGED <<subject, udVars, ufVars, searchVars, dictVars, cbVars, trVars>>
  \/ subject = "search" /\ SearchNext /\ UNCHANGED <<subject, udVars, ufVars, stVars, dictVars, cbVars, trVars>>
  \/ subject = "systemDict" /\ DictNext /\ UNCHANGED <<subject, udVars, ufVars, stVars, searchVars, cbVars, trVars>>
  \/ subject = "codebook" /\ CodebookNext /\ UNCHANGED <<subject, udVars, ufVars, stVars, searchVars, dictVars, trVars>>
  \/ subject = "reader" /\ ReaderNext /\ UNCHANGED <<subject, udVars, ufVars, stVars, searchVars, dictVars, cbVars>>

pinyinVars == <<subject, udVars, ufVars, stVars, searchVars, dictVars, cbVars, trVars>>

OthersStay == UNCHANGED <<subject, udVars, stVars, searchVars, dictVars, cbVars, trVars>>
PinyinSpec ==
  /\ PinyinInit /\ [][PinyinNext]_pinyinVars
  /\ \A o \in Objects : WF_pinyinVars(subject = "file" /\ FileStep(o) /\ OthersStay)
  /\ WF_pinyinVars(subject = "codebook" /\ Iterate /\ UNCHANGED <<subject, udVars, ufVars, stVars, searchVars, dictVars, trVars>>)
=============================================================================
