--------------------------- MODULE SpellingTable ---------------------------
(* The life of the spellings: the builder of the dictionary puts them into a  *)
(* hash table (pinyin/share/spellingtable.cpp), arranges the table into the   *)
(* sorted array and builds the trie of it; the trie is saved with the         *)
(* dictionary and built anew when that is loaded; the letters that may stand  *)
(* for a spelling are switched on and off at any time.                        *)
EXTENDS SpellingTrie

LOCAL INSTANCE SequencesExt
LOCAL INSTANCE FiniteSetsExt

CONSTANTS Syllables,   \* what the builder may put
          TableSize,   \* spelling_max_num_, a prime
          ProbeStep    \* 123

ASSUME TableAssumption ==
  /\ Syllables \subseteq Words \ {<<>>} /\ IsFiniteSet(Syllables)
  /\ TableSize \in Nat \ {0} /\ ProbeStep \in Nat

VARIABLES raw,   \* the hash table: a spelling or the empty one in each place
          put,   \* history: what has been put
          frozen, trie

stVars == <<raw, put, frozen, trie>>

Places == 0..TableSize - 1
NoTrie == [spls |-> <<>>, halves |-> {}, shm |-> TRUE, ym |-> TRUE]

HashPos(s) == Fold(LAMBDA sum, c : sum + Code(c), 0, s) % TableSize
\* The k-th place where the search for s looks.
Probe(s, k) == (HashPos(s) + k * ProbeStep) % TableSize

\* An arranged table contains nothing any more.
Contain(s) ==
  LET stops == {k \in Places : raw[Probe(s, k)] \in {s, <<>>}}
  IN  ~frozen /\ stops # {} /\ raw[Probe(s, Min(stops))] = s

\* A mutant of PutSpelling: a collision is not seen.
PutOver(s) ==
  /\ ~frozen
  /\ raw' = [raw EXCEPT ![HashPos(s)] = s]
  /\ put' = put \cup {s}
  /\ UNCHANGED <<frozen, trie>>

PutSpelling(s) ==
  LET free == {k \in Places : raw[Probe(s, k)] \in {s, <<>>}}
  IN  /\ ~frozen
      /\ free # {}
      /\ raw' = [raw EXCEPT ![Probe(s, Min(free))] = s]
      /\ put' = put \cup {s}
      /\ UNCHANGED <<frozen, trie>>

ArrangeAndConstruct ==
  LET spls == Sorted({raw[h] : h \in Places} \ {<<>>})
  IN  /\ ~frozen /\ spls # <<>>
      /\ frozen' = TRUE
      /\ trie' = Trie(spls, trie.shm, trie.ym)
      /\ UNCHANGED <<raw, put>>

LoadSplTrie ==
  /\ frozen
  /\ trie' = Trie(trie.spls, trie.shm, trie.ym)
  /\ UNCHANGED <<raw, put, frozen>>

SzmEnableShm(enable) ==
  /\ frozen
  /\ trie' = [trie EXCEPT !.shm = enable]
  /\ UNCHANGED <<raw, put, frozen>>

SzmEnableYm(enable) ==
  /\ frozen
  /\ trie' = [trie EXCEPT !.ym = enable]
  /\ UNCHANGED <<raw, put, frozen>>

TableInit ==
  /\ raw = [h \in Places |-> <<>>]
  /\ put = {}
  /\ frozen = FALSE
  /\ trie = NoTrie

TableNext ==
  \/ \E s \in Syllables : PutSpelling(s)
  \/ ArrangeAndConstruct \/ LoadSplTrie
  \/ \E b \in BOOLEAN : SzmEnableShm(b) \/ SzmEnableYm(b)

TableSpec == TableInit /\ [][TableNext]_stVars

-----------------------------------------------------------------------------
(* Properties.                                                                *)

\* However the probes of the spellings collide, until it is arranged the table
\* contains what was put and nothing else, and the array then has each once.
TableHoldsWhatWasPut ==
  /\ ~frozen => \A s \in Syllables : Contain(s) <=> s \in put
  /\ frozen => ToSet(trie.spls) = put /\ Len(trie.spls) = Cardinality(put)

Strings(n) == UNION {[1..k -> Letters] : k \in 1..n}

\* A half id stands for the spellings that begin with its letters, and a full
\* id finds its way back to the longest half id it begins with.
HalfIdsAreRanges ==
  \A h \in trie.halves :
    /\ {SpellingStr(trie, f) : f \in HalfToFull(trie, h)} =
       {s \in put : IsPrefix(HalfStrs[h], s)}
    /\ \A f \in HalfToFull(trie, h) : \E g \in FullToHalf(trie, f) : 
         IsPrefix(HalfStrs[h], HalfStrs[g]) /\ IsPrefix(HalfStrs[g], SpellingStr(trie, f))

\* The ids of a parse spell out the string they cover, and a string that is a
\* spelling is parsed as that one.
ParseSpells ==
  frozen => \A str \in Strings(4) :
    LET p == Parse(trie, str, 4)
        n == Len(p.ids)
    IN  /\ \A k \in 1..n : LET piece == SubSeq(str, p.starts[k] + 1, p.starts[k + 1])
                           IN  IsPrefix(piece, SpellingStr(trie, p.ids[k])) /\ piece # <<>>
        /\ str \in put /\ Len(str) > 1 /\ (\A h \in trie.halves : HalfStrs[h] # str)
             => p.ids = <<NodeId(trie, str)>> /\ GetSplidByStr(trie, str).id = p.ids[1]

\* "Enable Shengmus in ShouZiMu mode" (pinyinime.h:197): with it on, each first
\* letter of a spelling is a valid id.  It does not hold: the last first letter
\* has no half id when the mode was off at the time of the construction.
EnabledLettersAreIds ==
  frozen => \A s \in put : SzmEnabled(trie, s[1]) => GetSplidByStr(trie, <<s[1]>>).id # 0

\* What was put is what is parsed: table, half ids and parser together.
SpellingsAreSound == TableHoldsWhatWasPut /\ HalfIdsAreRanges /\ ParseSpells
=============================================================================
