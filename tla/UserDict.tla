------------------------------ MODULE UserDict ------------------------------
(* The user dictionary of the Pinyin engine (pinyin/share/userdict.cpp): a    *)
(* block of lemmas in the order they were added, the sorted table of offsets  *)
(* into it with the flag of removed lemmas in each offset, the parallel       *)
(* tables of scores and ids, the table for prediction, the queue of lemmas to *)
(* be synchronised, the caches of earlier searches, and the file, of which a  *)
(* write-back rewrites no more than the dirty state asks for.                 *)
(* A lemma takes one place of the block, a score is its frequency, and one    *)
(* object is used by one client; two objects on one file are UserDictFile.    *)
EXTENDS Integers, FiniteSets, Sequences

LOCAL INSTANCE SequencesExt
LOCAL INSTANCE FiniteSetsExt

CONSTANTS Lemmas,      \* records [spl, word]: full spelling ids and characters
          InitialOf,   \* the first letter of each spelling id
          Queries,     \* each place of a query is a set of full ids: one of a half id's
          Clients,     \* "ime" (MatrixSearch) or "sync" (Sync)
          PreAlloc,    \* kUserDictPreAlloc
          CacheSize,   \* kUserDictCacheSize - 1: the ring keeps one place free
          LpiMax,      \* how many items a search may return
          Limit, Ratio, \* set_limit's max_lemma_count and reclaim_ratio
          MaxFreq, MaxBlock, MaxSyncs  \* bounds of the model

SplIds == DOMAIN InitialOf

\* The full ids that a half id stands for share their first letter.
ASSUME UserDictAssumption ==
  /\ \A s \in SplIds : InitialOf[s] \in Int
  /\ Lemmas \subseteq [spl : Seq(SplIds), word : Seq(Int)] /\ IsFiniteSet(Lemmas)
  /\ \A l \in Lemmas : Len(l.word) = Len(l.spl)
  /\ Queries \subseteq Seq((SUBSET SplIds) \ {{}})
  /\ \A q \in Queries : \A k \in 1..Len(q) : \A s, t \in q[k] : InitialOf[s] = InitialOf[t]
  /\ PreAlloc \in Nat \ {0} /\ CacheSize \in Nat \ {0} /\ LpiMax \in Nat \ {0}
  /\ Limit \in Nat /\ Ratio \in Nat /\ MaxFreq \in Nat \ {0}

VARIABLES dict, room, state, caches, misses, file, client

udVars == <<dict, room, state, caches, misses, file, client>>

NONE == 0
SYNC == 1
SYNC_DIRTY == 2
SCORE_DIRTY == 3
OFFSET_DIRTY == 4
LEMMA_DIRTY == 5
DEFRAGMENTED == 6

Dirty(s) == IF state < s THEN s ELSE state

NoLemmas == [lemmas |-> <<>>, offsets |-> <<>>, predicts |-> <<>>, scores |-> <<>>,
             ids |-> <<>>, byId |-> <<>>, syncs |-> <<>>, limit |-> 0]

Entries(d) == 1..Len(d.offsets)
Live(d) == {i \in Entries(d) : ~d.offsets[i].removed}
LemmaAt(d, i) == d.lemmas[d.offsets[i].at]

-----------------------------------------------------------------------------
(* Comparison by length and first letters, and the searchable of a query.     *)

Signature(q) == [k \in 1..Len(q) |-> InitialOf[CHOOSE s \in q[k] : TRUE]]
QueryOf(l) == [k \in 1..Len(l.spl) |-> {l.spl[k]}]

FuzzyCompare(spl, sig) ==
  LET differ == {k \in 1..Len(sig) : InitialOf[spl[k]] # sig[k]}
  IN  IF Len(spl) # Len(sig) THEN Len(spl) - Len(sig)
      ELSE IF differ = {} THEN 0
      ELSE InitialOf[spl[Min(differ)]] - sig[Min(differ)]

FuzzyPrefix(spl, sig) ==
  Len(spl) >= Len(sig) /\ \A k \in 1..Len(sig) : InitialOf[spl[k]] = sig[k]

SpellPrefix(spl, q) == Len(spl) >= Len(q) /\ \A k \in 1..Len(q) : spl[k] \in q[k]

\* A binary search goes up from the places that are low, down from the others,
\* and remembers the last place it looked at that is a hit.
Spans(n) == {r \in (1..n + 1) \X (0..n) : r[1] <= r[2] + 1}
SearchIn(low, hits, r, search) ==
  LET m    == (r[1] + r[2]) \div 2
      rest == IF m \in low THEN search[<<m + 1, r[2]>>] ELSE search[<<r[1], m - 1>>]
  IN  IF r[1] > r[2] THEN 0 ELSE IF rest = 0 /\ m \in hits THEN m ELSE rest
BinarySearch(n, low, hits) ==
  LET search[r \in Spans(n)] == SearchIn(low, hits, r, search) IN search[<<1, n>>]

LocateFirst(d, sig) ==
  BinarySearch(Len(d.offsets), {i \in Entries(d) : FuzzyCompare(LemmaAt(d, i).spl, sig) < 0},
                               {i \in Entries(d) : FuzzyPrefix(LemmaAt(d, i).spl, sig)})

\* The rings of searches, one for each length.
Cached(sig) == {c \in ToSet(caches[Len(sig)]) : c.sig = sig}
Missed(sig) == sig \in ToSet(misses[Len(sig)])

\* The range of entries a search looks through: from a cache, or from the
\* first place to the end of the table.
RangeFor(sig, useMisses) ==
  IF useMisses /\ Missed(sig) THEN [from |-> 1, to |-> 0, cached |-> TRUE]
  ELSE IF Cached(sig) # {} THEN LET c == CHOOSE c \in Cached(sig) : TRUE
                                IN  [from |-> c.from, to |-> c.to, cached |-> TRUE]
  ELSE [from |-> LocateFirst(dict, sig), to |-> Len(dict.offsets), cached |-> FALSE]

-----------------------------------------------------------------------------
(* Looking up.                                                                *)

\* Is lemma l in the dictionary?  The comparisons take the length of l, not
\* that of the entry, so that a longer entry can pass for l.
Locate(l) ==
  LET sig == Signature(QueryOf(l))
      r   == RangeFor(sig, FALSE)
      n   == Len(l.spl)
      live == {i \in r.from..r.to : i \in Live(dict)}
      same(i) == /\ Len(LemmaAt(dict, i).spl) >= n
                 /\ SubSeq(LemmaAt(dict, i).spl, 1, n) = l.spl
                 /\ SubSeq(LemmaAt(dict, i).word, 1, n) = l.word
      found == {i \in live : /\ same(i)
                             /\ r.cached \/ \A j \in live : j <= i =>
                                              FuzzyPrefix(LemmaAt(dict, j).spl, sig)}
  IN  IF r.from = 0 \/ found = {} THEN 0 ELSE Min(found)

\* What a search for q looks at, what it finds, and whether it asks for more
\* spelling ids.  It stops behind the first live entry that is no match of the
\* signature, or when it has all the items the caller has room for.
Search(q) ==
  LET sig  == Signature(q)
      r    == RangeFor(sig, TRUE)
      spl(i) == LemmaAt(dict, i).spl
      live == {i \in r.from..r.to : i \in Live(dict)}
      hits == {i \in live : Len(spl(i)) = Len(q) /\ SpellPrefix(spl(i), q)}
      stop == {i \in live : \/ ~r.cached /\ FuzzyCompare(spl(i), sig) # 0
                            \/ ~FuzzyPrefix(spl(i), sig)}
      seen == {i \in r.from..r.to : /\ \A j \in stop : i <= j
                                    /\ Cardinality({j \in hits : j < i}) < LpiMax}
  IN  IF r.from = 0 THEN [sig |-> sig, found |-> {}, extend |-> FALSE, range |-> r]
      ELSE [sig |-> sig, found |-> {LemmaAt(dict, i) : i \in hits \cap seen},
            extend |-> \E i \in live \cap seen : SpellPrefix(spl(i), q),
            range |-> [r EXCEPT !.to = Max(seen \cup {r.from - 1})]]

Remember(rings, n, item) ==
  [rings EXCEPT ![n] = IF Len(@) < CacheSize THEN Append(@, item) ELSE Append(Tail(@), item)]

GetLpis(q) ==
  LET s == Search(q)
  IN  /\ state # NONE
      /\ IF s.range.cached THEN UNCHANGED <<caches, misses>>
         ELSE IF s.range.from = 0
              THEN misses' = Remember(misses, Len(q), s.sig) /\ UNCHANGED caches
              ELSE /\ caches' = Remember(caches, Len(q), [sig |-> s.sig, from |-> s.range.from,
                                                           to |-> s.range.to])
                   /\ UNCHANGED misses
      /\ UNCHANGED <<dict, room, state, file, client>>

Lengths == {Len(q) : q \in Queries} \cup {Len(l.spl) : l \in Lemmas}
NoSearches == [n \in Lengths |-> <<>>]
ForgetSearches == caches' = NoSearches /\ misses' = NoSearches

-----------------------------------------------------------------------------
(* Adding, scoring and removing in memory.                                    *)

WordCompare(v, w) ==
  LET differ == {k \in 1..Min({Len(v), Len(w)}) : v[k] # w[k]}
  IN  IF differ = {} THEN Len(v) - Len(w) ELSE v[Min(differ)] - w[Min(differ)]

\* Where a word goes in the table for prediction: a binary search, but of the
\* table of offsets, whose order is another.
PredictSlot(d, word) ==
  LET n    == Len(d.offsets)
      compare(i) == WordCompare(LemmaAt(d, i).word, word)
      slot == BinarySearch(n, {i \in 1..n : compare(i) < 0}, {i \in 1..n : compare(i) <= 0})
  IN  IF slot = 0 THEN n ELSE slot

\* append_a_lemma: at the end of the block, and into the table before the first
\* entry that does not come before it.
Added(d, l, freq) ==
  LET n    == Len(d.offsets)
      at   == Len(d.lemmas) + 1
      sig  == Signature(QueryOf(l))
      pos  == Min({i \in 1..n : FuzzyCompare(LemmaAt(d, i).spl, sig) >= 0} \cup {n + 1})
      new  == [d EXCEPT !.lemmas = Append(@, l),
                        !.offsets = InsertAt(@, pos, [at |-> at, removed |-> FALSE]),
                        !.scores = InsertAt(@, pos, freq),
                        !.ids = InsertAt(@, pos, n + 1),
                        !.byId = Append(@, at)]
  IN  [new EXCEPT !.predicts = InsertAt(@, PredictSlot(new, l.word), [at |-> at, removed |-> FALSE])]

\* queue_lemma_for_sync: an update queues the lemma once more.
Queued(d, id) == [d EXCEPT !.syncs = Append(@, d.byId[id])]

Flagged(table, at) ==
  [k \in 1..Len(table) |-> IF table[k].at = at THEN [at |-> at, removed |-> TRUE] ELSE table[k]]

\* remove_lemma_from_sync_list: one entry of the queue, the last takes its place.
Unqueued(syncs, at) ==
  LET where == {k \in 1..Len(syncs) : syncs[k] = at}
  IN  IF where = {} THEN syncs
      ELSE SubSeq([syncs EXCEPT ![Min(where)] = syncs[Len(syncs)]], 1, Len(syncs) - 1)

\* A mutant of Removed: the table for prediction keeps the lemma.
RemovedFromOffsets(d, i) ==
  [d EXCEPT !.offsets = Flagged(@, d.offsets[i].at), !.syncs = Unqueued(@, d.offsets[i].at)]

Removed(d, i) ==
  LET at == d.offsets[i].at
  IN  [d EXCEPT !.offsets = Flagged(@, at), !.predicts = Flagged(@, at),
                !.syncs = Unqueued(@, at)]

\* In the order of their places.
Ascending(S) ==
  [k \in 1..Cardinality(S) |-> CHOOSE x \in S : Cardinality({y \in S : y < x}) = k - 1]

\* defragment: the tables keep their order and lose the removed entries, the
\* block is compacted, the ids are given out anew in the order of the table.
Defragmented(d) ==
  LET kept == Ascending(Live(d))
      gone == {d.offsets[i].at : i \in Entries(d) \ Live(d)}
      to(at) == at - Cardinality({g \in gone : g < at})
      n    == Len(kept)
      offsets == [k \in 1..n |-> [at |-> to(d.offsets[kept[k]].at), removed |-> FALSE]]
      places == Ascending(1..Len(d.lemmas) \ gone)
      predicts == Ascending({k \in 1..Len(d.predicts) : ~d.predicts[k].removed})
  IN  [d EXCEPT !.lemmas = [k \in 1..Len(places) |-> @[places[k]]],
                !.offsets = offsets,
                !.predicts = [k \in 1..Len(predicts) |-> [at |-> to(@[predicts[k]].at), removed |-> FALSE]],
                !.scores = [k \in 1..n |-> @[kept[k]]],
                !.ids = [k \in 1..n |-> k],
                !.byId = [k \in 1..n |-> offsets[k].at],
                !.syncs = [k \in 1..Len(@) |-> IF @[k] \in gone THEN @[k] ELSE to(@[k])]]

-----------------------------------------------------------------------------
(* The file.                                                                  *)

\* load: ids follow the table.
Loaded(f) == [f EXCEPT !.ids = [i \in 1..Len(f.offsets) |-> i],
                       !.byId = [i \in 1..Len(f.offsets) |-> f.offsets[i].at]]

\* A mutant of WrittenBack: a removal alone does not write the offsets.
WrittenBackLate(d, s) ==
  IF s <= OFFSET_DIRTY THEN [file EXCEPT !.scores = IF s >= SCORE_DIRTY THEN d.scores ELSE @]
  ELSE [d EXCEPT !.ids = <<>>, !.byId = <<>>]

\* write_back writes from the first part that is dirty to the end of the file;
\* of the block, what was added since the load.
WrittenBack(d, s) ==
  IF s <= SYNC THEN file
  ELSE [d EXCEPT !.ids = <<>>, !.byId = <<>>,
         !.lemmas = CASE s = DEFRAGMENTED -> @
                      [] s = LEMMA_DIRTY ->
                           LET old == Len(@) - (PreAlloc - room)
                           IN  SubSeq(file.lemmas, 1, old) \o SubSeq(@, old + 1, Len(@))
                      [] OTHER -> file.lemmas,
         !.offsets = IF s >= OFFSET_DIRTY THEN @ ELSE file.offsets,
         !.predicts = IF s >= OFFSET_DIRTY THEN @ ELSE file.predicts,
         !.scores = IF s >= SCORE_DIRTY THEN @ ELSE file.scores]

\* What the file holds after flush_cache has closed it.  While the queue is
\* taken away (put_lemma_no_sync) its part cannot be written, the size of the
\* file is not what its last part says, and load_dict starts an empty one.
Flushed(d, s, queueTaken) ==
  IF queueTaken /\ s > SYNC /\ d.syncs # <<>> THEN NoLemmas ELSE WrittenBack(d, s)

FlushCache == /\ state # NONE
              /\ file' = Flushed(dict, state, FALSE)
              /\ dict' = Loaded(file')
              /\ state' = SYNC
              /\ room' = PreAlloc
              /\ ForgetSearches
              /\ UNCHANGED client

-----------------------------------------------------------------------------
(* The calls.                                                                 *)

AtLimit(d) == d.limit > 0 /\ Len(d.offsets) >= d.limit

\* The lemma is there: its score is stored anew.
PutScore(l, freq) ==
  /\ Locate(l) # 0
  /\ dict' = [dict EXCEPT !.scores[Locate(l)] = freq]
  /\ state' = Dirty(SCORE_DIRTY)
  /\ UNCHANGED <<room, caches, misses, file, client>>

\* What becomes of the queue, where dict is still what it was before the put.
\* put_lemma_no_sync takes it away and puts it back; a flush loads another one in
\* between, in which the lemma is queued, and whose count stays with the old array.
PutBack(count, behind) == [k \in 1..count |-> IF k <= Len(dict.syncs) THEN dict.syncs[k] ELSE behind]
InQueue(new, queueTaken, flushed) ==
  CASE ~queueTaken -> {Queued(new, Len(new.byId))}
    [] queueTaken /\ ~flushed -> {new}
    [] OTHER -> {[new EXCEPT !.syncs = PutBack(Len(@) + 1, behind)] : behind \in 0..Len(new.lemmas)}

\* It is not: it is appended, after a flush when there is no room left.
PutNew(l, freq, queueTaken) ==
  LET full == room = 0
      base == IF full THEN Loaded(Flushed(dict, state, queueTaken)) ELSE dict
  IN  /\ Locate(l) = 0 /\ ~AtLimit(dict) /\ Len(dict.lemmas) < MaxBlock
      /\ file' = IF full THEN Flushed(dict, state, queueTaken) ELSE file
      /\ dict' \in InQueue(Added(base, l, freq), queueTaken, full)
      /\ room' = (IF full THEN PreAlloc ELSE room) - 1
      /\ state' = IF full THEN LEMMA_DIRTY ELSE Dirty(LEMMA_DIRTY)
      /\ ForgetSearches
      /\ UNCHANGED client

PutLemma(l, freq) ==
  /\ client = "ime" /\ state # NONE /\ Len(dict.syncs) < MaxSyncs
  /\ PutScore(l, freq) \/ PutNew(l, freq, FALSE)

\* update_lemma, by the id of a lemma that may have been removed since.
UpdateLemma(id) ==
  LET i == Locate(dict.lemmas[dict.byId[id]])
  IN  /\ client = "ime" /\ state # NONE /\ Len(dict.syncs) < MaxSyncs
      /\ i # 0
      /\ dict' = Queued([dict EXCEPT !.scores[i] = Min({@ + 1, MaxFreq})], dict.ids[i])
      /\ state' = Dirty(SCORE_DIRTY)
      /\ UNCHANGED <<room, caches, misses, file, client>>

RemoveLemma(id) ==
  LET i == Locate(dict.lemmas[dict.byId[id]])
  IN  /\ client = "ime" /\ state # NONE
      /\ i # 0
      /\ dict' = Removed(dict, i)
      /\ state' = Dirty(OFFSET_DIRTY)
      /\ UNCHANGED <<room, caches, misses, file, client>>

\* Sync::put_lemmas, one lemma.
PutNoSync(l, freq) ==
  /\ client = "sync" /\ state # NONE
  /\ PutScore(l, freq) \/ PutNew(l, freq, TRUE)

\* At the limit a part of the entries is given up, and the lemma is put once
\* more.  Which entries, the heap of their scores decides; entries that were
\* removed before count too.
Reclaimed(order) ==
  LET d[k \in 0..Len(order)] == IF k = 0 THEN dict ELSE Removed(d[k - 1], order[k])
  IN  d[Len(order)]

ReclaimAndPut(l, freq) ==
  /\ client = "sync" /\ state # NONE
  /\ Locate(l) = 0 /\ AtLimit(dict)
  /\ \E order \in [1..(Len(dict.offsets) * Ratio) \div 100 -> Entries(dict)] :
       LET d    == Defragmented(Reclaimed(order))
           disk == WrittenBack(d, IF d = dict THEN state ELSE DEFRAGMENTED)
           base == Loaded(disk)
       IN  /\ IsInjective(order)
           /\ file' = disk
           /\ IF AtLimit(base)
              THEN dict' = base /\ room' = PreAlloc /\ state' = SYNC
              ELSE dict' = Added(base, l, freq) /\ room' = PreAlloc - 1 /\ state' = LEMMA_DIRTY
  /\ ForgetSearches
  /\ UNCHANGED client

\* Sync::get_lemmas marks the dictionary, Sync::clear_last_got takes the first
\* n entries from the queue.
ClearSync(n) ==
  /\ client = "sync" /\ state # NONE
  /\ n \in 1..Len(dict.syncs)
  /\ dict' = [dict EXCEPT !.syncs = SubSeq(@, n + 1, Len(@))]
  /\ state' = Dirty(SYNC_DIRTY)
  /\ UNCHANGED <<room, caches, misses, file, client>>

\* The client of the object changes when one closes it and the other loads it.
CloseAndLoad ==
  /\ state # NONE
  /\ file' = Flushed(dict, state, FALSE)
  /\ client' \in Clients \ {client}
  /\ dict' = IF client' = "sync" THEN [Loaded(file') EXCEPT !.limit = Limit] ELSE Loaded(file')
  /\ state' = SYNC
  /\ room' = PreAlloc
  /\ ForgetSearches

UserDictInit ==
  /\ file = NoLemmas
  /\ client = "ime"
  /\ dict = NoLemmas
  /\ state = SYNC
  /\ room = PreAlloc
  /\ caches = NoSearches /\ misses = NoSearches

UserDictNext ==
  \/ \E q \in Queries : GetLpis(q)
  \/ \E l \in Lemmas, freq \in 1..MaxFreq :
        PutLemma(l, freq) \/ PutNoSync(l, freq) \/ ReclaimAndPut(l, freq)
  \/ \E id \in 1..Len(dict.byId) : UpdateLemma(id) \/ RemoveLemma(id)
  \/ \E n \in 1..MaxSyncs : ClearSync(n)
  \/ FlushCache
  \/ CloseAndLoad

UserDictSpec == UserDictInit /\ [][UserDictNext]_udVars

-----------------------------------------------------------------------------
(* Properties.                                                                *)

Content(d) ==
  [l \in {LemmaAt(d, i) : i \in Live(d)} |->
     d.scores[CHOOSE i \in Live(d) : LemmaAt(d, i) = l]]

\* The tables of one dictionary tell the same story after any sequence of
\* insertions, removals, compactions and reloads: an id leads to the place of
\* its lemma, no lemma is live twice, the table for prediction has the same
\* places with the same flags, and the entries are in the order of the search.
Agree(d) ==
  LET n == Len(d.offsets)
  IN  /\ n = Len(d.lemmas) /\ n = Len(d.scores)
      /\ {d.offsets[i].at : i \in Entries(d)} = 1..n
      /\ {d.ids[i] : i \in Entries(d)} = 1..n
      /\ \A i \in Entries(d) : d.byId[d.ids[i]] = d.offsets[i].at
      /\ ToSet(d.predicts) = ToSet(d.offsets) /\ Len(d.predicts) = n
      /\ \A i, j \in Live(d) : LemmaAt(d, i) = LemmaAt(d, j) => i = j
      /\ \A i, j \in Entries(d) :
           i < j => FuzzyCompare(LemmaAt(d, i).spl, Signature(QueryOf(LemmaAt(d, j)))) <= 0
TablesAgree == Agree(dict) /\ room \in 0..PreAlloc

\* The binary search over a table with removed entries, through whatever the
\* rings of earlier searches remember, finds what a look at every lemma finds.
LookupIsComplete ==
  /\ \A q \in Queries :
       Search(q).found = {l \in DOMAIN Content(dict) : Len(l.spl) = Len(q) /\ SpellPrefix(l.spl, q)}
  /\ \A l \in DOMAIN Content(dict) : Locate(l) # 0

\* What put_lemma takes for the lemma is the lemma ("Check if a lemma is in
\* dictionary", userdict.h:363), not a longer one that begins with it.
LocateIsExact == \A l \in Lemmas : Locate(l) # 0 => LemmaAt(dict, Locate(l)) = l

\* Putting a lemma "without adding sync flag" (userdict.h:100) loses no other.  It
\* does not hold: a flush while the queue is taken away writes no whole file.
PutKeepsTheOthers ==
  [][\A l \in Lemmas, freq \in 1..MaxFreq :
       PutNoSync(l, freq) => DOMAIN Content(dict) \subseteq DOMAIN Content(dict')]_udVars

\* The dictionary is a map from lemmas to frequencies: what is written back by
\* parts and loaded again is what was in memory.
Store == INSTANCE LemmaStore WITH store <- Content(dict)
ImplementsStore == Store!StoreSpec

\* A search has room for all lemmas of one signature.
RoomForAnswers ==
  \A m \in Lemmas :
    Cardinality({l \in Lemmas : Signature(QueryOf(l)) = Signature(QueryOf(m))}) <= LpiMax

\* No lemma begins with another.
NoneBegins ==
  \A l, m \in Lemmas : l # m => ~(/\ Len(m.spl) >= Len(l.spl)
                                  /\ SubSeq(m.spl, 1, Len(l.spl)) = l.spl
                                  /\ SubSeq(m.word, 1, Len(l.spl)) = l.word)

\* The tables and the searches over them, together.
UserDictIsConsistent == TablesAgree /\ LookupIsComplete /\ LocateIsExact
=============================================================================
