----------------------------- MODULE LemmaStore -----------------------------
(* What a dictionary of the user's own lemmas promises: a map from the lemmas *)
(* it holds to their frequencies.  Putting a lemma stores it with the         *)
(* frequency given, updating raises a frequency, removing forgets one lemma,  *)
(* and only the synchronising client may give up others, to make room.        *)
EXTENDS Integers

CONSTANTS Lemmas, MaxFreq

VARIABLES store, client   \* the client may change at any time

StoreInit == store \in UNION {[S -> 1..MaxFreq] : S \in SUBSET Lemmas}

Put(l, c) == store' = [m \in DOMAIN store \cup {l} |-> IF m = l THEN c ELSE store[m]]

Raise(l) == /\ l \in DOMAIN store
            /\ store[l] < MaxFreq
            /\ store' = [store EXCEPT ![l] = @ + 1]

Forget(l) == /\ l \in DOMAIN store
             /\ store' = [m \in DOMAIN store \ {l} |-> store[m]]

MakeRoom == /\ client = "sync"
            /\ DOMAIN store' \subseteq DOMAIN store
            /\ \A m \in DOMAIN store' : store'[m] = store[m]

MakeRoomAndPut(l, c) == /\ client = "sync"
                        /\ l \in DOMAIN store'
                        /\ store'[l] = c
                        /\ \A m \in DOMAIN store' \ {l} : m \in DOMAIN store /\ store'[m] = store[m]

StoreNext == \/ \E l \in Lemmas, c \in 1..MaxFreq : Put(l, c) \/ MakeRoomAndPut(l, c)
             \/ \E l \in Lemmas : Raise(l) \/ Forget(l)
             \/ MakeRoom

StoreSpec == StoreInit /\ [][StoreNext]_store
=============================================================================
