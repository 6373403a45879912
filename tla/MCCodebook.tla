----------------------------- MODULE MCCodebook -----------------------------
(* Codebook with five frequencies and three codes.                            *)
EXTENDS Codebook

MCFreqLists == {s \in [1..5 -> {1, 4, 5, 20, 23}] : Cardinality({s[k] : k \in 1..3}) = 3}
=============================================================================
