--------------------------- MODULE MCPlayerDriver ---------------------------
(* Instances of PlayerDriver for TLC: the program of try.4.cpp. *)
EXTENDS PlayerDriver

P(s, t) == [stream |-> s, ts |-> t]

MixedFile   == <<P("video", 1), P("audio", 1), P("other", 1), P("video", 2)>>

AllElements == Elements
=============================================================================
