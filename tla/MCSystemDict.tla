---------------------------- MODULE MCSystemDict ----------------------------
(* Instances of SystemDict for TLC: lists of up to ten words.                 *)
EXTENDS SystemDict, TLC

\* What some theorems take for granted holds of the instance.
ASSUME ListsAreComplete /\ RoomToWalk

\* Two half ids with two spellings each, one of which is a spelling itself, and
\* one with one.
MCHalfRange == <<<<4, 2>>, <<6, 2>>, <<7, 1>>>>
MCHalfOf == 4 :> 1 @@ 5 :> 1 @@ 6 :> 2 @@ 7 :> 3
MCWider == {<<3, 2>>}
Line(chars, freq, spl) == [text |-> chars, freq |-> freq, gbk |-> FALSE, spl |-> spl]
\* With more words than the list of the best ones has places: in the order of
\* their spellings their frequencies may be 90, 70, 5, 65, 70.
Single == <<Line(<<3>>, 50, <<7>>), Line(<<1>>, 90, <<4>>), Line(<<3>>, 70, <<6>>), Line(<<2>>, 5, <<5>>)>>
Pairs == <<Line(<<1, 3>>, 70, <<4, 7>>), Line(<<2, 1>>, 65, <<5, 4>>), Line(<<3, 3>>, 80, <<6, 7>>)>>
Others == <<Line(<<1, 3, 1>>, 70, <<4, 7, 4>>), Line(<<1, 2>>, 10, <<4, 5>>), Line(<<1, 3>>, 65, <<4, 6>>),
            [Line(<<4>>, 90, <<7>>) EXCEPT !.gbk = TRUE], Line(<<2>>, 90, <<5, 4>>), Line(<<3, 1, 1>>, 70, <<7, 4>>)>>
Chosen(s, S) == LET f[k \in 0..Len(s)] == IF k = 0 THEN <<>> ELSE f[k - 1] \o (IF k \in S THEN <<s[k]>> ELSE <<>>) IN f[Len(s)]
MCAgain == {<<Line(<<3>>, 90, <<7>>), Line(<<3>>, 70, <<6>>), Line(<<1>>, 5, <<4>>), Line(<<2>>, 7, <<5>>)>>}
MCRawFiles == {Chosen(Others, T) \o Single \o Chosen(Pairs, S) : S \in {{1}, {2, 3}, {1, 2, 3}}, T \in {{1, 2}, {1, 3, 4}, {2, 5}, {6}}}
=============================================================================
