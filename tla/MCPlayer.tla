------------------------------ MODULE MCPlayer ------------------------------
(* Instances of Player for TLC: any application, calling setState at will. *)
EXTENDS Player, TLC

P(s, t) == [stream |-> s, ts |-> t]

\* "other" is a subtitle stream; two packets may carry the same time stamp.  The
\* file is read again whenever the application opens it again.
AudioFile  == <<P("audio", 1), P("other", 1)>>

AudioChain == {"demuxer", "audioDecoder", "audioRender"}
=============================================================================
