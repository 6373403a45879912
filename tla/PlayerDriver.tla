---------------------------- MODULE PlayerDriver ----------------------------
(***************************************************************************)
(* The program of player/try.4.cpp: one pass through the states of the     *)
(* pipeline, in a fixed order of the elements, that ignores what setState  *)
(* returns.                                                                *)
(***************************************************************************)
EXTENDS Player

\* Packets of one stream have increasing dts, as muxers require.
ASSUME FileInOrder ==
    \A i, j \in 1 .. Len(File) :
        i < j /\ File[i].stream = File[j].stream => File[i].ts < File[j].ts

VARIABLE step   \* how many calls main has begun

Order  == <<"demuxer", "videoDecoder", "audioDecoder", "audioRender">>
Phases == <<"READY", "PAUSED", "PLAYING", "PAUSED", "READY", "IDLE">>
Calls  == Len(Order) * Len(Phases)

driverVars == <<vars, step>>

DriverInit == Init /\ step = 0

\* Mutant of Call: from the second PAUSED on, from the sink to the source.
CallSinkFirst ==
    /\ step < Calls
    /\ SetState(Order[IF step < 12 THEN (step % 4) + 1 ELSE 4 - (step % 4)],
                Phases[(step \div 4) + 1])
    /\ step' = step + 1

Call ==
    /\ step < Calls
    /\ SetState(Order[(step % 4) + 1], Phases[(step \div 4) + 1])
    /\ step' = step + 1

DriverNext == Call \/ ((FinishCall \/ Worker) /\ UNCHANGED step)

DriverFairness ==
    /\ WF_driverVars(Demuxing /\ UNCHANGED step)
    /\ WF_driverVars(VideoDecoding /\ UNCHANGED step)
    /\ WF_driverVars(AudioDecoding /\ UNCHANGED step)
    /\ WF_driverVars(Rendering /\ UNCHANGED step)
    /\ WF_driverVars(FinishCall /\ UNCHANGED step)

\* Once all elements are PLAYING main sleeps, for as long as it likes; the other
\* calls come one after the other.
PlayingCalls == 12

DriverSpec ==
    /\ DriverInit /\ [][DriverNext]_driverVars /\ DriverFairness
    /\ WF_driverVars(Call /\ step # PlayingCalls)
-----------------------------------------------------------------------------
\* When main returns every thread has been joined and every packet and frame has
\* been freed: the elements are stopped from the source to the sink, so nothing
\* is pushed on a queue after it was drained.
CleanShutdown ==
    step = Calls /\ ctl.pc = "idle" =>
        /\ \A e \in Elements : pc[e] = "none" /\ state[e] = "IDLE"
        /\ Live = {}
        /\ engine # "open"

\* No decoder uses the codec contexts of an engine that was closed (the demuxer
\* closes the engine all elements share).
EngineOpenWhileDecoding ==
    \A e \in Decoders : pc[e] = "decode" => engine = "open"

\* For each stream, what is written is in file order, without repetition.
ReadSoFar ==
    [s \in Streams |->
        LET seen == {i \in 1 .. pos : File[i].stream = s}
        IN  IF seen = {} THEN 0
            ELSE File[CHOOSE i \in seen : \A j \in seen : j <= i].ts]

Delivery == INSTANCE StreamDelivery WITH read <- ReadSoFar, out <- played
InOrderDelivery == Delivery!Spec

\* While all elements are PLAYING the whole file goes through: no element waits
\* for ever for another.
FileIsPlayed ==
    step = PlayingCalls /\ engine = "open"
        ~> step > PlayingCalls \/ (pos = Len(File) /\ Live = {})

\* If the file could be opened, all calls of main return: it comes to its sleep,
\* and from there to its end.
MainReturns ==
    engine = "open" ~> step = PlayingCalls \/ (step = Calls /\ ctl.pc = "idle")
=============================================================================
