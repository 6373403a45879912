------------------------------- MODULE Player -------------------------------
(***************************************************************************)
(* The media pipeline of player/: a demuxer feeds a video and an audio     *)
(* decoder, the audio decoder feeds the audio render, the video decoder    *)
(* writes to the (passive) video render on its own thread.  Each of the    *)
(* four active elements has a state, an event queue, a priority queue of   *)
(* buffers and, between PAUSED and PLAYING, a worker thread; one control   *)
(* thread calls setState on them.                                          *)
(*                                                                         *)
(* An action is one stretch of a thread between two accesses to shared     *)
(* data: a queue, the state of an element, the demultiplexed file.         *)
(***************************************************************************)
EXTENDS Naturals, Sequences, FiniteSets

CONSTANTS
    Pool,       \* the memory packets and frames are allocated from
    None,       \* the null pointer, an empty pendingPackets
    QueueSize,  \* maxSize of the queues (256 in utils.h)
    File,       \* the packets of the container, in file order
    Controlled  \* the elements the application calls setState on

Elements == {"demuxer", "videoDecoder", "audioDecoder", "audioRender"}
Decoders == {"videoDecoder", "audioDecoder"}
Streams  == {"video", "audio", "other"}
States   == {"IDLE", "READY", "PAUSED", "PLAYING"}

ASSUME PlayerAssumption ==
    /\ None \notin Pool
    /\ QueueSize \in Nat \ {0}
    /\ File \in Seq([stream : Streams, ts : Nat \ {0}])
    /\ Controlled \subseteq Elements

\* What a cell of the pool holds: nothing, or a packet or a frame of a stream
\* with its time stamp (dts of a packet, pts of a frame).
Free    == [kind |-> "free", stream |-> "other", ts |-> 0]
Packet(p) == [kind |-> "packet", stream |-> p.stream, ts |-> p.ts]
Content == [kind : {"free", "packet", "frame"}, stream : Streams, ts : Nat]

VARIABLES
    state,   \* states.current of each element
    pc,      \* where each worker thread is; "none" when there is no thread
    stops,   \* EVENT_STOP_THREADs in eventQueue (no other event is sent)
    queue,   \* bufferQueue
    held,    \* the worker's local packet or frame
    pending, \* pendingPackets, pendingFrame
    mem,     \* the pool
    engine,  \* FFWrapper: closed, open, or an open() that failed half-way
    pos,     \* how many packets of the file were read since it was opened
    played,  \* time stamp of the last frame of each stream that was written
    ctl      \* the setState call the control thread is in

buffers == <<queue, held, pending, mem>>
vars == <<state, pc, stops, buffers, engine, pos, played, ctl>>

WorkerPC == {"none", "event", "state", "take", "route", "decode", "check",
             "push", "write", "drain", "exited"}
NoCall == [pc |-> "idle", elem |-> "demuxer"]

Init ==
    /\ state = [e \in Elements |-> "IDLE"]
    /\ pc = [e \in Elements |-> "none"]
    /\ stops = [e \in Elements |-> 0]
    /\ queue = [e \in Elements |-> {}]
    /\ held = [e \in Elements |-> None]
    /\ pending = [e \in Elements |-> None]
    /\ mem = [b \in Pool |-> Free]
    /\ engine = "closed"
    /\ pos = 0
    /\ played = [s \in Streams |-> 0]
    /\ ctl = NoCall

(***************************************************************************)
(* setState.  A call that changes nothing (the element is in that state    *)
(* already, or the state is not adjacent) is Rejected.  Starting the       *)
(* thread and storing PAUSED are two steps, as are sending STOP and the    *)
(* join that waits for the worker.                                         *)
(***************************************************************************)
Adjacent == {<<"IDLE", "READY">>, <<"READY", "IDLE">>, <<"READY", "PAUSED">>,
             <<"PAUSED", "READY">>, <<"PAUSED", "PLAYING">>,
             <<"PLAYING", "PAUSED">>}

Store(e, s) == state' = [state EXCEPT ![e] = s]

ToIdle(e) ==
    /\ state[e] = "READY"
    /\ Store(e, "IDLE")
    /\ engine' = IF e = "demuxer" THEN "closed" ELSE engine
    /\ UNCHANGED <<pc, stops, buffers, pos, played, ctl>>

\* Mutant of Open: a failed open() makes the element READY all the same.
OpenUnchecked ==
    /\ state["demuxer"] = "IDLE"
    /\ engine' \in {engine, "partial", "open"}
    /\ pos' = 0
    /\ Store("demuxer", "READY")
    /\ UNCHANGED <<pc, stops, buffers, played, ctl>>

\* FFWrapper::open on the demuxer.  It fails before or after it has allocated
\* the audio codec context, and the demuxer stays IDLE.
Open ==
    /\ state["demuxer"] = "IDLE"
    /\ \/ /\ engine' = "open"
          /\ pos' = 0
          /\ Store("demuxer", "READY")
       \/ /\ engine' \in {engine, "partial"}
          /\ UNCHANGED <<state, pos>>
    /\ UNCHANGED <<pc, stops, buffers, played, ctl>>

Prepare(e) ==
    /\ state[e] = "IDLE"
    /\ Store(e, "READY")
    /\ UNCHANGED <<pc, stops, buffers, engine, pos, played, ctl>>

\* Mutant of SendStop: READY is stored first, so sendEvent refuses the event.
SendStopLate(e) ==
    /\ state[e] = "PAUSED"
    /\ Store(e, "READY")
    /\ ctl' = [pc |-> "join", elem |-> e]
    /\ UNCHANGED <<pc, stops, buffers, engine, pos, played>>

\* sendEvent fails on a full event queue, and toReady joins all the same.
SendStop(e) ==
    /\ state[e] = "PAUSED"
    /\ stops' = [stops EXCEPT ![e] = IF @ < QueueSize THEN @ + 1 ELSE @]
    /\ ctl' = [pc |-> "join", elem |-> e]
    /\ UNCHANGED <<state, pc, buffers, engine, pos, played>>

\* Mutants of Join: the thread is not waited for; stopping also closes the file.
Detach ==
    /\ ctl.pc = "join"
    /\ Store(ctl.elem, "READY")
    /\ ctl' = NoCall
    /\ UNCHANGED <<pc, stops, buffers, engine, pos, played>>

JoinAndClose ==
    /\ ctl.pc = "join"
    /\ pc[ctl.elem] = "exited"
    /\ pc' = [pc EXCEPT ![ctl.elem] = "none"]
    /\ Store(ctl.elem, "READY")
    /\ engine' = "closed"
    /\ ctl' = NoCall
    /\ UNCHANGED <<stops, buffers, pos, played>>

Join ==
    /\ ctl.pc = "join"
    /\ pc[ctl.elem] = "exited"
    /\ pc' = [pc EXCEPT ![ctl.elem] = "none"]
    /\ Store(ctl.elem, "READY")
    /\ ctl' = NoCall
    /\ UNCHANGED <<stops, buffers, engine, pos, played>>

StartThread(e) ==
    /\ state[e] = "READY"
    /\ pc' = [pc EXCEPT ![e] = "event"]
    /\ ctl' = [pc |-> "start", elem |-> e]
    /\ UNCHANGED <<state, stops, buffers, engine, pos, played>>

Started ==
    /\ ctl.pc = "start"
    /\ Store(ctl.elem, "PAUSED")
    /\ ctl' = NoCall
    /\ UNCHANGED <<pc, stops, buffers, engine, pos, played>>

\* PAUSED <-> PLAYING only stores the state; the worker reads it.
PauseOrPlay(e, s) ==
    /\ <<state[e], s>> \in {<<"PAUSED", "PLAYING">>, <<"PLAYING", "PAUSED">>}
    /\ Store(e, s)
    /\ UNCHANGED <<pc, stops, buffers, engine, pos, played, ctl>>

Rejected(e, s) == <<state[e], s>> \notin Adjacent /\ UNCHANGED vars

Common(e, s) ==
    \/ Rejected(e, s)
    \/ s = "IDLE"   /\ ToIdle(e)
    \/ s = "READY"  /\ SendStop(e)
    \/ s = "PAUSED" /\ StartThread(e)
    \/ PauseOrPlay(e, s)

DemuxerTo(s) == Common("demuxer", s) \/ (s = "READY" /\ Open)

VideoDecoderTo(s) == \/ Common("videoDecoder", s)
                     \/ s = "READY" /\ Prepare("videoDecoder")

AudioDecoderTo(s) == \/ Common("audioDecoder", s)
                     \/ s = "READY" /\ Prepare("audioDecoder")

\* The render asks the audio codec context for its sample rate: without one the
\* process dies on the null pointer and there is no next state.
AudioRenderTo(s) == \/ Common("audioRender", s)
                    \/ s = "READY" /\ engine # "closed" /\ Prepare("audioRender")

SetState(e, s) ==
    /\ ctl.pc = "idle"
    /\ \/ e = "demuxer"      /\ DemuxerTo(s)
       \/ e = "videoDecoder" /\ VideoDecoderTo(s)
       \/ e = "audioDecoder" /\ AudioDecoderTo(s)
       \/ e = "audioRender"  /\ AudioRenderTo(s)

FinishCall == Join \/ Started

(***************************************************************************)
(* Queues.  A priority queue gives up a buffer with the smallest time      *)
(* stamp; among equal ones the heap decides.                               *)
(***************************************************************************)
\* Mutant of Earliest: the comparison is reversed.
Latest(q) == {b \in q : \A c \in q : mem[b].ts >= mem[c].ts}

IsFull(q) == Cardinality(q) = QueueSize

Earliest(q) == {b \in q : \A c \in q : mem[b].ts <= mem[c].ts}

\* The worker moves on to l.
Goto(e, l) == pc' = [pc EXCEPT ![e] = l]

\* The worker's b leaves the pool: av_packet_unref, av_frame_free.
Release(bs) == mem' = [b \in Pool |-> IF b \in bs THEN Free ELSE mem[b]]

\* Top of each loop: on STOP free the pending buffer and, except in the demuxer,
\* drain bufferQueue; otherwise go on.
PopEvent(e) ==
    /\ pc[e] = "event"
    /\ IF stops[e] = 0
       THEN /\ Goto(e, IF e = "audioRender" THEN "state" ELSE "take")
            /\ UNCHANGED <<stops, buffers>>
       ELSE /\ stops' = [stops EXCEPT ![e] = @ - 1]
            /\ Goto(e, IF e = "demuxer" THEN "exited" ELSE "drain")
            /\ Release({pending[e]})
            /\ pending' = [pending EXCEPT ![e] = None]
            /\ UNCHANGED <<queue, held>>
    /\ UNCHANGED <<state, engine, pos, played, ctl>>

Drain(e) ==
    /\ pc[e] = "drain"
    /\ IF queue[e] = {}
       THEN Goto(e, "exited") /\ UNCHANGED buffers
       ELSE /\ \E b \in Earliest(queue[e]) :
                  /\ queue' = [queue EXCEPT ![e] = @ \ {b}]
                  /\ Release({b})
            /\ UNCHANGED <<pc, held, pending>>
    /\ UNCHANGED <<state, stops, engine, pos, played, ctl>>

(***************************************************************************)
(* pushBuffer on the next element: it first reads that element's state,    *)
(* then pushes on its queue.  On failure the caller keeps the buffer       *)
(* pending.                                                                *)
(***************************************************************************)
Sink(e) == IF e = "demuxer"
           THEN IF mem[held[e]].stream = "video" THEN "videoDecoder"
                                                 ELSE "audioDecoder"
           ELSE "audioRender"

Refuses(e) == state[e] = "IDLE" \/ (e = "audioRender" /\ state[e] = "READY")

KeepPending(e) ==
    /\ pending' = [pending EXCEPT ![e] = held[e]]
    /\ held' = [held EXCEPT ![e] = None]
    /\ Goto(e, "event")
    /\ UNCHANGED <<queue, mem>>

CheckSink(e) ==
    /\ pc[e] = "check"
    /\ IF Refuses(Sink(e))
       THEN KeepPending(e)
       ELSE Goto(e, "push") /\ UNCHANGED buffers
    /\ UNCHANGED <<state, stops, engine, pos, played, ctl>>

Push(e) ==
    /\ pc[e] = "push"
    /\ IF IsFull(queue[Sink(e)])
       THEN KeepPending(e)
       ELSE /\ queue' = [queue EXCEPT ![Sink(e)] = @ \cup {held[e]}]
            /\ held' = [held EXCEPT ![e] = None]
            /\ Goto(e, "event")
            /\ UNCHANGED <<pending, mem>>
    /\ UNCHANGED <<state, stops, engine, pos, played, ctl>>

(***************************************************************************)
(* The bodies of the loops.                                                *)
(***************************************************************************)
\* readPacket: the next packet of the file in free memory; at the end of the
\* file, or without memory, it fails.
ReadPacket ==
    \E b \in Pool :
        /\ pos < Len(File)
        /\ mem[b] = Free
        /\ mem' = [mem EXCEPT ![b] = Packet(File[pos + 1])]
        /\ held' = [held EXCEPT !["demuxer"] = b]
        /\ pos' = pos + 1
        /\ Goto("demuxer", "route")
        /\ UNCHANGED <<queue, pending>>

\* Mutant of ReadFails: the failed read is counted.
ReadFailsCounted ==
    /\ pos = Len(File) \/ \A b \in Pool : mem[b] # Free
    /\ Goto("demuxer", "event")
    /\ pos' = pos + 1
    /\ UNCHANGED buffers

ReadFails ==
    /\ pos = Len(File) \/ \A b \in Pool : mem[b] # Free
    /\ Goto("demuxer", "event")
    /\ UNCHANGED <<buffers, pos>>

\* Mutant of TakePending: the pointer is not reset.
CopyPending(e) ==
    /\ pending[e] # None
    /\ held' = [held EXCEPT ![e] = pending[e]]
    /\ UNCHANGED <<queue, pending, mem>>

TakePending(e) ==
    /\ pending[e] # None
    /\ held' = [held EXCEPT ![e] = pending[e]]
    /\ pending' = [pending EXCEPT ![e] = None]
    /\ UNCHANGED <<queue, mem>>

Demux ==
    /\ pc["demuxer"] = "take"
    /\ \/ TakePending("demuxer") /\ Goto("demuxer", "route") /\ UNCHANGED pos
       \/ pending["demuxer"] = None /\ (ReadPacket \/ ReadFails)
    /\ UNCHANGED <<state, stops, engine, played, ctl>>

\* isAudio returns no value: what its caller finds, and so whether a packet that
\* is not video goes to the audio decoder or is freed, is undefined.
Route ==
    /\ pc["demuxer"] = "route"
    /\ \/ Goto("demuxer", "check") /\ UNCHANGED buffers
       \/ /\ mem[held["demuxer"]].stream # "video"
          /\ Release({held["demuxer"]})
          /\ held' = [held EXCEPT !["demuxer"] = None]
          /\ Goto("demuxer", "event")
          /\ UNCHANGED <<queue, pending>>
    /\ UNCHANGED <<state, stops, engine, pos, played, ctl>>

\* bufferQueue.pop; on an empty queue the worker starts over.
PopBuffer(e, l) ==
    IF queue[e] = {}
    THEN Goto(e, "event") /\ UNCHANGED buffers
    ELSE /\ \E b \in Earliest(queue[e]) :
               /\ held' = [held EXCEPT ![e] = b]
               /\ queue' = [queue EXCEPT ![e] = @ \ {b}]
         /\ Goto(e, l)
         /\ UNCHANGED <<pending, mem>>

\* Where a decoder takes its frame: the video render has no queue.
Deliver(e) == IF e = "videoDecoder" THEN "write" ELSE "check"

DecoderTake(e) ==
    /\ pc[e] = "take"
    /\ \/ TakePending(e) /\ Goto(e, Deliver(e))
       \/ pending[e] = None /\ PopBuffer(e, "decode")
    /\ UNCHANGED <<state, stops, engine, pos, played, ctl>>

\* decodeVideo, decodeAudio: the packet gives way to its frame, or to nothing.
Decode(e) ==
    /\ pc[e] = "decode"
    /\ \/ /\ mem' = [mem EXCEPT ![held[e]] = [@ EXCEPT !.kind = "frame"]]
          /\ Goto(e, Deliver(e))
          /\ UNCHANGED held
       \/ /\ Release({held[e]})
          /\ held' = [held EXCEPT ![e] = None]
          /\ Goto(e, "event")
    /\ UNCHANGED <<state, stops, queue, pending, engine, pos, played, ctl>>

\* The device writes the frame to its file and frees it.
Write(e) ==
    /\ pc[e] = "write"
    /\ played' = [played EXCEPT ![mem[held[e]].stream] = mem[held[e]].ts]
    /\ Release({held[e]})
    /\ held' = [held EXCEPT ![e] = None]
    /\ Goto(e, "event")
    /\ UNCHANGED <<state, stops, queue, pending, engine, pos, ctl>>

\* Mutant of CheckState: the comparison is with PLAYING.
CheckStateInverted ==
    /\ pc["audioRender"] = "state"
    /\ Goto("audioRender",
            IF state["audioRender"] = "PLAYING" THEN "event" ELSE "take")
    /\ UNCHANGED <<state, stops, buffers, engine, pos, played, ctl>>

\* The render looks at its own state before it takes a frame.
CheckState ==
    /\ pc["audioRender"] = "state"
    /\ Goto("audioRender",
            IF state["audioRender"] = "PAUSED" THEN "event" ELSE "take")
    /\ UNCHANGED <<state, stops, buffers, engine, pos, played, ctl>>

RenderTake ==
    /\ pc["audioRender"] = "take"
    /\ PopBuffer("audioRender", "write")
    /\ UNCHANGED <<state, stops, engine, pos, played, ctl>>

Demuxing == PopEvent("demuxer") \/ Demux \/ Route \/ CheckSink("demuxer")
            \/ Push("demuxer")

VideoDecoding == \/ PopEvent("videoDecoder") \/ Drain("videoDecoder")
                 \/ DecoderTake("videoDecoder") \/ Decode("videoDecoder")
                 \/ Write("videoDecoder")

AudioDecoding == \/ PopEvent("audioDecoder") \/ Drain("audioDecoder")
                 \/ DecoderTake("audioDecoder") \/ Decode("audioDecoder")
                 \/ CheckSink("audioDecoder") \/ Push("audioDecoder")

Rendering == \/ PopEvent("audioRender") \/ Drain("audioRender") \/ CheckState
             \/ RenderTake \/ Write("audioRender")

Worker == Demuxing \/ VideoDecoding \/ AudioDecoding \/ Rendering

Next == \/ \E e \in Controlled, s \in States : SetState(e, s)
        \/ FinishCall
        \/ Worker

\* A worker thread keeps running, and so does a call that was begun.
Fairness == /\ WF_vars(Demuxing)
            /\ WF_vars(VideoDecoding)
            /\ WF_vars(AudioDecoding)
            /\ WF_vars(Rendering)
            /\ WF_vars(FinishCall)

Spec == Init /\ [][Next]_vars /\ Fairness
-----------------------------------------------------------------------------
Live == {b \in Pool : mem[b] # Free}

TypeOK ==
    /\ state \in [Elements -> States]
    /\ pc \in [Elements -> WorkerPC]
    /\ stops \in [Elements -> 0 .. QueueSize]
    /\ queue \in [Elements -> SUBSET Pool]
    /\ held \in [Elements -> Pool \cup {None}]
    /\ pending \in [Elements -> Pool \cup {None}]
    /\ mem \in [Pool -> Content]
    /\ engine \in {"closed", "partial", "open"}
    /\ pos \in 0 .. Len(File)
    /\ played \in [Streams -> Nat]
    /\ ctl \in [pc : {"idle", "start", "join"}, elem : Elements]

\* An element has a thread exactly while it is PAUSED or PLAYING, or while the
\* call that takes it to PAUSED is about to store that state: std::thread is
\* never assigned over, or destroyed, while it is joinable.
ThreadMatchesState ==
    \A e \in Elements :
        pc[e] # "none" <=> \/ state[e] \in {"PAUSED", "PLAYING"}
                           \/ ctl = [pc |-> "start", elem |-> e]

\* toReady joins whatever sendEvent returned.  It never waits for a thread that
\* has no STOP to find, and no STOP outlives the call that sent it, to end the
\* next thread as soon as it starts.
StopIsForThisThread ==
    \A e \in Elements :
        IF ctl = [pc |-> "join", elem |-> e]
        THEN IF pc[e] \in {"drain", "exited"} THEN stops[e] = 0 ELSE stops[e] = 1
        ELSE stops[e] = 0 /\ pc[e] \notin {"drain", "exited"}

\* What a thread or a queue refers to has been allocated and not been freed, and
\* is what the static_cast there takes it for.
Holds(b, kinds) == b \in Pool /\ mem[b].kind \in kinds

NoUseAfterFree ==
    \A e \in Elements :
        /\ held[e] = None \/ Holds(held[e], {"packet", "frame"})
        /\ pending[e] = None \/ Holds(pending[e],
                                      {IF e = "demuxer" THEN "packet" ELSE "frame"})
        /\ \A b \in queue[e] :
               Holds(b, {IF e = "audioRender" THEN "frame" ELSE "packet"})

\* A buffer has one owner: no two threads or queues would free the same one.
OneOwner ==
    \A e, f \in Elements :
        /\ e # f => /\ queue[e] \cap queue[f] = {}
                    /\ held[e] # held[f] \/ held[e] = None
                    /\ pending[e] # pending[f] \/ pending[e] = None
        /\ held[e] # pending[f] \/ held[e] = None
        /\ held[e] \notin queue[f] /\ pending[e] \notin queue[f]

\* A buffer that is not free is still reachable: a refused push, a stopped
\* thread or a failed decode drops none.
NoLeak ==
    \A b \in Live : \E e \in Elements : b \in queue[e] \cup {held[e], pending[e]}

\* The tests against maxSize are equalities, each under the queue's own lock.
WithinCapacity ==
    \A e \in Elements : Cardinality(queue[e]) <= QueueSize

\* Whatever is refused, drained or half decoded (demuxer.cpp:54, video_decoder.cpp:56),
\* a packet or frame has one owner until it is freed, and a queue no more than fit.
BuffersAreKept == NoUseAfterFree /\ OneOwner /\ NoLeak /\ WithinCapacity

\* The demuxer's thread reads only from a file that is open.
ReadsOpenFile == pc["demuxer"] \notin {"none", "exited"} => engine = "open"

\* Each call of setState returns: the worker finds STOP, drains its queue
\* although its producers may still be pushing, and is joined.
CallReturns == ctl.pc # "idle" ~> ctl.pc = "idle"
=============================================================================
