----------------------------- MODULE V4L2Capture -----------------------------
(* The camera of cpp/v4l2_capture.cpp.  A step of init_capture maps a state to *)
(* the set of the states it can lead to, with ok as the value it returns.     *)
EXTENDS Integers, FiniteSets

CONSTANTS Asked,       \* property -> the values that are asked for
          Defaults,    \* property -> the value the object is made with
          Grant(_),    \* what the driver makes of the settings it is given
          MaxBuffers,  \* MAX_BUFFERS
          DefaultBuffers

ASSUME CaptureAssumption == MaxBuffers \in Nat /\ DefaultBuffers \in Nat

Props == {"channel", "fourcc", "size", "fps"}

VARIABLES cam,   \* the object, and the queue of the driver behind it
          call   \* what set has just started again with, and answers with true

capVars == <<cam, call>>

Indices(n) == 0..(n - 1)

\* The steps one after the other: a step that fails is the last.
Then(states, Step(_)) == {c \in states : ~c.ok} \cup UNION {Step(c) : c \in {d \in states : d.ok}}

\* try_capability to try_set_fps; what a step has stored before one fails stays.
Negotiate(c) ==
  LET stored(P) == [p \in Props |-> IF p \in P THEN Grant(c.set)[p] ELSE c.set[p]]
  IN  {[c EXCEPT !.set = stored(Props), !.ok = TRUE]}
      \cup {[c EXCEPT !.set = stored(P), !.ok = FALSE] : P \in {{}, {"channel"}, {"channel", "fourcc", "size"}}}

\* try_request_buffers(0); refused while a buffer is mapped.  It stops a stream
\* that goes on (:572); a driver that refuses this too is stuck in its stream.
FreeBuffers(c) ==
  {[c EXCEPT !.bufferSize = 0, !.refused = FALSE, !.stuck = c.streaming, !.ok = FALSE]}
  \cup {[c EXCEPT !.bufferSize = 0, !.refused = FALSE, !.stuck = FALSE, !.streaming = FALSE,
                  !.count = n, !.queued = {}, !.ok = TRUE] : n \in IF c.mapped = {} THEN {0} ELSE {}}

\* try_request_buffers: one less each time the driver allocates too few, until it
\* refuses or allocates enough; it may allocate more.  It refuses while a buffer is
\* mapped or it streams.
RequestBuffers(c) ==
  {[c EXCEPT !.bufferSize = n, !.ok = FALSE, !.refused = TRUE] : n \in 0..c.request}
  \cup {[c EXCEPT !.bufferSize = n, !.count = n, !.ok = TRUE] :
          n \in IF c.mapped = {} /\ ~c.streaming /\ c.request > 0 THEN 1..MaxBuffers ELSE {}}

\* try_create_buffers; the caller frees the buffers when it fails, those it has
\* mapped stay mapped.
CreateBuffers(c) ==
  {[c EXCEPT !.mapped = Indices(c.bufferSize)]}
  \cup {[d EXCEPT !.ok = FALSE] : d \in UNION {FreeBuffers([c EXCEPT !.mapped = Indices(n), !.torn = n > 0]) : n \in Indices(c.bufferSize)}}

\* A mutant of ReleaseBuffers: the frame that was read is still thought of.
ReleaseAllButIndex(c) == FreeBuffers([c EXCEPT !.mapped = @ \ Indices(c.bufferSize), !.lost = {}])

\* try_release_buffers: what bufferSize counts is unmapped.
ReleaseBuffers(c) ==
  FreeBuffers([c EXCEPT !.mapped = @ \ Indices(c.bufferSize), !.index = -1, !.lost = {}])

\* The buffers are queued, those the driver refuses are lost, and it streams.
Stream(c) ==
  {[c EXCEPT !.queued = Indices(c.bufferSize) \ L, !.lost = L, !.streaming = TRUE] : L \in SUBSET Indices(c.bufferSize)}
  \cup {[d EXCEPT !.ok = FALSE] : d \in ReleaseBuffers([c EXCEPT !.queued = Indices(c.bufferSize)])}

InitCapture(c) == Then(Then(Then(Negotiate(c), RequestBuffers), CreateBuffers), Stream)

\* try_set_streaming(false) takes all the buffers out of the queue, unless the
\* driver refuses; its callers do not look.
StreamOff(c) == {c, [c EXCEPT !.streaming = FALSE, !.queued = {}]}

StopAndRelease(c) == UNION {ReleaseBuffers(d) : d \in StreamOff(c)}

ResetCapture(c) == UNION {InitCapture(d) : d \in StopAndRelease(c)}

Unasked == <<"none", 0>>

\* Closing the device frees what is not mapped.
CloseDevice(c) == [c EXCEPT !.handle = FALSE, !.streaming = FALSE, !.stuck = FALSE, !.count = 0, !.queued = {}]

Open ==
  /\ ~cam.handle /\ ~cam.over
  /\ \E d \in InitCapture(cam) : cam' = IF d.ok THEN [d EXCEPT !.handle = TRUE] ELSE [CloseDevice(d) EXCEPT !.ok = TRUE]
  /\ call' = Unasked

\* The destructor.
Destruct ==
  /\ cam.handle
  /\ \E d \in StopAndRelease(cam) : cam' = [CloseDevice(d) EXCEPT !.over = TRUE, !.ok = TRUE]
  /\ call' = Unasked

\* read: the frame read last goes back into the queue, if the driver takes it.  A
\* buffer that the object does not know ends the program (:590).
Reverted(c) ==
  IF c.index = -1 THEN {c}
  ELSE {[c EXCEPT !.queued = @ \cup {c.index}, !.index = -1], [c EXCEPT !.lost = @ \cup {c.index}]}

Read ==
  /\ cam.handle /\ cam.streaming
  /\ \E d \in Reverted(cam) :
       \/ cam' = d
       \/ \E i \in d.queued \cap Indices(d.bufferSize) : cam' = [d EXCEPT !.queued = @ \ {i}, !.index = i]
  /\ call' = Unasked

Answered(p, v, ok, d) ==
  /\ call' = IF ok THEN <<p, v>> ELSE Unasked
  /\ cam' = [d EXCEPT !.ok = TRUE]

\* set of a property that is stored at once: if the driver does not take the value
\* and the value has changed, the old one is stored and it starts again.
SetStored(p, v, c) ==
  \E d \in ResetCapture([c EXCEPT !.set[p] = v]) :
    \/ d.ok /\ d.set[p] = v /\ Answered(p, v, TRUE, d)
    \/ ~(d.ok /\ d.set[p] = v) /\ d.set[p] = c.set[p] /\ Answered(p, v, FALSE, d)
    \/ ~(d.ok /\ d.set[p] = v) /\ d.set[p] # c.set[p]
       /\ \E e \in ResetCapture([d EXCEPT !.set[p] = c.set[p]]) : Answered(p, v, FALSE, e)

Set(p, v) ==
  /\ cam.handle
  /\ IF v = cam.set[p] THEN UNCHANGED cam /\ call' = Unasked ELSE SetStored(p, v, cam)

\* The width and the height are set by two calls, of which the second starts again.
SetHalf ==
  /\ cam.handle /\ ~cam.half
  /\ cam' = [cam EXCEPT !.half = TRUE] /\ call' = Unasked

SetSize(v) ==
  /\ cam.handle /\ cam.half
  /\ LET c == [cam EXCEPT !.half = FALSE]
     IN  IF v = c.set.size THEN cam' = c /\ call' = Unasked ELSE SetStored("size", v, c)

SetBufferSize(n) ==
  /\ cam.handle
  /\ IF n = cam.bufferSize THEN UNCHANGED cam /\ call' = Unasked
     ELSE \E d \in ResetCapture([cam EXCEPT !.request = n]) :
            \/ d.ok /\ d.bufferSize = n /\ Answered("buffers", n, TRUE, d)
            \/ ~(d.ok /\ d.bufferSize = n) /\ d.bufferSize = cam.bufferSize /\ Answered("buffers", n, FALSE, d)
            \/ ~(d.ok /\ d.bufferSize = n) /\ d.bufferSize # cam.bufferSize
               /\ \E e \in ResetCapture([d EXCEPT !.request = cam.bufferSize]) : Answered("buffers", n, FALSE, e)

CaptureInit ==
  /\ cam = [handle |-> FALSE, over |-> FALSE, ok |-> TRUE, set |-> Defaults, half |-> FALSE,
            bufferSize |-> 0, request |-> DefaultBuffers, index |-> -1,
            count |-> 0, queued |-> {}, lost |-> {}, mapped |-> {}, streaming |-> FALSE,
            refused |-> FALSE, torn |-> FALSE, stuck |-> FALSE]
  /\ call = Unasked

CaptureNext ==
  \/ Open \/ Destruct \/ Read \/ SetHalf
  \/ \E p \in Props \ {"size"} : \E v \in Asked[p] : Set(p, v)
  \/ \E v \in Asked.size : SetSize(v)
  \/ \E n \in 1..MaxBuffers : SetBufferSize(n)

CaptureSpec == CaptureInit /\ [][CaptureNext]_capVars

-----------------------------------------------------------------------------

\* The frame that was read last is mapped and the driver does not write it, unless
\* the driver has refused both to stop and to free the buffers (:321, :573).
HeldIsSafe == cam.index # -1 /\ ~cam.stuck => cam.streaming /\ cam.index \in cam.mapped \ cam.queued

\* While it streams each buffer is mapped, and is in the queue, held, or was
\* refused by the driver; so the driver cannot hand out a buffer the object does
\* not know (the assertion at v4l2_capture.cpp:590).  A driver that is stuck can.
BuffersAreKnown ==
  cam.streaming /\ ~cam.stuck =>
    /\ cam.count = cam.bufferSize /\ cam.mapped = Indices(cam.count)
    /\ Indices(cam.count) \ (cam.queued \cup {cam.index}) \subseteq cam.lost

\* Nothing stays mapped after the device is closed unless a mapping has failed
\* half-way (:554 returns, and :307 frees what it cannot), and what bufferSize
\* counts, which the next release unmaps, is mapped unless the driver has just
\* refused a request (:520 leaves bufferSize at what was asked for, and :565 then
\* unmaps addresses that are no longer the object's).
MappingsEnd ==
  /\ ~cam.handle /\ ~cam.torn => cam.mapped = {}
  /\ ~cam.refused => Indices(cam.bufferSize) \subseteq cam.mapped

\* set tells the truth: after a restart that it answers with true the property has
\* the value and frames come.  (When the value is already stored it answers with
\* true without a look: also when the restart that stored it has failed, :172.)
SetIsTrue == call[1] \in Props => cam.set[call[1]] = call[2] /\ cam.streaming

CaptureIsSound == HeldIsSafe /\ BuffersAreKnown /\ MappingsEnd /\ SetIsTrue
=============================================================================
