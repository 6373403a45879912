------------------------------- MODULE Modeset -------------------------------
(* The page-flipping program of misc/drm/modeset-vsync.c: it finds a CRTC and *)
(* two buffers for every connector, draws into the buffer that is not shown,  *)
(* asks the kernel to flip at the next vertical blank, and draws again when   *)
(* the event of the flip arrives.  A device is its connector; a buffer is     *)
(* <<connector, 0 or 1>>.                                                     *)
EXTENDS Integers, Sequences, FiniteSets

LOCAL INSTANCE SequencesExt

CONSTANTS Connectors,  \* in the order of the resources
          Crtcs,       \* numbers
          BoundTo,     \* connector -> the CRTC it is bound to, or NoCrtc
          Possible,    \* connector -> the CRTCs its encoders work with, in order
          NoCrtc,
          NoBuf, Saved \* on a screen: nothing, what was there before

Devs == ToSet(Connectors)

\* The resources list each connector once.
ASSUME ModesetAssumption ==
  /\ Connectors \in Seq(Devs)
  /\ \A i, j \in DOMAIN Connectors : Connectors[i] = Connectors[j] => i = j
  /\ BoundTo \in [Devs -> Crtcs \cup {NoCrtc}] /\ Possible \in [Devs -> Seq(Crtcs)] /\ NoCrtc \notin Crtcs
  /\ {NoBuf, Saved} \cap (Devs \X {0, 1}) = {}

VARIABLES phase,    \* where main is
          todo,     \* what it has still to go through
          list,     \* modeset_list
          dev,      \* the structures of the devices
          buffers,  \* framebuffers that exist
          shown,    \* CRTC -> what it scans out
          flip,     \* CRTC -> what it is to scan out next
          events,   \* flips done, not read yet
          batch,    \* events read by drmHandleEvent, not handled yet
          broken    \* has drmHandleEvent failed in the clean-up?

drmVars == <<phase, todo, list, dev, buffers, shown, flip, events, batch, broken>>

Fresh == [crtc |-> NoCrtc, front |-> 0, pending |-> FALSE, cleanup |-> FALSE, freed |-> FALSE]
BuffersOf(c) == {<<c, 0>>, <<c, 1>>}
Alive == {c \in Devs : dev[c].crtc # NoCrtc /\ ~dev[c].freed}

\* A mutant of FindCrtc: the CRTC it is bound to is taken without a look.
FindBoundCrtc(c) == {IF BoundTo[c] # NoCrtc THEN BoundTo[c] ELSE Head(Possible[c])}

\* modeset_find_crtc: the CRTC it is bound to if no other device has it, or the
\* first that works with an encoder and no other device has; or none.
FindCrtc(c) ==
  LET tried == <<BoundTo[c]>> \o Possible[c]
      taken == {dev[d].crtc : d \in ToSet(list)} \cup {NoCrtc}
  IN  {tried[i] : i \in {j \in DOMAIN tried : tried[j] \notin taken /\ \A h \in 1..(j - 1) : tried[h] \in taken}}

\* modeset_create_fb leaves nothing behind when it fails, nor does a failing
\* second buffer leave the first.
CreateFbs(c) == buffers' = buffers \cup BuffersOf(c)

SetupDev(c) ==
  /\ \E k \in FindCrtc(c) : dev' = [dev EXCEPT ![c].crtc = k]
  /\ CreateFbs(c)
  /\ list' = <<c>> \o list

\* A connector without monitor, mode, CRTC or buffers is left out.
Prepare ==
  /\ phase = "prepare" /\ todo # <<>>
  /\ SetupDev(Head(todo)) \/ UNCHANGED <<list, dev, buffers>>
  /\ todo' = Tail(todo)
  /\ UNCHANGED <<phase, shown, flip, events, batch, broken>>

NextPhase(from, to, devices) ==
  /\ phase = from /\ todo = <<>>
  /\ phase' = to /\ todo' = devices
  /\ UNCHANGED <<list, dev, buffers, shown, flip, events, batch, broken>>

\* If the mode cannot be set the program goes on.
SetCrtc ==
  /\ phase = "set" /\ todo # <<>>
  /\ \/ shown' = [shown EXCEPT ![dev[Head(todo)].crtc] = <<Head(todo), dev[Head(todo)].front>>]
     \/ UNCHANGED shown
  /\ todo' = Tail(todo)
  /\ UNCHANGED <<phase, list, dev, buffers, flip, events, batch, broken>>

Back(c) == <<c, 1 - dev[c].front>>

\* modeset_draw_dev: the kernel takes one flip at a time, and may refuse it; then
\* no event will come and the device is not drawn again.
PageFlip(c) ==
  /\ flip[dev[c].crtc] = NoBuf
  /\ flip' = [flip EXCEPT ![dev[c].crtc] = Back(c)]
  /\ dev' = [dev EXCEPT ![c].front = 1 - @, ![c].pending = TRUE]

DrawDev(c) ==
  \/ PageFlip(c)
  \/ dev' = [dev EXCEPT ![c].pending = FALSE] /\ UNCHANGED flip

FirstDraw ==
  /\ phase = "draw" /\ todo # <<>>
  /\ DrawDev(Head(todo))
  /\ todo' = Tail(todo)
  /\ UNCHANGED <<phase, list, buffers, shown, events, batch, broken>>

\* The kernel: the flip is done, and reported.
VBlank(k) ==
  /\ flip[k] # NoBuf
  /\ shown' = [shown EXCEPT ![k] = flip[k]]
  /\ flip' = [flip EXCEPT ![k] = NoBuf]
  /\ events' = Append(events, flip[k][1])
  /\ UNCHANGED <<phase, todo, list, dev, buffers, batch, broken>>

\* drmHandleEvent reads all there is; it blocks when there is nothing.
ReadEvents ==
  /\ batch = <<>> /\ events # <<>>
  /\ \/ phase = "loop" /\ todo = <<>>
     \/ phase = "wait" /\ dev[Head(todo)].pending
  /\ batch' = events /\ events' = <<>>
  /\ UNCHANGED <<phase, todo, list, dev, buffers, shown, flip, broken>>

\* A mutant of Handled: nothing at all is done during the clean-up.
HandledUnlessCleaning(c) == IF dev[c].cleanup THEN UNCHANGED <<dev, flip>> ELSE DrawDev(c)

\* modeset_page_flip_event.
Handled(c) ==
  IF dev[c].cleanup
  THEN dev' = [dev EXCEPT ![c].pending = FALSE] /\ UNCHANGED flip
  ELSE DrawDev(c)

PageFlipEvent ==
  /\ batch # <<>>
  /\ Handled(Head(batch))
  /\ batch' = Tail(batch)
  /\ UNCHANGED <<phase, todo, list, buffers, shown, events, broken>>

\* Five seconds are over, or there is input.
StopDrawing ==
  /\ phase = "loop" /\ batch = <<>>
  /\ phase' = "cleanup" /\ todo' = <<>>
  /\ UNCHANGED <<list, dev, buffers, shown, flip, events, batch, broken>>

Leave ==
  /\ phase = "cleanup" /\ list # <<>>
  /\ dev' = [dev EXCEPT ![Head(list)].cleanup = TRUE]
  /\ list' = Tail(list)
  /\ phase' = "wait" /\ todo' = <<Head(list)>>
  /\ UNCHANGED <<buffers, shown, flip, events, batch, broken>>

\* The device goes: its buffers are destroyed, which turns off a CRTC that still
\* shows one of them.
Destroy(c, screens) ==
  /\ buffers' = buffers \ BuffersOf(c)
  /\ shown' = [k \in Crtcs |-> IF screens[k] \in BuffersOf(c) THEN NoBuf ELSE screens[k]]
  /\ dev' = [dev EXCEPT ![c].freed = TRUE]
  /\ phase' = "cleanup" /\ todo' = <<>>
  /\ UNCHANGED <<list, flip, events, batch>>

WaitIsOver ==
  /\ phase = "wait" /\ batch = <<>> /\ ~dev[Head(todo)].pending
  /\ \E screens \in {shown, [shown EXCEPT ![dev[Head(todo)].crtc] = Saved]} : Destroy(Head(todo), screens)
  /\ UNCHANGED broken

\* The events cannot be read: the device goes although its flip is pending.
WaitFails ==
  /\ phase = "wait" /\ batch = <<>> /\ dev[Head(todo)].pending
  /\ Destroy(Head(todo), shown)
  /\ broken' = TRUE

Cleaned ==
  /\ phase = "cleanup" /\ list = <<>>
  /\ phase' = "done"
  /\ UNCHANGED <<todo, list, dev, buffers, shown, flip, events, batch, broken>>

ModesetInit ==
  /\ phase = "prepare" /\ todo = Connectors /\ list = <<>>
  /\ dev = [c \in Devs |-> Fresh]
  /\ buffers = {} /\ events = <<>> /\ batch = <<>> /\ broken = FALSE
  /\ shown = [k \in Crtcs |-> Saved] /\ flip = [k \in Crtcs |-> NoBuf]

Main ==
  \/ Prepare \/ NextPhase("prepare", "set", list)
  \/ SetCrtc \/ NextPhase("set", "draw", list)
  \/ FirstDraw \/ NextPhase("draw", "loop", <<>>)
  \/ Leave \/ WaitIsOver \/ Cleaned \/ PageFlipEvent \/ ReadEvents

ModesetNext == Main \/ StopDrawing \/ WaitFails \/ \E k \in Crtcs : VBlank(k)

ModesetSpec == ModesetInit /\ [][ModesetNext]_drmVars

-----------------------------------------------------------------------------

Happens(c) ==
  Cardinality({k \in Crtcs : flip[k] \in BuffersOf(c)})
  + Cardinality({k \in 1..Len(events) : events[k] = c}) + Cardinality({k \in 1..Len(batch) : batch[k] = c})

\* No two devices have one CRTC, and a device that is going to be drawn does not
\* show the buffer it is drawn into, nor is it about to (modeset-vsync.c:659).
NoDrawingOnScreen ==
  /\ \A c, d \in Alive : c # d => dev[c].crtc # dev[d].crtc
  /\ \A c \in Alive : ~dev[c].pending => Back(c) \notin {shown[dev[c].crtc], flip[dev[c].crtc]}

\* A flip is pending for a device exactly when its event is still to be handled;
\* so the handler gets no device that was freed (modeset-vsync.c:491, :734).
\* When reading the events fails in the clean-up it may.
EventsAreOfTheLiving ==
  ~broken => \A c \in Devs :
    /\ Happens(c) = IF dev[c].pending THEN 1 ELSE 0
    /\ dev[c].freed => ~dev[c].pending

\* What is scanned out exists.
ScreensExist == ~broken => \A k \in Crtcs : shown[k] \in buffers \cup {Saved, NoBuf}

ModesetIsSafe == NoDrawingOnScreen /\ EventsAreOfTheLiving /\ ScreensExist

\* The program ends: flips of other devices, which draw again while one is waited
\* for, do not keep it from its own (modeset-vsync.c:711).
ModesetEnds == phase = "loop" ~> phase = "done"
=============================================================================
