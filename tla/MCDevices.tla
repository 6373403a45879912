------------------------------ MODULE MCDevices ------------------------------
(* One instance of each of the smaller programs and drivers.  They have nothing *)
(* to do with each other and are checked side by side: the subject is chosen at *)
(* the beginning, the others stay in their initial states.                      *)
EXTENDS VpuCodec, Modeset, VSync, V4L2Capture, ChildProcess, FramebufferSlots, FileServer, TLC

VARIABLE subject

\* Two of three connectors are bound to one CRTC; one CRTC is for none of them.
MCConnectors == <<"a", "b", "c">>
MCBoundTo == "a" :> 1 @@ "b" :> 0 @@ "c" :> 1
MCPossible == "a" :> <<1, 2>> @@ "b" :> <<2>> @@ "c" :> <<2, 1>>
MCSaved == <<"saved", 0>>
MCNoBuf == <<"none", 0>>

\* A driver with a rate, and a format whose pictures are small, instead of others.
MCAsked == [channel |-> {}, fourcc |-> {"rgb", "odd"}, size |-> {1, 2}, fps |-> {60}]
MCDefaults == [channel |-> 0, fourcc |-> "none", size |-> 2, fps |-> 30]
MCGrant(s) ==
  [s EXCEPT !.fourcc = IF @ \in {"none", "odd"} THEN "yuv" ELSE @, !.size = IF s.fourcc = "odd" THEN 1 ELSE @, !.fps = 30]

MCDisplayOf == 0 :> "a" @@ 1 :> "b"

\* Two paths to one name.
MCPaths == {<<"f">>, <<"d", "f">>}

DevicesInit ==
  /\ subject \in {"vpu", "screens", "vsync", "capture", "child", "slots", "server"}
  /\ VpuInit /\ ModesetInit /\ VSyncInit /\ CaptureInit /\ ChildInit /\ SlotsInit /\ FileServerInit

OnlyScreens == UNCHANGED <<subject, vpuVars, vsyncVars, capVars, childVars, slotVars, fileVars>>

DevicesNext ==
  \/ subject = "vpu" /\ VpuNext /\ UNCHANGED <<subject, drmVars, vsyncVars, capVars, childVars, slotVars, fileVars>>
  \/ subject = "screens" /\ ModesetNext /\ OnlyScreens
  \/ subject = "vsync" /\ VSyncNext /\ UNCHANGED <<subject, vpuVars, drmVars, capVars, childVars, slotVars, fileVars>>
  \/ subject = "capture" /\ CaptureNext /\ UNCHANGED <<subject, vpuVars, drmVars, vsyncVars, childVars, slotVars, fileVars>>
  \/ subject = "child" /\ ChildNext /\ UNCHANGED <<subject, vpuVars, drmVars, vsyncVars, capVars, slotVars, fileVars>>
  \/ subject = "slots" /\ SlotsNext /\ UNCHANGED <<subject, vpuVars, drmVars, vsyncVars, capVars, childVars, fileVars>>
  \/ subject = "server" /\ FileServerNext /\ UNCHANGED <<subject, vpuVars, drmVars, vsyncVars, capVars, childVars, slotVars>>

devicesVars == <<subject, vpuVars, drmVars, vsyncVars, capVars, childVars, slotVars, fileVars>>

\* The program that draws goes on when it can, the five seconds pass, and there
\* is a vertical blank for every flip.
DevicesSpec ==
  /\ DevicesInit /\ [][DevicesNext]_devicesVars
  /\ WF_devicesVars(subject = "screens" /\ Main /\ OnlyScreens)
  /\ SF_devicesVars(subject = "screens" /\ StopDrawing /\ OnlyScreens)
  /\ \A k \in Crtcs : WF_devicesVars(subject = "screens" /\ VBlank(k) /\ OnlyScreens)
=============================================================================
