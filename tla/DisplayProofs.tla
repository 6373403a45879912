---------------------------- MODULE DisplayProofs ----------------------------
(***************************************************************************)
(* Proofs about the two programs that share the buffers they show with     *)
(* somebody else: FrameExchange, for any number of retries, and Modeset,   *)
(* for any connectors and controllers.                                     *)
(***************************************************************************)
EXTENDS FrameExchange, Modeset, FiniteSetTheorems, SequenceTheorems, TLAPS

LOCAL INSTANCE SequencesExt


(***************************************************************************)
(* The inductive invariant.  A buffer is Locked from the end of the wait   *)
(* to the post, and Held from the moment the client has seen it scanning,  *)
(* or attached it, until it is marked as shown.  A buffer may be both only *)
(* by an override; a held buffer that is not locked is scanning, which is  *)
(* why the next gralloc_lock waits for it.                                 *)
(***************************************************************************)
Locked(b) == sf.buf = b /\ sf.pc \in {"mark", "marking", "draw", "displaying", "posting"}

Attached(b) == lastBuffer = b /\ (pending \/ client.pc = "showing")

Held(b) == b \in client.seen \/ Attached(b)

\* What the state of a buffer says of its lock.
StateInv ==
    \A b \in Buffers :
        /\ ~ Locked(b) => word[b].state # "drawing"
        /\ Drawing(b) => word[b].state # "scaning"
        /\ Locked(b) /\ b \notin overridden => word[b].state # "scaning"
        /\ word[b].display /\ ~ Locked(b) => word[b].state # "zero"

\* What was read is still there to be written back.
ReadInv ==
    /\ sf.pc \in {"marking", "displaying", "posting"}
           => sf.read.display = word[sf.buf].display
    /\ sf.pc = "displaying" => sf.read.state # "scaning"
    /\ client.pc = "showing" => client.read.display

HeldInv ==
    \A b \in Buffers : Held(b) => IF Locked(b) THEN b \in overridden
                                  ELSE word[b].state = "scaning"

RedrawnInv ==
    \A b \in Buffers : Attached(b) /\ b \in redrawn => b \in overridden

\* Where the client is.
ClientInv ==
    /\ client.seen # {} => client.pc \in {"scan1", "attach"}
    /\ pending => client.pc \in {"loop", "dispatch", "exited"}
    /\ client.pc # "start" => SharedIndexs
    /\ client.pc \in {"start", "first"} =>
           /\ sf.pc = "displaying" => sf.read.state # "shown"
           /\ \A b \in Buffers : /\ word[b].state # "shown"
                                 /\ Locked(b) => b \in overridden

FrameInv == FrameTypeOK /\ StateInv /\ ReadInv /\ HeldInv /\ RedrawnInv /\ ClientInv
\* Zeroed memory, nobody has begun.
LEMMA FrameInitInv == Init => FrameInv
<1> SUFFICES ASSUME Init PROVE FrameInv
  OBVIOUS
<1> USE RetriesAssumption DEF Init, Zero
<1>1. FrameTypeOK
  <2>1. 0 \in 0..Retries /\ 0 \in Buffers
    BY DEF Buffers
  <2> QED
    BY <2>1 DEF FrameTypeOK, Words
<1>2. StateInv /\ ReadInv /\ HeldInv /\ RedrawnInv /\ ClientInv
  BY DEF StateInv, ReadInv, HeldInv, RedrawnInv, ClientInv, Locked, Attached, Held,
         Drawing, SharedIndexs
<1> QED
  BY <1>1, <1>2 DEF FrameInv

\* gralloc_lock begins.
LEMMA LockInv ==
    ASSUME FrameInv, NEW b \in Buffers, Lock(b)
    PROVE  FrameInv'
<1> USE RetriesAssumption DEF FrameInv, Lock, SFStep
<1>0. 0 \in 0..Retries
  OBVIOUS
<1>1. FrameTypeOK'
  BY <1>0 DEF FrameTypeOK, Words
<1> USE DEF FrameTypeOK
<1>2. StateInv'
  BY DEF StateInv, ReadInv, HeldInv, ClientInv, Locked, Drawing, Held, Attached, SharedIndexs, Words
<1>3. ReadInv'
  BY DEF StateInv, ReadInv, ClientInv, Locked, Drawing, SharedIndexs, Words
<1>4. HeldInv'
  BY DEF HeldInv, StateInv, ClientInv, Held, Attached, Locked, Drawing, SharedIndexs, Words
<1>5. RedrawnInv'
  BY DEF RedrawnInv, HeldInv, ClientInv, Held, Attached, Locked, Words
<1>6. ClientInv'
  BY DEF ClientInv, StateInv, ReadInv, SharedIndexs, Locked, Words
<1> QED
  BY <1>1, <1>2, <1>3, <1>4, <1>5, <1>6

\* A look at the state: unforced only when the client has done with the buffer.
LEMMA LockTryInv ==
    ASSUME FrameInv, LockTry
    PROVE  FrameInv'
<1> USE RetriesAssumption DEF FrameInv, LockTry, SFStep, MayLock
<1>1. FrameTypeOK'
  BY DEF FrameTypeOK, Words
<1> USE DEF FrameTypeOK
<1>2. StateInv'
  BY DEF StateInv, ReadInv, HeldInv, ClientInv, Locked, Drawing, Held, Attached, SharedIndexs, Words
<1>3. ReadInv'
  BY DEF StateInv, ReadInv, ClientInv, Locked, Drawing, SharedIndexs, Words
<1>4. HeldInv'
  BY DEF HeldInv, StateInv, ClientInv, Held, Attached, Locked, Drawing, SharedIndexs, Words
<1>5. RedrawnInv'
  BY DEF RedrawnInv, HeldInv, ClientInv, Held, Attached, Locked, Words
<1>6. ClientInv'
  BY DEF ClientInv, StateInv, ReadInv, SharedIndexs, Locked, Words
<1> QED
  BY <1>1, <1>2, <1>3, <1>4, <1>5, <1>6

\* The word is read to be marked.
LEMMA LockReadInv ==
    ASSUME FrameInv, LockRead
    PROVE  FrameInv'
<1> USE RetriesAssumption DEF FrameInv, LockRead, Read, SFStep
<1>1. FrameTypeOK'
  BY DEF FrameTypeOK, Words
<1> USE DEF FrameTypeOK
<1>2. StateInv'
  BY DEF StateInv, ReadInv, HeldInv, ClientInv, Locked, Drawing, Held, Attached, SharedIndexs, Words
<1>3. ReadInv'
  BY DEF StateInv, ReadInv, ClientInv, Locked, Drawing, SharedIndexs, Words
<1>4. HeldInv'
  BY DEF HeldInv, StateInv, ClientInv, Held, Attached, Locked, Drawing, SharedIndexs, Words
<1>5. RedrawnInv'
  BY DEF RedrawnInv, HeldInv, ClientInv, Held, Attached, Locked, Words
<1>6. ClientInv'
  BY DEF ClientInv, StateInv, ReadInv, SharedIndexs, Locked, Words
<1> QED
  BY <1>1, <1>2, <1>3, <1>4, <1>5, <1>6

\* The buffer is marked as being drawn.
LEMMA LockWriteInv ==
    ASSUME FrameInv, LockWrite
    PROVE  FrameInv'
<1> USE RetriesAssumption DEF FrameInv, LockWrite, SFStep, SetState
<1>1. FrameTypeOK'
  BY DEF FrameTypeOK, Words
<1> USE DEF FrameTypeOK
<1>2. StateInv'
  BY DEF StateInv, ReadInv, HeldInv, ClientInv, Locked, Drawing, Held, Attached, SharedIndexs, Words
<1>3. ReadInv'
  BY DEF StateInv, ReadInv, ClientInv, Locked, Drawing, SharedIndexs, Words
<1>4. HeldInv'
  BY DEF HeldInv, StateInv, ClientInv, Held, Attached, Locked, Drawing, SharedIndexs, Words
<1>5. RedrawnInv'
  BY DEF RedrawnInv, HeldInv, ClientInv, Held, Attached, Locked, Words
<1>6. ClientInv'
  BY DEF ClientInv, StateInv, ReadInv, SharedIndexs, Locked, Words
<1> QED
  BY <1>1, <1>2, <1>3, <1>4, <1>5, <1>6

\* The word is read to be given a display.
LEMMA DisplayReadInv ==
    ASSUME FrameInv, DisplayRead
    PROVE  FrameInv'
<1> USE RetriesAssumption DEF FrameInv, DisplayRead, Read, SFStep
<1>1. FrameTypeOK'
  BY DEF FrameTypeOK, Words
<1> USE DEF FrameTypeOK
<1>2. StateInv'
  BY DEF StateInv, ReadInv, HeldInv, ClientInv, Locked, Drawing, Held, Attached, SharedIndexs, Words
<1>3. ReadInv'
  BY DEF StateInv, ReadInv, ClientInv, Locked, Drawing, SharedIndexs, Words
<1>4. HeldInv'
  BY DEF HeldInv, StateInv, ClientInv, Held, Attached, Locked, Drawing, SharedIndexs, Words
<1>5. RedrawnInv'
  BY DEF RedrawnInv, HeldInv, ClientInv, Held, Attached, Locked, Words
<1>6. ClientInv'
  BY DEF ClientInv, StateInv, ReadInv, SharedIndexs, Locked, Words
<1> QED
  BY <1>1, <1>2, <1>3, <1>4, <1>5, <1>6

\* The buffer gets its display.
LEMMA DisplayWriteInv ==
    ASSUME FrameInv, DisplayWrite
    PROVE  FrameInv'
<1> USE RetriesAssumption DEF FrameInv, DisplayWrite, SFStep, SetDisplay
<1>1. FrameTypeOK'
  BY DEF FrameTypeOK, Words
<1> USE DEF FrameTypeOK
<1>2. StateInv'
  BY DEF StateInv, ReadInv, HeldInv, ClientInv, Locked, Drawing, Held, Attached, SharedIndexs, Words
<1>3. ReadInv'
  BY DEF StateInv, ReadInv, ClientInv, Locked, Drawing, SharedIndexs, Words
<1>4. HeldInv'
  BY DEF HeldInv, StateInv, ClientInv, Held, Attached, Locked, Drawing, SharedIndexs, Words
<1>5. RedrawnInv'
  BY DEF RedrawnInv, HeldInv, ClientInv, Held, Attached, Locked, Words
<1>6. ClientInv'
  BY DEF ClientInv, StateInv, ReadInv, SharedIndexs, Locked, Words
<1> QED
  BY <1>1, <1>2, <1>3, <1>4, <1>5, <1>6

\* The word is read to be posted.
LEMMA PostReadInv ==
    ASSUME FrameInv, PostRead
    PROVE  FrameInv'
<1> USE RetriesAssumption DEF FrameInv, PostRead, Read, SFStep
<1>1. FrameTypeOK'
  BY DEF FrameTypeOK, Words
<1> USE DEF FrameTypeOK
<1>2. StateInv'
  BY DEF StateInv, ReadInv, HeldInv, ClientInv, Locked, Drawing, Held, Attached, SharedIndexs, Words
<1>3. ReadInv'
  BY DEF StateInv, ReadInv, ClientInv, Locked, Drawing, SharedIndexs, Words
<1>4. HeldInv'
  BY DEF HeldInv, StateInv, ClientInv, Held, Attached, Locked, Drawing, SharedIndexs, Words
<1>5. RedrawnInv'
  BY DEF RedrawnInv, HeldInv, ClientInv, Held, Attached, Locked, Words
<1>6. ClientInv'
  BY DEF ClientInv, StateInv, ReadInv, SharedIndexs, Locked, Words
<1> QED
  BY <1>1, <1>2, <1>3, <1>4, <1>5, <1>6

\* The frame is posted.
LEMMA PostWriteInv ==
    ASSUME FrameInv, PostWrite
    PROVE  FrameInv'
<1> USE RetriesAssumption DEF FrameInv, PostWrite, SFStep, SetState
<1>1. FrameTypeOK'
  BY DEF FrameTypeOK, Words
<1> USE DEF FrameTypeOK
<1>2. StateInv'
  BY DEF StateInv, ReadInv, HeldInv, ClientInv, Locked, Drawing, Held, Attached, SharedIndexs, Words
<1>3. ReadInv'
  BY DEF StateInv, ReadInv, ClientInv, Locked, Drawing, SharedIndexs, Words
<1>4. HeldInv'
  BY DEF HeldInv, StateInv, ClientInv, Held, Attached, Locked, Drawing, SharedIndexs, Words
<1>5. RedrawnInv'
  BY DEF RedrawnInv, HeldInv, ClientInv, Held, Attached, Locked, Words
<1>6. ClientInv'
  BY DEF ClientInv, StateInv, ReadInv, SharedIndexs, Locked, Words
<1> QED
  BY <1>1, <1>2, <1>3, <1>4, <1>5, <1>6

\* The client finds both buffers.
LEMMA CreateWindowInv ==
    ASSUME FrameInv, CreateWindow
    PROVE  FrameInv'
<1> USE RetriesAssumption DEF FrameInv, CreateWindow, ClientStep
<1>1. FrameTypeOK'
  BY DEF FrameTypeOK, Words
<1> USE DEF FrameTypeOK
<1>2. StateInv'
  BY DEF StateInv, ReadInv, HeldInv, ClientInv, Locked, Drawing, Held, Attached, SharedIndexs, Words
<1>3. ReadInv'
  BY DEF StateInv, ReadInv, ClientInv, Locked, Drawing, SharedIndexs, Words
<1>4. HeldInv'
  BY DEF HeldInv, StateInv, ClientInv, Held, Attached, Locked, Drawing, SharedIndexs, Words
<1>5. RedrawnInv'
  BY DEF RedrawnInv, HeldInv, ClientInv, Held, Attached, Locked, Words
<1>6. ClientInv'
  <2>1. client' = [client EXCEPT !.pc = "first"] /\ client'.pc = "first"
        /\ client'.seen = client.seen /\ client.pc = "start"
    OBVIOUS
  <2>2. client'.seen = {} /\ ~ pending'
    BY <2>1 DEF ClientInv
  <2>3. SharedIndexs'
    BY DEF SharedIndexs
  <2> QED
    BY <2>1, <2>2, <2>3 DEF ClientInv, Locked
<1> QED
  BY <1>1, <1>2, <1>3, <1>4, <1>5, <1>6

\* The dummy is attached: its buffer has been posted and not been shown.
LEMMA DrawFirstInv ==
    ASSUME FrameInv, DrawFirst
    PROVE  FrameInv'
<1> USE RetriesAssumption DEF FrameInv, DrawFirst, ClientStep, Attach
<1>1. FrameTypeOK'
  BY DEF FrameTypeOK, Words
<1> USE DEF FrameTypeOK
<1>2. StateInv'
  BY DEF StateInv, ReadInv, HeldInv, ClientInv, Locked, Drawing, Held, Attached, SharedIndexs, Words
<1>3. ReadInv'
  BY DEF StateInv, ReadInv, ClientInv, Locked, Drawing, SharedIndexs, Words
<1>4. HeldInv'
  BY DEF HeldInv, StateInv, ClientInv, Held, Attached, Locked, Drawing, SharedIndexs, Words
<1>5. RedrawnInv'
  BY DEF RedrawnInv, HeldInv, ClientInv, Held, Attached, Locked, Words
<1>6. ClientInv'
  BY DEF ClientInv, StateInv, ReadInv, SharedIndexs, Locked, Words
<1> QED
  BY <1>1, <1>2, <1>3, <1>4, <1>5, <1>6

\* The loop of the thread.
LEMMA DispatchInv ==
    ASSUME FrameInv, DispatchFrame \/ DispatchFails
    PROVE  FrameInv'
<1> USE RetriesAssumption DEF FrameInv, DispatchFrame, DispatchFails, ClientStep
<1>1. FrameTypeOK'
  BY DEF FrameTypeOK, Words
<1> USE DEF FrameTypeOK
<1>2. StateInv'
  BY DEF StateInv, ReadInv, HeldInv, ClientInv, Locked, Drawing, Held, Attached, SharedIndexs, Words
<1>3. ReadInv'
  BY DEF StateInv, ReadInv, ClientInv, Locked, Drawing, SharedIndexs, Words
<1>4. HeldInv'
  BY DEF HeldInv, StateInv, ClientInv, Held, Attached, Locked, Drawing, SharedIndexs, Words
<1>5. RedrawnInv'
  BY DEF RedrawnInv, HeldInv, ClientInv, Held, Attached, Locked, Words
<1>6. ClientInv'
  BY DEF ClientInv, StateInv, ReadInv, SharedIndexs, Locked, Words
<1> QED
  BY <1>1, <1>2, <1>3, <1>4, <1>5, <1>6

\* The frame callback.
LEMMA OnDrawnInv ==
    ASSUME FrameInv, OnDrawn
    PROVE  FrameInv'
<1> USE RetriesAssumption DEF FrameInv, OnDrawn, ClientStep
<1>1. FrameTypeOK'
  BY DEF FrameTypeOK, Words
<1> USE DEF FrameTypeOK
<1>2. StateInv'
  BY DEF StateInv, ReadInv, HeldInv, ClientInv, Locked, Drawing, Held, Attached, SharedIndexs, Words
<1>3. ReadInv'
  BY DEF StateInv, ReadInv, ClientInv, Locked, Drawing, SharedIndexs, Words
<1>4. HeldInv'
  BY DEF HeldInv, StateInv, ClientInv, Held, Attached, Locked, Drawing, SharedIndexs, Words
<1>5. RedrawnInv'
  BY DEF RedrawnInv, HeldInv, ClientInv, Held, Attached, Locked, Words
<1>6. ClientInv'
  BY DEF ClientInv, StateInv, ReadInv, SharedIndexs, Locked, Words
<1> QED
  BY <1>1, <1>2, <1>3, <1>4, <1>5, <1>6

\* The buffer is marked as shown.
LEMMA ShownWriteInv ==
    ASSUME FrameInv, ShownWrite
    PROVE  FrameInv'
<1> USE RetriesAssumption DEF FrameInv, ShownWrite, ClientStep, SetState
<1>1. FrameTypeOK'
  BY DEF FrameTypeOK, Words
<1> USE DEF FrameTypeOK
<1>2. StateInv'
  BY DEF StateInv, ReadInv, HeldInv, ClientInv, Locked, Drawing, Held, Attached, SharedIndexs, Words
<1>3. ReadInv'
  BY DEF StateInv, ReadInv, ClientInv, Locked, Drawing, SharedIndexs, Words
<1>4. HeldInv'
  BY DEF HeldInv, StateInv, ClientInv, Held, Attached, Locked, Drawing, SharedIndexs, Words
<1>5. RedrawnInv'
  BY DEF RedrawnInv, HeldInv, ClientInv, Held, Attached, Locked, Words
<1>6. ClientInv'
  BY DEF ClientInv, StateInv, ReadInv, SharedIndexs, Locked, Words
<1> QED
  BY <1>1, <1>2, <1>3, <1>4, <1>5, <1>6

\* The client looks at the first buffer.
LEMMA Scan0Inv ==
    ASSUME FrameInv, Scan0
    PROVE  FrameInv'
<1> USE RetriesAssumption DEF FrameInv, Scan0, ClientStep, Scaning, Buffers
<1>1. FrameTypeOK'
  BY ZenonT(60) DEF FrameTypeOK, Words
<1> USE DEF FrameTypeOK
<1>2. StateInv'
  BY DEF StateInv, ReadInv, HeldInv, ClientInv, Locked, Drawing, Held, Attached, SharedIndexs, Words
<1>3. ReadInv'
  BY DEF StateInv, ReadInv, ClientInv, Locked, Drawing, SharedIndexs, Words
<1>4. HeldInv'
  BY DEF HeldInv, StateInv, ClientInv, Held, Attached, Locked, Drawing, SharedIndexs, Words
<1>5. RedrawnInv'
  BY DEF RedrawnInv, HeldInv, ClientInv, Held, Attached, Locked, Words
<1>6. ClientInv'
  BY DEF ClientInv, StateInv, ReadInv, SharedIndexs, Locked, Words
<1> QED
  BY <1>1, <1>2, <1>3, <1>4, <1>5, <1>6

\* The client looks at the second buffer.
LEMMA Scan1Inv ==
    ASSUME FrameInv, Scan1
    PROVE  FrameInv'
<1> USE RetriesAssumption DEF FrameInv, Scan1, ClientStep, Scaning, Buffers
<1>1. FrameTypeOK'
  BY ZenonT(60) DEF FrameTypeOK, Words
<1> USE DEF FrameTypeOK
<1>2. StateInv'
  BY DEF StateInv, ReadInv, HeldInv, ClientInv, Locked, Drawing, Held, Attached, SharedIndexs, Words
<1>3. ReadInv'
  BY DEF StateInv, ReadInv, ClientInv, Locked, Drawing, SharedIndexs, Words
<1>4. HeldInv'
  BY DEF HeldInv, StateInv, ClientInv, Held, Attached, Locked, Drawing, SharedIndexs, Words
<1>5. RedrawnInv'
  BY DEF RedrawnInv, HeldInv, ClientInv, Held, Attached, Locked, Words
<1>6. ClientInv'
  BY DEF ClientInv, StateInv, ReadInv, SharedIndexs, Locked, Words
<1> QED
  BY <1>1, <1>2, <1>3, <1>4, <1>5, <1>6

\* A buffer that was scanning is attached.
LEMMA DrawNextInv ==
    ASSUME FrameInv, DrawNext
    PROVE  FrameInv'
<1> USE RetriesAssumption DEF FrameInv, DrawNext, ClientStep, Attach, Current
<1>1. FrameTypeOK'
  BY DEF FrameTypeOK, Words
<1> USE DEF FrameTypeOK
<1>2. StateInv'
  BY DEF StateInv, ReadInv, HeldInv, ClientInv, Locked, Drawing, Held, Attached, SharedIndexs, Words
<1>3. ReadInv'
  BY DEF StateInv, ReadInv, ClientInv, Locked, Drawing, SharedIndexs, Words
<1>4. HeldInv'
  BY DEF HeldInv, StateInv, ClientInv, Held, Attached, Locked, Drawing, SharedIndexs, Words
<1>5. RedrawnInv'
  BY DEF RedrawnInv, HeldInv, ClientInv, Held, Attached, Locked, Words
<1>6. ClientInv'
  BY DEF ClientInv, StateInv, ReadInv, SharedIndexs, Locked, Words
<1> QED
  BY <1>1, <1>2, <1>3, <1>4, <1>5, <1>6

\* SIGINT, and stuttering.
LEMMA OtherStepInv ==
    ASSUME FrameInv, SignalInt \/ UNCHANGED vars
    PROVE  FrameInv'
<1> USE RetriesAssumption DEF FrameInv, SignalInt, vars
<1>1. FrameTypeOK'
  BY DEF FrameTypeOK, Words
<1> USE DEF FrameTypeOK
<1>2. StateInv'
  BY DEF StateInv, ReadInv, HeldInv, ClientInv, Locked, Drawing, Held, Attached, SharedIndexs, Words
<1>3. ReadInv'
  BY DEF StateInv, ReadInv, ClientInv, Locked, Drawing, SharedIndexs, Words
<1>4. HeldInv'
  BY DEF HeldInv, StateInv, ClientInv, Held, Attached, Locked, Drawing, SharedIndexs, Words
<1>5. RedrawnInv'
  BY DEF RedrawnInv, HeldInv, ClientInv, Held, Attached, Locked, Words
<1>6. ClientInv'
  BY DEF ClientInv, StateInv, ReadInv, SharedIndexs, Locked, Words
<1> QED
  BY <1>1, <1>2, <1>3, <1>4, <1>5, <1>6

\* Every step keeps the invariant.
LEMMA FrameStepInv == FrameInv /\ [Next]_vars => FrameInv'
<1> SUFFICES ASSUME FrameInv, [Next]_vars PROVE FrameInv'
  OBVIOUS
<1>1. CASE SurfaceFlinger
  BY <1>1, LockInv, LockTryInv, LockReadInv, LockWriteInv, DisplayReadInv,
     DisplayWriteInv, PostReadInv, PostWriteInv DEF SurfaceFlinger, Locking, Posting
<1>2. CASE Presenting
  BY <1>2, CreateWindowInv, DrawFirstInv, DispatchInv, OnDrawnInv, ShownWriteInv,
     Scan0Inv, Scan1Inv, DrawNextInv DEF Presenting
<1> QED
  BY <1>1, <1>2, OtherStepInv DEF Next

\* The inductive invariant holds in every state of the specification.
THEOREM FrameInvariance == Spec => []FrameInv
  BY FrameInitInv, FrameStepInv, PTL DEF Spec

\* Types; in particular the client attaches a buffer only when it has found one.
THEOREM FrameTypeCorrect == Spec => []FrameTypeOK
<1>1. FrameInv => FrameTypeOK
  BY DEF FrameInv
<1> QED
  BY <1>1, FrameInvariance, PTL

\* SurfaceFlinger never draws into a buffer that is being taken, save by override.
THEOREM TearsOnlyByOverride == Spec => []NoTearing
<1>1. FrameInv => NoTearing
  BY DEF FrameInv, FrameTypeOK, HeldInv, NoTearing, Held, Attached, Locked, Drawing
<1> QED
  BY <1>1, FrameInvariance, PTL

\* No posted frame is taken for a shown one, save by override.
THEOREM LosesOnlyByOverride == Spec => FrameLostOnlyByOverride
<1>1. FrameInv /\ [Next]_vars
          => [ShownWrite /\ lastBuffer \in redrawn => lastBuffer \in overridden]_vars
  BY DEF FrameInv, FrameTypeOK, RedrawnInv, Attached, ShownWrite, ClientStep
<1> QED
  BY <1>1, FrameInvariance, PTL DEF Spec, FrameLostOnlyByOverride

\* No process undoes what the other has written into a word between its read and
\* its write.
THEOREM DisplaysAreKept == Spec => DisplayIsKept
<1>1. FrameInv /\ [Next]_vars
          => [\A b \in Buffers : word[b].display => word'[b].display]_vars
  <2> SUFFICES ASSUME FrameInv, Next PROVE \A b \in Buffers : word[b].display => word'[b].display
    BY DEF vars
  <2>1. CASE UNCHANGED word
    BY <2>1
  <2>2. CASE LockWrite \/ DisplayWrite \/ PostWrite
    BY <2>2 DEF FrameInv, FrameTypeOK, ReadInv, Words, LockWrite, DisplayWrite,
                PostWrite, SFStep, SetState, SetDisplay
  <2>3. CASE ShownWrite
    BY <2>3 DEF FrameInv, FrameTypeOK, ReadInv, Words, ShownWrite, ClientStep, SetState
  <2> QED
    BY <2>1, <2>2, <2>3
       DEF Next, SurfaceFlinger, Lock, Locking, LockTry, LockRead, Posting, DisplayRead,
           PostRead, Read, Presenting, CreateWindow, DrawFirst, DispatchFrame,
           DispatchFails, OnDrawn, Scan0, Scan1, DrawNext, Attach, SignalInt
<1> QED
  BY <1>1, FrameInvariance, PTL DEF Spec, DisplayIsKept

-----------------------------------------------------------------------------
(* Modeset, for any connectors and controllers.                               *)

Device == [crtc : Crtcs \cup {NoCrtc}, front : {0, 1}, pending : BOOLEAN, cleanup : BOOLEAN, freed : BOOLEAN]
Pictures == Devs \X {0, 1}

Once(s) == \A i, j \in DOMAIN s : s[i] = s[j] => i = j

ModesetType ==
  /\ list \in Seq(Devs) /\ todo \in Seq(Devs) /\ events \in Seq(Devs) /\ batch \in Seq(Devs)
  /\ dev \in [Devs -> Device]
  /\ shown \in [Crtcs -> Pictures \cup {NoBuf, Saved}] /\ flip \in [Crtcs -> Pictures \cup {NoBuf}]

\* No CRTC has two devices.
OwnCrtc == \A c, d \in Devs : dev[c].crtc = dev[d].crtc /\ dev[c].crtc # NoCrtc => c = d

\* What is to be shown next is the front of a device that waits for it.
FlipsAreFronts ==
  \A k \in Crtcs : flip[k] # NoBuf => \E c \in Devs : dev[c].crtc = k /\ flip[k] = <<c, dev[c].front>>

Flipping(c) == dev[c].crtc # NoCrtc /\ flip[dev[c].crtc] # NoBuf

\* One flip, one event, or one event that is read.
OneHappening ==
  /\ Once(events) /\ Once(batch) /\ ToSet(events) \cap ToSet(batch) = {}
  /\ \A c \in Devs :
       /\ Flipping(c) => c \notin ToSet(events) \cup ToSet(batch)
       /\ dev[c].pending <=> Flipping(c) \/ c \in ToSet(events) \cup ToSet(batch)
       /\ dev[c].pending => dev[c].crtc # NoCrtc

\* A device whose flip is done does not show what it draws into.
BackIsHidden ==
  \A c \in Devs : dev[c].crtc # NoCrtc /\ ~Flipping(c) => shown[dev[c].crtc] # <<c, 1 - dev[c].front>>

\* A device that goes is told so first, and goes with nothing pending; its buffers
\* live as long as it does.
Lives ==
  /\ \A c \in Devs : dev[c].freed => dev[c].cleanup
  /\ ~broken => \A c \in Devs : dev[c].freed => ~dev[c].pending
  /\ \A c \in Devs : dev[c].crtc # NoCrtc /\ ~dev[c].freed => BuffersOf(c) \subseteq buffers
  /\ \A c \in ToSet(list) : dev[c].crtc # NoCrtc /\ ~dev[c].cleanup
  /\ Once(list)

\* What the devices are like where main is.
Phases ==
  /\ phase \in {"prepare", "set", "draw"} => batch = <<>>
  /\ phase \in {"prepare", "set", "draw"} => Once(todo) /\ \A c \in ToSet(todo) : ~dev[c].pending
  /\ phase \in {"prepare", "set"} => \A c \in Devs : ~dev[c].pending
  /\ phase = "prepare" => \A c \in Devs : ~dev[c].cleanup /\ (dev[c].crtc # NoCrtc <=> c \in ToSet(list))
  /\ phase = "prepare" => \A c \in ToSet(todo) : c \notin ToSet(list)
  /\ phase = "prepare" => \A k \in Crtcs : shown[k] = Saved
  /\ phase \in {"set", "draw"} => \A c \in ToSet(todo) : dev[c].crtc # NoCrtc /\ ~dev[c].cleanup
  /\ phase = "wait" => todo # <<>> /\ dev[Head(todo)].crtc # NoCrtc /\ dev[Head(todo)].cleanup /\ ~dev[Head(todo)].freed

Shows == ~broken => \A k \in Crtcs : shown[k] \in buffers \cup {Saved, NoBuf}

ModesetInv == ModesetType /\ OwnCrtc /\ FlipsAreFronts /\ OneHappening /\ BackIsHidden /\ Lives /\ Phases /\ Shows

-----------------------------------------------------------------------------
(* What the members of a sequence are.                                        *)

LEMMA NoMembers == ToSet(<<>>) = {} /\ Once(<<>>)
  BY DEF ToSet, Once

LEMMA HeadAndTail ==
  ASSUME NEW S, NEW s \in Seq(S), s # <<>>
  PROVE  /\ Head(s) \in S /\ Tail(s) \in Seq(S)
         /\ ToSet(s) = {Head(s)} \cup ToSet(Tail(s))
         /\ Once(s) => Once(Tail(s)) /\ Head(s) \notin ToSet(Tail(s))
<1>1. /\ Head(s) \in S /\ Head(s) = s[1] /\ Tail(s) \in Seq(S) /\ Len(s) \in Nat \ {0} /\ Len(Tail(s)) = Len(s) - 1
      /\ DOMAIN s = 1..Len(s) /\ DOMAIN Tail(s) = 1..(Len(s) - 1)
      /\ \A i \in 1..(Len(s) - 1) : Tail(s)[i] = s[i + 1]
  BY HeadTailProperties, EmptySeq, LenProperties
<1>2. \A i \in DOMAIN s : i = 1 \/ (i - 1 \in DOMAIN Tail(s) /\ Tail(s)[i - 1] = s[i])
  BY <1>1
<1>3. \A i \in DOMAIN Tail(s) : i + 1 \in DOMAIN s /\ Tail(s)[i] = s[i + 1] /\ i + 1 # 1
  BY <1>1
<1>4. ToSet(s) = {Head(s)} \cup ToSet(Tail(s))
  <2>1. 1 \in DOMAIN s
    BY <1>1
  <2>2. ToSet(s) \subseteq {Head(s)} \cup ToSet(Tail(s))
    <3> SUFFICES ASSUME NEW i \in DOMAIN s PROVE s[i] = Head(s) \/ s[i] \in ToSet(Tail(s))
      BY DEF ToSet
    <3> QED
      BY <1>1, <1>2 DEF ToSet
  <2>3. {Head(s)} \cup ToSet(Tail(s)) \subseteq ToSet(s)
    BY <1>1, <1>3, <2>1 DEF ToSet
  <2> QED
    BY <2>2, <2>3
<1>5. ASSUME Once(s) PROVE Once(Tail(s)) /\ Head(s) \notin ToSet(Tail(s))
  BY <1>1, <1>3, <1>5 DEF Once, ToSet
<1> QED
  BY <1>1, <1>4, <1>5

LEMMA Appended ==
  ASSUME NEW S, NEW s \in Seq(S), NEW x \in S
  PROVE  /\ Append(s, x) \in Seq(S)
         /\ ToSet(Append(s, x)) = ToSet(s) \cup {x}
         /\ Once(s) /\ x \notin ToSet(s) => Once(Append(s, x))
<1> DEFINE t == Append(s, x)
<1>1. /\ t \in Seq(S) /\ Len(s) \in Nat /\ DOMAIN s = 1..Len(s) /\ DOMAIN t = 1..(Len(s) + 1)
      /\ t[Len(s) + 1] = x /\ \A i \in 1..Len(s) : t[i] = s[i]
  BY AppendProperties, LenProperties
<1> HIDE DEF t
<1>2. ToSet(t) = ToSet(s) \cup {x}
  BY <1>1 DEF ToSet
<1>3. ASSUME Once(s), x \notin ToSet(s) PROVE Once(t)
  BY <1>1, <1>3 DEF Once, ToSet
<1> QED
  BY <1>1, <1>2, <1>3 DEF t

LEMMA Prefixed ==
  ASSUME NEW S, NEW s \in Seq(S), NEW x \in S
  PROVE  /\ <<x>> \o s \in Seq(S)
         /\ ToSet(<<x>> \o s) = {x} \cup ToSet(s)
         /\ Once(s) /\ x \notin ToSet(s) => Once(<<x>> \o s)
<1> DEFINE t == <<x>> \o s
<1>1. <<x>> \in Seq(S) /\ Len(<<x>>) = 1 /\ <<x>>[1] = x
  OBVIOUS
<1>2. /\ t \in Seq(S) /\ Len(s) \in Nat /\ DOMAIN s = 1..Len(s) /\ DOMAIN t = 1..(Len(s) + 1)
      /\ t[1] = x /\ \A i \in 2..(Len(s) + 1) : t[i] = s[i - 1]
  BY <1>1, ConcatProperties, LenProperties
<1> HIDE DEF t
<1>3. \A i \in 1..Len(s) : i + 1 \in DOMAIN t /\ t[i + 1] = s[i]
  BY <1>2
<1>4. ToSet(t) = {x} \cup ToSet(s)
  <2>1. 1 \in DOMAIN t
    BY <1>2
  <2>2. {x} \cup ToSet(s) \subseteq ToSet(t)
    BY <1>2, <1>3, <2>1 DEF ToSet
  <2>3. ASSUME NEW i \in DOMAIN t PROVE t[i] = x \/ t[i] \in ToSet(s)
    <3>1. i = 1 \/ (i - 1 \in DOMAIN s /\ t[i] = s[i - 1])
      BY <1>2
    <3> QED
      BY <1>2, <3>1 DEF ToSet
  <2>4. ToSet(t) \subseteq {x} \cup ToSet(s)
    BY <2>3 DEF ToSet
  <2> QED
    BY <2>2, <2>4
<1>5. ASSUME Once(s), x \notin ToSet(s) PROVE Once(t)
  <2>1. \A i \in DOMAIN t : i = 1 \/ (i - 1 \in DOMAIN s /\ t[i] = s[i - 1])
    BY <1>2
  <2> QED
    BY <1>2, <1>5, <2>1 DEF Once, ToSet
<1> QED
  BY <1>2, <1>4, <1>5 DEF t

LEMMA MembersOf == ASSUME NEW S, NEW s \in Seq(S) PROVE ToSet(s) \subseteq S
  BY LenProperties, ElementOfSeq DEF ToSet

LEMMA BuffersOfDevice ==
  ASSUME NEW c \in Devs
  PROVE  /\ BuffersOf(c) \subseteq Pictures
         /\ NoBuf \notin BuffersOf(c) /\ Saved \notin BuffersOf(c)
         /\ \A d : \A n : <<d, n>> \in BuffersOf(c) => d = c
         /\ \A n \in {0, 1} : <<c, n>> \in BuffersOf(c) /\ <<c, n>> # NoBuf /\ <<c, n>> # Saved
  BY ModesetAssumption DEF BuffersOf, Pictures

LEMMA Found ==
  ASSUME ModesetType, NEW c \in Devs, NEW k \in FindCrtc(c)
  PROVE  k \in Crtcs /\ \A d \in ToSet(list) : dev[d].crtc # k
<1> DEFINE tried == <<BoundTo[c]>> \o Possible[c]
           taken == {dev[d].crtc : d \in ToSet(list)} \cup {NoCrtc}
<1>1. tried \in Seq(Crtcs \cup {NoCrtc})
  <2>1. <<BoundTo[c]>> \in Seq(Crtcs \cup {NoCrtc}) /\ Possible[c] \in Seq(Crtcs \cup {NoCrtc})
    BY ModesetAssumption
  <2> QED
    BY <2>1, ConcatProperties
<1>2. PICK i \in DOMAIN tried : k = tried[i] /\ tried[i] \notin taken
  BY DEF FindCrtc
<1>3. k \in Crtcs \cup {NoCrtc}
  BY <1>1, <1>2, LenProperties, ElementOfSeq
<1> QED
  BY <1>2, <1>3

\* A draw asks for the flip to what was the back, or it fails and no flip is pending.
LEMMA Drawn ==
  ASSUME ModesetType, OwnCrtc, FlipsAreFronts, BackIsHidden, UNCHANGED shown,
         NEW c \in Devs, dev[c].crtc # NoCrtc, ~Flipping(c), DrawDev(c)
  PROVE  /\ dev' \in [Devs -> Device] /\ flip' \in [Crtcs -> Pictures \cup {NoBuf}]
         /\ OwnCrtc' /\ FlipsAreFronts' /\ BackIsHidden'
         /\ \A d \in Devs : dev'[d].crtc = dev[d].crtc /\ dev'[d].cleanup = dev[d].cleanup /\ dev'[d].freed = dev[d].freed
         /\ \A d \in Devs : d # c => (Flipping(d)' <=> Flipping(d)) /\ dev'[d].pending = dev[d].pending
         /\ dev'[c].pending <=> Flipping(c)'
<1> DEFINE k == dev[c].crtc
<1>1. k \in Crtcs /\ dev[c] \in Device
  BY DEF ModesetType, Device
<1>2. flip[k] = NoBuf
  BY DEF Flipping
<1>3. CASE PageFlip(c)
  <2>1. /\ dev' = [dev EXCEPT ![c].front = 1 - @, ![c].pending = TRUE]
        /\ flip' = [flip EXCEPT ![k] = <<c, 1 - dev[c].front>>]
    BY <1>3 DEF PageFlip, Back
  <2>2. /\ \A d \in Devs \ {c} : dev'[d] = dev[d]
        /\ dev'[c].crtc = k /\ dev'[c].front = 1 - dev[c].front /\ dev'[c].pending = TRUE
        /\ dev'[c].cleanup = dev[c].cleanup /\ dev'[c].freed = dev[c].freed
    BY <1>1, <2>1 DEF ModesetType, Device
  <2>3. 1 - dev[c].front \in {0, 1} /\ 1 - (1 - dev[c].front) = dev[c].front
    BY <1>1 DEF Device
  <2>4. dev' \in [Devs -> Device]
    <3>1. [dev[c] EXCEPT !.front = 1 - @, !.pending = TRUE] \in Device
      BY <1>1, <2>3 DEF Device
    <3>2. dev' = [dev EXCEPT ![c] = [dev[c] EXCEPT !.front = 1 - @, !.pending = TRUE]]
      BY <2>1
    <3> QED
      BY <3>1, <3>2 DEF ModesetType
  <2>5. /\ flip' \in [Crtcs -> Pictures \cup {NoBuf}]
        /\ flip'[k] = <<c, 1 - dev[c].front>> /\ flip'[k] # NoBuf
        /\ \A h \in Crtcs \ {k} : flip'[h] = flip[h]
    BY <1>1, <2>1, <2>3, BuffersOfDevice DEF ModesetType, Pictures
  <2>6. \A d \in Devs : dev'[d].crtc = dev[d].crtc /\ dev'[d].cleanup = dev[d].cleanup /\ dev'[d].freed = dev[d].freed
    BY <2>2
  <2>7. OwnCrtc'
    BY <2>6 DEF OwnCrtc
  <2>8. \A d \in Devs : d # c /\ dev[d].crtc # NoCrtc => dev[d].crtc \in Crtcs \ {k}
    BY DEF OwnCrtc, ModesetType, Device
  <2>9. \A d \in Devs : d # c => (Flipping(d)' <=> Flipping(d)) /\ dev'[d].pending = dev[d].pending
    BY <2>2, <2>5, <2>8 DEF Flipping
  <2>10. FlipsAreFronts'
    <3> SUFFICES ASSUME NEW h \in Crtcs, flip'[h] # NoBuf
                 PROVE  \E d \in Devs : dev'[d].crtc = h /\ flip'[h] = <<d, dev'[d].front>>
      BY DEF FlipsAreFronts
    <3>1. CASE h = k
      BY <2>2, <2>5, <3>1
    <3>2. CASE h # k
      BY <1>1, <2>2, <2>5, <3>2 DEF FlipsAreFronts
    <3> QED
      BY <3>1, <3>2
  <2>11. Flipping(c)'
    BY <1>1, <2>2, <2>5 DEF Flipping
  <2>12. BackIsHidden'
    BY <2>2, <2>9, <2>11 DEF BackIsHidden
  <2> QED
    BY <2>2, <2>4, <2>5, <2>6, <2>7, <2>9, <2>10, <2>11, <2>12
<1>4. CASE dev' = [dev EXCEPT ![c].pending = FALSE] /\ flip' = flip
  <2>1. /\ \A d \in Devs \ {c} : dev'[d] = dev[d]
        /\ dev'[c].crtc = k /\ dev'[c].front = dev[c].front /\ dev'[c].pending = FALSE
        /\ dev'[c].cleanup = dev[c].cleanup /\ dev'[c].freed = dev[c].freed
    BY <1>1, <1>4 DEF ModesetType, Device
  <2>2. dev' \in [Devs -> Device]
    BY <1>1, <1>4 DEF ModesetType, Device
  <2>3. \A d \in Devs : /\ dev'[d].crtc = dev[d].crtc /\ dev'[d].front = dev[d].front
                        /\ dev'[d].cleanup = dev[d].cleanup /\ dev'[d].freed = dev[d].freed
    BY <2>1
  <2>4. \A d \in Devs : Flipping(d)' <=> Flipping(d)
    BY <1>4, <2>3 DEF Flipping
  <2>5. OwnCrtc' /\ FlipsAreFronts' /\ BackIsHidden'
    BY <1>4, <2>3, <2>4 DEF OwnCrtc, FlipsAreFronts, BackIsHidden
  <2> QED
    BY <1>4, <2>1, <2>2, <2>3, <2>4, <2>5 DEF ModesetType
<1> QED
  BY <1>3, <1>4 DEF DrawDev

-----------------------------------------------------------------------------
(* The program.                                                               *)

\* As long as no device waits, the kernel has nothing to flip.
LEMMA NoneFlips ==
  ASSUME FlipsAreFronts, OneHappening, \A c \in Devs : ~dev[c].pending
  PROVE  \A k \in Crtcs : flip[k] = NoBuf
<1> SUFFICES ASSUME NEW k \in Crtcs, flip[k] # NoBuf PROVE FALSE
  OBVIOUS
<1>1. PICK c \in Devs : dev[c].crtc = k
  BY DEF FlipsAreFronts
<1>2. Flipping(c)
  BY <1>1, ModesetAssumption DEF Flipping
<1> QED
  BY <1>2 DEF OneHappening

LEMMA PrepareInv ==
  ASSUME ModesetInv, Prepare
  PROVE  ModesetInv'
<1> DEFINE c == Head(todo)
<1>1. /\ phase = "prepare" /\ phase' = phase /\ todo # <<>> /\ todo' = Tail(todo)
      /\ shown' = shown /\ flip' = flip /\ events' = events /\ batch' = batch /\ broken' = broken
  BY DEF Prepare
<1>2. ModesetType /\ OwnCrtc /\ FlipsAreFronts /\ OneHappening /\ BackIsHidden /\ Lives /\ Phases /\ Shows
  BY DEF ModesetInv
<1>3. /\ c \in Devs /\ todo' \in Seq(Devs) /\ Once(todo') /\ ToSet(todo') \subseteq ToSet(todo)
      /\ c \in ToSet(todo) /\ c \notin ToSet(todo')
  BY <1>1, <1>2, HeadAndTail DEF ModesetType, Phases
<1>4. CASE UNCHANGED <<list, dev, buffers>>
  <2>1. ModesetType' /\ OwnCrtc' /\ FlipsAreFronts' /\ BackIsHidden' /\ Lives' /\ Shows'
    BY <1>1, <1>2, <1>3, <1>4 DEF ModesetType, OwnCrtc, FlipsAreFronts, BackIsHidden, Flipping, Lives, Shows
  <2>2. OneHappening' /\ Phases'
    BY <1>1, <1>2, <1>3, <1>4 DEF OneHappening, Flipping, Phases
  <2> QED
    BY <2>1, <2>2 DEF ModesetInv
<1>5. CASE SetupDev(c)
  <2>1. PICK k \in FindCrtc(c) : dev' = [dev EXCEPT ![c].crtc = k]
    BY <1>5 DEF SetupDev
  <2>2. k \in Crtcs /\ k # NoCrtc /\ \A d \in ToSet(list) : dev[d].crtc # k
    BY <1>2, <1>3, Found, ModesetAssumption
  <2>3. list' = <<c>> \o list /\ buffers' = buffers \cup BuffersOf(c)
    BY <1>5 DEF SetupDev, CreateFbs
  <2>4. /\ dev' \in [Devs -> Device]
        /\ \A d \in Devs \ {c} : dev'[d] = dev[d]
        /\ dev'[c].crtc = k /\ dev'[c].front = dev[c].front /\ dev'[c].pending = dev[c].pending
        /\ dev'[c].cleanup = dev[c].cleanup /\ dev'[c].freed = dev[c].freed
    BY <1>2, <1>3, <2>1, <2>2 DEF ModesetType, Device
  <2>5. /\ list' \in Seq(Devs) /\ ToSet(list') = {c} \cup ToSet(list) /\ Once(list') /\ c \notin ToSet(list)
    BY <1>1, <1>2, <1>3, <2>3, Prefixed DEF ModesetType, Lives, Phases
  <2>6. ModesetType'
    BY <1>1, <1>2, <1>3, <2>4, <2>5 DEF ModesetType
  <2>7. \A h \in Crtcs : flip[h] = NoBuf
    BY <1>1, <1>2, NoneFlips DEF Phases
  <2>8. \A d \in Devs : ~Flipping(d)' /\ ~Flipping(d)
    BY <1>1, <1>2, <2>4, <2>7 DEF Flipping, ModesetType, Device
  <2>9. OwnCrtc'
    BY <1>1, <1>2, <1>3, <2>2, <2>4 DEF OwnCrtc, Phases
  <2>10. FlipsAreFronts'
    BY <1>1, <2>7 DEF FlipsAreFronts
  <2>11. \A d \in Devs : dev'[d].pending = dev[d].pending /\ ~dev[d].pending
    BY <1>1, <1>2, <2>4 DEF Phases
  <2>12. OneHappening'
    BY <1>1, <1>2, <2>8, <2>11 DEF OneHappening
  <2>13. BackIsHidden'
    <3>1. \A d \in Devs : 1 - dev'[d].front \in {0, 1} /\ dev'[d].crtc \in Crtcs \cup {NoCrtc}
      BY <2>4 DEF Device
    <3> QED
      BY <1>1, <1>2, <3>1, BuffersOfDevice DEF BackIsHidden, Phases
  <2>14. Lives'
    <3>1. \A d \in Devs : dev'[d].cleanup = dev[d].cleanup /\ dev'[d].freed = dev[d].freed
      BY <2>4
    <3>2. \A d \in Devs : dev'[d].crtc # NoCrtc /\ ~dev'[d].freed => BuffersOf(d) \subseteq buffers'
      BY <1>2, <2>3, <2>4 DEF Lives
    <3>3. \A d \in ToSet(list') : dev'[d].crtc # NoCrtc /\ ~dev'[d].cleanup
      BY <1>1, <1>2, <1>3, <2>2, <2>4, <2>5, MembersOf DEF Lives, Phases, ModesetType
    <3> QED
      BY <1>1, <1>2, <2>5, <2>11, <3>1, <3>2, <3>3 DEF Lives
  <2>15. Phases'
    BY <1>1, <1>2, <1>3, <2>2, <2>4, <2>5, <2>11, MembersOf DEF Phases, ModesetType
  <2>16. Shows'
    BY <1>1, <1>2 DEF Shows, Phases
  <2> QED
    BY <2>6, <2>9, <2>10, <2>12, <2>13, <2>14, <2>15, <2>16 DEF ModesetInv
<1> QED
  BY <1>4, <1>5 DEF Prepare

LEMMA NextPhaseInv ==
  ASSUME ModesetInv,
         NextPhase("prepare", "set", list) \/ NextPhase("set", "draw", list) \/ NextPhase("draw", "loop", <<>>)
  PROVE  ModesetInv'
<1>1. ModesetType /\ OwnCrtc /\ FlipsAreFronts /\ OneHappening /\ BackIsHidden /\ Lives /\ Phases /\ Shows
  BY DEF ModesetInv
<1>2. UNCHANGED <<list, dev, buffers, shown, flip, events, batch, broken>>
  BY DEF NextPhase
<1>3. /\ phase \in {"prepare", "set", "draw"} /\ phase' \in {"set", "draw", "loop"} /\ todo' \in {list, <<>>}
      /\ phase' \in {"set", "draw"} => phase \in {"prepare", "set"} /\ todo' = list
  BY DEF NextPhase
<1>4. OwnCrtc' /\ FlipsAreFronts' /\ OneHappening' /\ BackIsHidden' /\ Lives' /\ Shows'
  BY <1>1, <1>2 DEF OwnCrtc, FlipsAreFronts, OneHappening, BackIsHidden, Flipping, Lives, Shows
<1>5. ModesetType'
  BY <1>1, <1>2, <1>3, EmptySeq DEF ModesetType
<1>6. Phases'
  BY <1>1, <1>2, <1>3, MembersOf DEF ModesetType, Lives, Phases
<1> QED
  BY <1>4, <1>5, <1>6 DEF ModesetInv

LEMMA SetCrtcInv ==
  ASSUME ModesetInv, SetCrtc
  PROVE  ModesetInv'
<1> DEFINE c == Head(todo)
<1>1. /\ phase = "set" /\ phase' = phase /\ todo # <<>> /\ todo' = Tail(todo)
      /\ UNCHANGED <<list, dev, buffers, flip, events, batch, broken>>
  BY DEF SetCrtc
<1>2. ModesetType /\ OwnCrtc /\ FlipsAreFronts /\ OneHappening /\ BackIsHidden /\ Lives /\ Phases /\ Shows
  BY DEF ModesetInv
<1>3. /\ c \in Devs /\ todo' \in Seq(Devs) /\ Once(todo') /\ ToSet(todo') \subseteq ToSet(todo) /\ c \in ToSet(todo)
  BY <1>1, <1>2, HeadAndTail DEF ModesetType, Phases
<1>4. /\ dev[c].crtc # NoCrtc /\ dev[c].crtc \in Crtcs /\ dev[c].front \in {0, 1} /\ ~dev[c].freed
      /\ \A d \in Devs : dev[d].crtc \in Crtcs \cup {NoCrtc} /\ dev[d].front \in {0, 1}
  BY <1>1, <1>2, <1>3 DEF ModesetType, Device, Lives, Phases
<1>5. /\ shown' \in [Crtcs -> Pictures \cup {NoBuf, Saved}]
      /\ shown'[dev[c].crtc] \in {shown[dev[c].crtc], <<c, dev[c].front>>}
      /\ \A k \in Crtcs : k # dev[c].crtc => shown'[k] = shown[k]
  <2>1. <<c, dev[c].front>> \in Pictures
    BY <1>3, <1>4 DEF Pictures
  <2> QED
    BY <1>2, <1>4, <2>1 DEF SetCrtc, ModesetType
<1>6. OwnCrtc' /\ FlipsAreFronts' /\ OneHappening' /\ Lives'
  BY <1>1, <1>2 DEF OwnCrtc, FlipsAreFronts, OneHappening, Flipping, Lives
<1>7. ModesetType'
  BY <1>1, <1>2, <1>3, <1>5 DEF ModesetType
<1>8. Phases'
  BY <1>1, <1>2, <1>3 DEF Phases
<1>9. BackIsHidden'
  <2> SUFFICES ASSUME NEW d \in Devs, dev[d].crtc # NoCrtc, ~Flipping(d)
               PROVE  shown'[dev[d].crtc] # <<d, 1 - dev[d].front>>
    BY <1>1 DEF BackIsHidden, Flipping
  <2>1. CASE d = c
    BY <1>2, <1>3, <1>4, <1>5, <2>1 DEF BackIsHidden
  <2>2. CASE d # c
    BY <1>2, <1>3, <1>4, <1>5, <2>2 DEF BackIsHidden, OwnCrtc
  <2> QED
    BY <2>1, <2>2
<1>10. Shows'
  <2>1. <<c, dev[c].front>> \in buffers
    BY <1>2, <1>3, <1>4, BuffersOfDevice DEF Lives
  <2> QED
    BY <1>1, <1>2, <1>5, <2>1 DEF Shows
<1> QED
  BY <1>6, <1>7, <1>8, <1>9, <1>10 DEF ModesetInv

LEMMA FirstDrawInv ==
  ASSUME ModesetInv, FirstDraw
  PROVE  ModesetInv'
<1>1. /\ phase = "draw" /\ phase' = phase /\ todo # <<>> /\ todo' = Tail(todo) /\ DrawDev(Head(todo))
      /\ UNCHANGED <<list, buffers, shown, events, batch, broken>>
  BY DEF FirstDraw
<1>2. ModesetType /\ OwnCrtc /\ FlipsAreFronts /\ OneHappening /\ BackIsHidden /\ Lives /\ Phases /\ Shows
  BY DEF ModesetInv
<1>3. PICK c \in Devs : c = Head(todo)
  BY <1>1, <1>2, HeadAndTail DEF ModesetType
<1>4. /\ todo' \in Seq(Devs) /\ Once(todo') /\ ToSet(todo') \subseteq ToSet(todo)
      /\ c \in ToSet(todo) /\ c \notin ToSet(todo')
  BY <1>1, <1>2, <1>3, HeadAndTail DEF ModesetType, Phases
<1>5. dev[c].crtc # NoCrtc /\ ~dev[c].pending /\ ~Flipping(c) /\ ~dev[c].freed
  BY <1>1, <1>2, <1>3, <1>4 DEF Phases, OneHappening, Lives
<1>6. /\ dev' \in [Devs -> Device] /\ flip' \in [Crtcs -> Pictures \cup {NoBuf}]
      /\ OwnCrtc' /\ FlipsAreFronts' /\ BackIsHidden'
      /\ \A d \in Devs : dev'[d].crtc = dev[d].crtc /\ dev'[d].cleanup = dev[d].cleanup /\ dev'[d].freed = dev[d].freed
      /\ \A d \in Devs : d # c => (Flipping(d)' <=> Flipping(d)) /\ dev'[d].pending = dev[d].pending
      /\ dev'[c].pending <=> Flipping(c)'
  BY <1>1, <1>2, <1>3, <1>4, <1>5, Drawn
<1>7. ModesetType' /\ Shows'
  BY <1>1, <1>2, <1>3, <1>4, <1>6 DEF ModesetType, Shows
<1>8. OneHappening'
  <2>1. Once(events') /\ Once(batch') /\ ToSet(events') \cap ToSet(batch') = {}
    BY <1>1, <1>2 DEF OneHappening
  <2>2. c \notin ToSet(events') \cup ToSet(batch')
    BY <1>1, <1>2, <1>3, <1>5 DEF OneHappening
  <2>3. \A d \in Devs : /\ Flipping(d)' => d \notin ToSet(events') \cup ToSet(batch')
                        /\ dev'[d].pending <=> Flipping(d)' \/ d \in ToSet(events') \cup ToSet(batch')
                        /\ dev'[d].pending => dev'[d].crtc # NoCrtc
    <3> SUFFICES ASSUME NEW d \in Devs
                 PROVE  /\ Flipping(d)' => d \notin ToSet(events') \cup ToSet(batch')
                        /\ dev'[d].pending <=> Flipping(d)' \/ d \in ToSet(events') \cup ToSet(batch')
                        /\ dev'[d].pending => dev'[d].crtc # NoCrtc
      OBVIOUS
    <3>1. CASE d = c
      BY <1>5, <1>6, <2>2, <3>1
    <3>2. CASE d # c
      BY <1>1, <1>2, <1>6, <3>2 DEF OneHappening
    <3> QED
      BY <3>1, <3>2
  <2> QED
    BY <2>1, <2>3 DEF OneHappening
<1>9. Lives'
  <2>1. ~broken => \A d \in Devs : dev'[d].freed => ~dev'[d].pending
    BY <1>2, <1>5, <1>6 DEF Lives
  <2>2. \A d \in ToSet(list) : d \in Devs
    BY <1>2, MembersOf DEF ModesetType
  <2> QED
    BY <1>1, <1>2, <1>6, <2>1, <2>2 DEF Lives
<1>10. Phases'
  BY <1>1, <1>2, <1>3, <1>4, <1>6, MembersOf DEF Phases, ModesetType
<1> QED
  BY <1>6, <1>7, <1>8, <1>9, <1>10 DEF ModesetInv

LEMMA VBlankInv ==
  ASSUME ModesetInv, NEW k \in Crtcs, VBlank(k)
  PROVE  ModesetInv'
<1>1. /\ flip[k] # NoBuf /\ UNCHANGED <<phase, todo, list, dev, buffers, batch, broken>>
      /\ shown' = [shown EXCEPT ![k] = flip[k]] /\ flip' = [flip EXCEPT ![k] = NoBuf]
      /\ events' = Append(events, flip[k][1])
  BY DEF VBlank
<1>2. ModesetType /\ OwnCrtc /\ FlipsAreFronts /\ OneHappening /\ BackIsHidden /\ Lives /\ Phases /\ Shows
  BY DEF ModesetInv
<1>3. PICK c \in Devs : dev[c].crtc = k /\ flip[k] = <<c, dev[c].front>>
  BY <1>1, <1>2 DEF FlipsAreFronts
<1>4. k # NoCrtc /\ Flipping(c) /\ dev[c].pending /\ c \notin ToSet(events) \cup ToSet(batch) /\ dev[c].front \in {0, 1}
  BY <1>1, <1>2, <1>3, ModesetAssumption DEF OneHappening, Flipping, ModesetType, Device
<1>5. /\ events' \in Seq(Devs) /\ ToSet(events') = ToSet(events) \cup {c} /\ Once(events')
  BY <1>1, <1>2, <1>3, <1>4, Appended DEF ModesetType, OneHappening
<1>6. /\ flip'[k] = NoBuf /\ shown'[k] = <<c, dev[c].front>>
      /\ \A h \in Crtcs \ {k} : flip'[h] = flip[h] /\ shown'[h] = shown[h]
      /\ flip' \in [Crtcs -> Pictures \cup {NoBuf}] /\ shown' \in [Crtcs -> Pictures \cup {NoBuf, Saved}]
  BY <1>1, <1>2, <1>3, <1>4 DEF ModesetType, Pictures
<1>7. /\ ~Flipping(c)'
      /\ \A d \in Devs : d # c /\ dev[d].crtc # NoCrtc => dev[d].crtc \in Crtcs \ {k}
      /\ \A d \in Devs : d # c => (Flipping(d)' <=> Flipping(d))
  <2>1. \A d \in Devs : d # c /\ dev[d].crtc # NoCrtc => dev[d].crtc \in Crtcs \ {k}
    BY <1>2, <1>3 DEF OwnCrtc, ModesetType, Device
  <2> QED
    BY <1>1, <1>3, <1>6, <2>1 DEF Flipping
<1>8. ModesetType' /\ OwnCrtc'
  BY <1>1, <1>2, <1>5, <1>6 DEF ModesetType, OwnCrtc
<1>9. FlipsAreFronts'
  BY <1>1, <1>2, <1>6 DEF FlipsAreFronts
<1>10. OneHappening'
  BY <1>1, <1>2, <1>4, <1>5, <1>7 DEF OneHappening
<1>11. BackIsHidden'
  <2> SUFFICES ASSUME NEW d \in Devs, dev[d].crtc # NoCrtc, ~Flipping(d)'
               PROVE  shown'[dev[d].crtc] # <<d, 1 - dev[d].front>>
    BY <1>1 DEF BackIsHidden
  <2>1. CASE d = c
    BY <1>3, <1>4, <1>6, <2>1
  <2>2. CASE d # c
    BY <1>2, <1>6, <1>7, <2>2 DEF BackIsHidden
  <2> QED
    BY <2>1, <2>2
<1>12. Lives'
  BY <1>1, <1>2 DEF Lives
<1>13. Phases'
  <2>1. phase # "prepare"
    BY <1>2, <1>3, <1>4 DEF Phases
  <2> QED
    BY <1>1, <1>2, <2>1 DEF Phases
<1>14. Shows'
  <2>1. ~broken => <<c, dev[c].front>> \in buffers
    BY <1>2, <1>3, <1>4, BuffersOfDevice DEF Lives
  <2> QED
    BY <1>1, <1>2, <1>6, <2>1 DEF Shows
<1> QED
  BY <1>8, <1>9, <1>10, <1>11, <1>12, <1>13, <1>14 DEF ModesetInv

LEMMA ReadEventsInv ==
  ASSUME ModesetInv, ReadEvents
  PROVE  ModesetInv'
<1>1. /\ batch = <<>> /\ batch' = events /\ events' = <<>> /\ phase \in {"loop", "wait"}
      /\ UNCHANGED <<phase, todo, list, dev, buffers, shown, flip, broken>>
  BY DEF ReadEvents
<1>2. ModesetType /\ OwnCrtc /\ FlipsAreFronts /\ OneHappening /\ BackIsHidden /\ Lives /\ Phases /\ Shows
  BY DEF ModesetInv
<1>3. ModesetType'
  BY <1>1, <1>2, EmptySeq DEF ModesetType
<1>4. OneHappening'
  <2>1. ToSet(batch) = {} /\ ToSet(events') = {} /\ Once(events') /\ ToSet(batch') = ToSet(events) /\ Once(batch')
    BY <1>1, <1>2, NoMembers DEF OneHappening
  <2> QED
    BY <1>1, <1>2, <2>1 DEF OneHappening, Flipping
<1>5. OwnCrtc' /\ FlipsAreFronts' /\ BackIsHidden' /\ Lives' /\ Phases' /\ Shows'
  BY <1>1, <1>2 DEF OwnCrtc, FlipsAreFronts, BackIsHidden, Flipping, Lives, Phases, Shows
<1> QED
  BY <1>3, <1>4, <1>5 DEF ModesetInv

LEMMA PageFlipEventInv ==
  ASSUME ModesetInv, PageFlipEvent
  PROVE  ModesetInv'
<1>1. /\ batch # <<>> /\ Handled(Head(batch)) /\ batch' = Tail(batch)
      /\ UNCHANGED <<phase, todo, list, buffers, shown, events, broken>>
  BY DEF PageFlipEvent
<1>2. ModesetType /\ OwnCrtc /\ FlipsAreFronts /\ OneHappening /\ BackIsHidden /\ Lives /\ Phases /\ Shows
  BY DEF ModesetInv
<1>3. PICK c \in Devs : c = Head(batch)
  BY <1>1, <1>2, HeadAndTail DEF ModesetType
<1>4. /\ batch' \in Seq(Devs) /\ Once(batch') /\ ToSet(batch) = {c} \cup ToSet(batch') /\ c \notin ToSet(batch')
  BY <1>1, <1>2, <1>3, HeadAndTail DEF ModesetType, OneHappening
<1>5. /\ dev[c].pending /\ dev[c].crtc # NoCrtc /\ dev[c].crtc \in Crtcs /\ ~Flipping(c)
      /\ c \notin ToSet(events) \cup ToSet(batch')
  BY <1>2, <1>4 DEF OneHappening, ModesetType, Device
<1>6. phase \notin {"prepare", "set", "draw"}
  BY <1>1, <1>2 DEF Phases
<1>7. /\ dev' \in [Devs -> Device] /\ flip' \in [Crtcs -> Pictures \cup {NoBuf}]
      /\ OwnCrtc' /\ FlipsAreFronts' /\ BackIsHidden'
      /\ \A d \in Devs : dev'[d].crtc = dev[d].crtc /\ dev'[d].cleanup = dev[d].cleanup /\ dev'[d].freed = dev[d].freed
      /\ \A d \in Devs : d # c => (Flipping(d)' <=> Flipping(d)) /\ dev'[d].pending = dev[d].pending
      /\ dev'[c].pending <=> Flipping(c)'
      /\ dev[c].freed => ~dev'[c].pending
  <2>1. CASE dev[c].cleanup
    <3>1. flip' = flip /\ dev' = [dev EXCEPT ![c].pending = FALSE]
      BY <1>1, <1>3, <2>1 DEF Handled
    <3>2. /\ dev' \in [Devs -> Device] /\ \A d \in Devs \ {c} : dev'[d] = dev[d]
          /\ dev'[c].crtc = dev[c].crtc /\ dev'[c].front = dev[c].front /\ dev'[c].pending = FALSE
          /\ dev'[c].cleanup = dev[c].cleanup /\ dev'[c].freed = dev[c].freed
      BY <1>2, <3>1 DEF ModesetType, Device
    <3>3. \A d \in Devs : /\ dev'[d].crtc = dev[d].crtc /\ dev'[d].front = dev[d].front
                          /\ dev'[d].cleanup = dev[d].cleanup /\ dev'[d].freed = dev[d].freed
      BY <3>2
    <3>4. \A d \in Devs : Flipping(d)' <=> Flipping(d)
      BY <3>1, <3>3 DEF Flipping
    <3>5. OwnCrtc' /\ FlipsAreFronts' /\ BackIsHidden'
      BY <1>1, <1>2, <3>1, <3>3, <3>4 DEF OwnCrtc, FlipsAreFronts, BackIsHidden
    <3> QED
      BY <1>2, <1>5, <3>1, <3>2, <3>3, <3>4, <3>5 DEF ModesetType
  <2>2. CASE ~dev[c].cleanup
    <3>1. DrawDev(c) /\ ~dev[c].freed
      BY <1>1, <1>2, <1>3, <2>2 DEF Handled, Lives
    <3> QED
      BY <1>1, <1>2, <1>5, <3>1, Drawn
  <2> QED
    BY <2>1, <2>2
<1>8. ModesetType' /\ Shows'
  BY <1>1, <1>2, <1>4, <1>7 DEF ModesetType, Shows
<1>9. OneHappening'
  <2>1. Once(events') /\ Once(batch') /\ ToSet(events') \cap ToSet(batch') = {}
    BY <1>1, <1>2, <1>4 DEF OneHappening
  <2>2. \A d \in Devs : /\ Flipping(d)' => d \notin ToSet(events') \cup ToSet(batch')
                        /\ dev'[d].pending <=> Flipping(d)' \/ d \in ToSet(events') \cup ToSet(batch')
                        /\ dev'[d].pending => dev'[d].crtc # NoCrtc
    <3> SUFFICES ASSUME NEW d \in Devs
                 PROVE  /\ Flipping(d)' => d \notin ToSet(events') \cup ToSet(batch')
                        /\ dev'[d].pending <=> Flipping(d)' \/ d \in ToSet(events') \cup ToSet(batch')
                        /\ dev'[d].pending => dev'[d].crtc # NoCrtc
      OBVIOUS
    <3>1. CASE d = c
      BY <1>1, <1>5, <1>7, <3>1
    <3>2. CASE d # c
      BY <1>1, <1>2, <1>4, <1>7, <3>2 DEF OneHappening
    <3> QED
      BY <3>1, <3>2
  <2> QED
    BY <2>1, <2>2 DEF OneHappening
<1>10. Lives'
  <2>1. ~broken => \A d \in Devs : dev'[d].freed => ~dev'[d].pending
    BY <1>2, <1>7 DEF Lives
  <2>2. \A d \in ToSet(list) : d \in Devs
    BY <1>2, MembersOf DEF ModesetType
  <2> QED
    BY <1>1, <1>2, <1>7, <2>1, <2>2 DEF Lives
<1>11. Phases'
  <2>1. todo # <<>> => Head(todo) \in Devs
    BY <1>2, HeadAndTail DEF ModesetType
  <2> QED
    BY <1>1, <1>2, <1>6, <1>7, <2>1 DEF Phases
<1> QED
  BY <1>7, <1>8, <1>9, <1>10, <1>11 DEF ModesetInv

LEMMA StopDrawingInv ==
  ASSUME ModesetInv, StopDrawing \/ Cleaned
  PROVE  ModesetInv'
<1>1. /\ phase' \in {"cleanup", "done"} /\ todo' \in {todo, <<>>}
      /\ UNCHANGED <<list, dev, buffers, shown, flip, events, batch, broken>>
  BY DEF StopDrawing, Cleaned
<1>2. ModesetType /\ OwnCrtc /\ FlipsAreFronts /\ OneHappening /\ BackIsHidden /\ Lives /\ Phases /\ Shows
  BY DEF ModesetInv
<1>3. ModesetType'
  BY <1>1, <1>2, EmptySeq DEF ModesetType
<1>4. Phases'
  BY <1>1 DEF Phases
<1>5. OwnCrtc' /\ FlipsAreFronts' /\ OneHappening' /\ BackIsHidden' /\ Lives' /\ Shows'
  BY <1>1, <1>2 DEF OwnCrtc, FlipsAreFronts, OneHappening, BackIsHidden, Flipping, Lives, Shows
<1> QED
  BY <1>3, <1>4, <1>5 DEF ModesetInv

LEMMA LeaveInv ==
  ASSUME ModesetInv, Leave
  PROVE  ModesetInv'
<1>1. /\ list # <<>> /\ list' = Tail(list) /\ phase' = "wait" /\ todo' = <<Head(list)>>
      /\ dev' = [dev EXCEPT ![Head(list)].cleanup = TRUE]
      /\ UNCHANGED <<buffers, shown, flip, events, batch, broken>>
  BY DEF Leave
<1>2. ModesetType /\ OwnCrtc /\ FlipsAreFronts /\ OneHappening /\ BackIsHidden /\ Lives /\ Phases /\ Shows
  BY DEF ModesetInv
<1>3. PICK c \in Devs : c = Head(list)
  BY <1>1, <1>2, HeadAndTail DEF ModesetType
<1>4. /\ list' \in Seq(Devs) /\ Once(list') /\ ToSet(list) = {c} \cup ToSet(list') /\ c \notin ToSet(list')
      /\ ToSet(list') \subseteq Devs
  BY <1>1, <1>2, <1>3, HeadAndTail, MembersOf DEF ModesetType, Lives
<1>5. dev[c].crtc # NoCrtc /\ ~dev[c].cleanup /\ ~dev[c].freed
  BY <1>2, <1>4 DEF Lives
<1>6. /\ dev' \in [Devs -> Device] /\ \A d \in Devs \ {c} : dev'[d] = dev[d]
      /\ dev'[c].crtc = dev[c].crtc /\ dev'[c].front = dev[c].front /\ dev'[c].pending = dev[c].pending
      /\ dev'[c].cleanup = TRUE /\ dev'[c].freed = dev[c].freed
  BY <1>1, <1>2, <1>3 DEF ModesetType, Device
<1>7. \A d \in Devs : /\ dev'[d].crtc = dev[d].crtc /\ dev'[d].front = dev[d].front
                      /\ dev'[d].pending = dev[d].pending /\ dev'[d].freed = dev[d].freed
  BY <1>6
<1>8. todo' = <<c>> /\ todo' \in Seq(Devs) /\ todo' # <<>> /\ Head(todo') = c
  BY <1>1, <1>3
<1>9. ModesetType'
  BY <1>1, <1>2, <1>4, <1>6, <1>8 DEF ModesetType
<1>10. \A d \in Devs : Flipping(d)' <=> Flipping(d)
  BY <1>1, <1>7 DEF Flipping
<1>11. OwnCrtc' /\ FlipsAreFronts' /\ BackIsHidden' /\ Shows'
  BY <1>1, <1>2, <1>7, <1>10 DEF OwnCrtc, FlipsAreFronts, BackIsHidden, Shows
<1>12. OneHappening'
  BY <1>1, <1>2, <1>7, <1>10 DEF OneHappening
<1>13. Lives'
  BY <1>1, <1>2, <1>4, <1>5, <1>6, <1>7 DEF Lives
<1>14. Phases'
  BY <1>1, <1>5, <1>6, <1>8 DEF Phases
<1> QED
  BY <1>9, <1>11, <1>12, <1>13, <1>14 DEF ModesetInv

\* A device that goes takes its buffers from the screens.
LEMMA Destroyed ==
  ASSUME ModesetInv, phase = "wait", NEW c \in Devs, c = Head(todo), Destroy(c, shown) \/ Destroy(c, [shown EXCEPT ![dev[c].crtc] = Saved]),
         dev[c].pending => broken', ~dev[c].pending => broken' = broken
  PROVE  ModesetInv'
<1>1. PICK screens \in {shown, [shown EXCEPT ![dev[c].crtc] = Saved]} : Destroy(c, screens)
  OBVIOUS
<1>2. /\ buffers' = buffers \ BuffersOf(c)
      /\ shown' = [k \in Crtcs |-> IF screens[k] \in BuffersOf(c) THEN NoBuf ELSE screens[k]]
      /\ dev' = [dev EXCEPT ![c].freed = TRUE]
      /\ phase' = "cleanup" /\ todo' = <<>>
      /\ UNCHANGED <<list, flip, events, batch>>
  BY <1>1 DEF Destroy
<1>3. ModesetType /\ OwnCrtc /\ FlipsAreFronts /\ OneHappening /\ BackIsHidden /\ Lives /\ Phases /\ Shows
  BY DEF ModesetInv
<1>4. dev[c].crtc # NoCrtc /\ dev[c].cleanup /\ dev[c].crtc \in Crtcs
  BY <1>3 DEF Phases, ModesetType, Device
<1>5. \A k \in Crtcs : screens[k] \in {shown[k], Saved}
  BY <1>1, <1>3, <1>4 DEF ModesetType
<1>6. \A k \in Crtcs : shown'[k] \in {shown[k], Saved, NoBuf} /\ shown'[k] \notin BuffersOf(c)
  BY <1>2, <1>5, BuffersOfDevice
<1>7. /\ dev' \in [Devs -> Device] /\ \A d \in Devs \ {c} : dev'[d] = dev[d]
      /\ dev'[c].crtc = dev[c].crtc /\ dev'[c].front = dev[c].front /\ dev'[c].pending = dev[c].pending
      /\ dev'[c].cleanup = dev[c].cleanup /\ dev'[c].freed = TRUE
  <2>1. dev \in [Devs -> Device] /\ dev' = [dev EXCEPT ![c].freed = TRUE]
    BY <1>2, <1>3 DEF ModesetType
  <2> QED
    BY <2>1 DEF Device
<1>8. \A d \in Devs : /\ dev'[d].crtc = dev[d].crtc /\ dev'[d].front = dev[d].front
                      /\ dev'[d].pending = dev[d].pending /\ dev'[d].cleanup = dev[d].cleanup
  BY <1>7
<1>9. ModesetType'
  <2>1. shown' \in [Crtcs -> Pictures \cup {NoBuf, Saved}]
    BY <1>2, <1>3, <1>5 DEF ModesetType
  <2> QED
    BY <1>2, <1>3, <1>7, <2>1, EmptySeq DEF ModesetType
<1>10. \A d \in Devs : Flipping(d)' <=> Flipping(d)
  BY <1>2, <1>8 DEF Flipping
<1>11. OwnCrtc' /\ FlipsAreFronts'
  BY <1>2, <1>3, <1>8, <1>10 DEF OwnCrtc, FlipsAreFronts
<1>12. OneHappening'
  BY <1>2, <1>3, <1>8, <1>10 DEF OneHappening
<1>13. BackIsHidden'
  <2> SUFFICES ASSUME NEW d \in Devs, dev[d].crtc # NoCrtc, ~Flipping(d)
               PROVE  shown'[dev[d].crtc] # <<d, 1 - dev[d].front>>
    BY <1>8, <1>10 DEF BackIsHidden
  <2>1. dev[d] \in Device
    BY <1>3 DEF ModesetType
  <2>2. dev[d].crtc \in Crtcs /\ 1 - dev[d].front \in {0, 1}
    BY <2>1 DEF Device
  <2> QED
    BY <1>3, <1>6, <2>2, BuffersOfDevice DEF BackIsHidden
<1>14. Lives'
  <2>1. \A d \in Devs : dev'[d].crtc # NoCrtc /\ ~dev'[d].freed => BuffersOf(d) \subseteq buffers'
    BY <1>2, <1>3, <1>7 DEF Lives, BuffersOf
  <2>2. ~broken' => \A d \in Devs : dev'[d].freed => ~dev'[d].pending
    BY <1>3, <1>7 DEF Lives
  <2>3. \A d \in ToSet(list) : d \in Devs
    BY <1>3, MembersOf DEF ModesetType
  <2>4. \A d \in Devs : dev'[d].freed => dev'[d].cleanup
    BY <1>3, <1>4, <1>7 DEF Lives
  <2> QED
    BY <1>2, <1>3, <1>8, <2>1, <2>2, <2>3, <2>4 DEF Lives
<1>15. Phases'
  BY <1>2 DEF Phases
<1>16. Shows'
  <2>1. ~broken' => ~broken
    OBVIOUS
  <2> QED
    BY <1>2, <1>3, <1>6, <2>1 DEF Shows
<1> QED
  BY <1>9, <1>11, <1>12, <1>13, <1>14, <1>15, <1>16 DEF ModesetInv

LEMMA WaitEndsInv ==
  ASSUME ModesetInv, WaitIsOver \/ WaitFails
  PROVE  ModesetInv'
<1>1. phase = "wait" /\ todo # <<>> /\ todo \in Seq(Devs)
  BY DEF WaitIsOver, WaitFails, ModesetInv, Phases, ModesetType
<1>2. PICK c \in Devs : c = Head(todo)
  BY <1>1, HeadAndTail
<1>3. Destroy(c, shown) \/ Destroy(c, [shown EXCEPT ![dev[c].crtc] = Saved])
  BY <1>2 DEF WaitIsOver, WaitFails
<1>4. (dev[c].pending => broken') /\ (~dev[c].pending => broken' = broken)
  BY <1>2 DEF WaitIsOver, WaitFails
<1> QED
  BY <1>1, <1>2, <1>3, <1>4, Destroyed

LEMMA ModesetStart == ModesetInit => ModesetInv
<1> SUFFICES ASSUME ModesetInit PROVE ModesetInv
  OBVIOUS
<1>1. /\ phase = "prepare" /\ todo = Connectors /\ list = <<>>
      /\ dev = [c \in Devs |-> Fresh]
      /\ buffers = {} /\ events = <<>> /\ batch = <<>> /\ broken = FALSE
      /\ shown = [k \in Crtcs |-> Saved] /\ flip = [k \in Crtcs |-> NoBuf]
  BY DEF ModesetInit
<1>2. ToSet(list) = {} /\ ToSet(events) = {} /\ ToSet(batch) = {} /\ Once(list) /\ Once(events) /\ Once(batch)
  BY <1>1, NoMembers
<1>3. Fresh \in Device
  BY DEF Fresh, Device
<1>4. \A c \in Devs : dev[c].crtc = NoCrtc /\ ~dev[c].pending /\ ~dev[c].cleanup /\ ~dev[c].freed
  BY <1>1 DEF Fresh
<1>5. ModesetType
  BY <1>1, <1>3, EmptySeq, ModesetAssumption DEF ModesetType
<1>6. OwnCrtc /\ FlipsAreFronts /\ BackIsHidden /\ Shows
  BY <1>1, <1>4 DEF OwnCrtc, FlipsAreFronts, BackIsHidden, Shows
<1>7. OneHappening
  BY <1>2, <1>4 DEF OneHappening, Flipping
<1>8. Lives
  BY <1>2, <1>4 DEF Lives
<1>9. Phases
  <2>1. \A c \in ToSet(todo) : c \in Devs
    BY <1>5, MembersOf DEF ModesetType
  <2>2. Once(todo)
    BY <1>1, ModesetAssumption DEF Once
  <2> QED
    BY <1>1, <1>2, <1>4, <2>1, <2>2 DEF Phases
<1> QED
  BY <1>5, <1>6, <1>7, <1>8, <1>9 DEF ModesetInv

LEMMA ModesetStep == ModesetInv /\ [ModesetNext]_drmVars => ModesetInv'
<1> SUFFICES ASSUME ModesetInv, [ModesetNext]_drmVars PROVE ModesetInv'
  OBVIOUS
<1>1. CASE Main
  BY <1>1, PrepareInv, NextPhaseInv, SetCrtcInv, FirstDrawInv, LeaveInv, WaitEndsInv, StopDrawingInv, PageFlipEventInv, ReadEventsInv DEF Main
<1>2. CASE StopDrawing
  BY <1>2, StopDrawingInv
<1>3. CASE WaitFails
  BY <1>3, WaitEndsInv
<1>4. CASE \E k \in Crtcs : VBlank(k)
  BY <1>4, VBlankInv
<1>5. CASE UNCHANGED drmVars
  <2>1. UNCHANGED <<phase, todo, list, dev, buffers, shown, flip, events, batch, broken>>
    BY <1>5 DEF drmVars
  <2>2. ModesetType /\ OwnCrtc /\ FlipsAreFronts /\ OneHappening /\ BackIsHidden /\ Lives /\ Phases /\ Shows
    BY DEF ModesetInv
  <2>3. ModesetType' /\ OwnCrtc' /\ FlipsAreFronts' /\ BackIsHidden' /\ Shows'
    BY <2>1, <2>2 DEF ModesetType, OwnCrtc, FlipsAreFronts, BackIsHidden, Flipping, Shows
  <2>4. OneHappening' /\ Lives' /\ Phases'
    BY <2>1, <2>2 DEF OneHappening, Flipping, Lives, Phases
  <2> QED
    BY <2>3, <2>4 DEF ModesetInv
<1> QED
  BY <1>1, <1>2, <1>3, <1>4, <1>5 DEF ModesetNext

-----------------------------------------------------------------------------
(* What the invariant says of the program.                                    *)

LEMMA DrawingIsHidden == ModesetInv => NoDrawingOnScreen
<1> SUFFICES ASSUME ModesetInv PROVE NoDrawingOnScreen
  OBVIOUS
<1>1. ModesetType /\ OwnCrtc /\ FlipsAreFronts /\ OneHappening /\ BackIsHidden
  BY DEF ModesetInv
<1>2. \A c, d \in Alive : c # d => dev[c].crtc # dev[d].crtc
  BY <1>1 DEF Alive, OwnCrtc
<1>3. ASSUME NEW c \in Alive, ~dev[c].pending
      PROVE  Back(c) \notin {shown[dev[c].crtc], flip[dev[c].crtc]}
  <2>1. c \in Devs /\ dev[c].crtc # NoCrtc /\ dev[c] \in Device
    BY <1>1 DEF Alive, ModesetType
  <2>2. ~Flipping(c)
    BY <1>1, <1>3, <2>1 DEF OneHappening
  <2>3. 1 - dev[c].front \in {0, 1}
    BY <2>1 DEF Device
  <2>4. Back(c) # NoBuf
    BY <2>1, <2>3, BuffersOfDevice DEF Back
  <2> QED
    BY <1>1, <2>1, <2>2, <2>4 DEF BackIsHidden, Back, Flipping
<1> QED
  BY <1>2, <1>3 DEF NoDrawingOnScreen

\* A sequence in which nothing is twice has each member once.
LEMMA OnceCounts ==
  ASSUME NEW S, NEW s \in Seq(S), Once(s), NEW x
  PROVE  Cardinality({k \in 1..Len(s) : s[k] = x}) = IF x \in ToSet(s) THEN 1 ELSE 0
<1>1. DOMAIN s = 1..Len(s)
  BY LenProperties
<1>2. CASE x \in ToSet(s)
  <2>1. PICK i \in DOMAIN s : s[i] = x
    BY <1>2 DEF ToSet
  <2>2. {k \in 1..Len(s) : s[k] = x} = {i}
    BY <1>1, <2>1 DEF Once
  <2> QED
    BY <1>2, <2>2, FS_Singleton
<1>3. CASE x \notin ToSet(s)
  <2>1. {k \in 1..Len(s) : s[k] = x} = {}
    BY <1>1, <1>3 DEF ToSet
  <2> QED
    BY <1>3, <2>1, FS_EmptySet
<1> QED
  BY <1>2, <1>3

LEMMA FlipCounts ==
  ASSUME ModesetInv, NEW c \in Devs
  PROVE  Cardinality({k \in Crtcs : flip[k] \in BuffersOf(c)}) = IF Flipping(c) THEN 1 ELSE 0
<1>1. ModesetType /\ OwnCrtc /\ FlipsAreFronts
  BY DEF ModesetInv
<1>2. \A k \in Crtcs : flip[k] \in BuffersOf(c) => dev[c].crtc = k /\ flip[k] # NoBuf
  <2> SUFFICES ASSUME NEW k \in Crtcs, flip[k] \in BuffersOf(c) PROVE dev[c].crtc = k /\ flip[k] # NoBuf
    OBVIOUS
  <2>1. flip[k] # NoBuf
    BY BuffersOfDevice
  <2>2. PICK d \in Devs : dev[d].crtc = k /\ flip[k] = <<d, dev[d].front>>
    BY <1>1, <2>1 DEF FlipsAreFronts
  <2>3. <<d, dev[d].front>> \in BuffersOf(c)
    BY <2>2
  <2>4. d = c
    BY <2>3 DEF BuffersOf
  <2> QED
    BY <2>1, <2>2, <2>4
<1>3. CASE Flipping(c)
  <2>1. dev[c].crtc \in Crtcs /\ flip[dev[c].crtc] # NoBuf
    BY <1>1, <1>3 DEF Flipping, ModesetType, Device
  <2>2. PICK d \in Devs : dev[d].crtc = dev[c].crtc /\ flip[dev[c].crtc] = <<d, dev[d].front>>
    BY <1>1, <2>1 DEF FlipsAreFronts
  <2>3. d = c /\ dev[c].front \in {0, 1}
    BY <1>1, <1>3, <2>2 DEF OwnCrtc, Flipping, ModesetType, Device
  <2>4. flip[dev[c].crtc] \in BuffersOf(c)
    BY <2>2, <2>3, BuffersOfDevice
  <2>5. {k \in Crtcs : flip[k] \in BuffersOf(c)} = {dev[c].crtc}
    BY <1>2, <2>1, <2>4
  <2> QED
    BY <1>3, <2>5, FS_Singleton
<1>4. CASE ~Flipping(c)
  <2>1. {k \in Crtcs : flip[k] \in BuffersOf(c)} = {}
    BY <1>2, <1>4, ModesetAssumption DEF Flipping
  <2> QED
    BY <1>4, <2>1, FS_EmptySet
<1> QED
  BY <1>3, <1>4

LEMMA EventsAreCounted == ModesetInv => EventsAreOfTheLiving
<1> SUFFICES ASSUME ModesetInv, ~broken, NEW c \in Devs
             PROVE  /\ Happens(c) = IF dev[c].pending THEN 1 ELSE 0
                    /\ dev[c].freed => ~dev[c].pending
  BY DEF EventsAreOfTheLiving
<1>1. ModesetType /\ OneHappening /\ Lives
  BY DEF ModesetInv
<1>2. Cardinality({k \in Crtcs : flip[k] \in BuffersOf(c)}) = IF Flipping(c) THEN 1 ELSE 0
  BY FlipCounts
<1>3. Cardinality({k \in 1..Len(events) : events[k] = c}) = IF c \in ToSet(events) THEN 1 ELSE 0
  BY <1>1, OnceCounts DEF ModesetType, OneHappening
<1>4. Cardinality({k \in 1..Len(batch) : batch[k] = c}) = IF c \in ToSet(batch) THEN 1 ELSE 0
  BY <1>1, OnceCounts DEF ModesetType, OneHappening
<1>5. Happens(c) = IF dev[c].pending THEN 1 ELSE 0
  <2>1. /\ dev[c].pending <=> Flipping(c) \/ c \in ToSet(events) \/ c \in ToSet(batch)
        /\ ~(Flipping(c) /\ c \in ToSet(events)) /\ ~(Flipping(c) /\ c \in ToSet(batch))
        /\ ~(c \in ToSet(events) /\ c \in ToSet(batch))
    BY <1>1 DEF OneHappening
  <2> QED
    BY <1>2, <1>3, <1>4, <2>1 DEF Happens
<1> QED
  BY <1>1, <1>5 DEF Lives

\* Modeset: for any connectors, encoders and controllers, whatever flips the kernel
\* refuses and whenever it reports them, no device is drawn into what a controller
\* shows or is about to show, exactly one flip or event is under way for a device
\* that waits and none for a device that was freed, and what is scanned out exists.
THEOREM ModesetCorrect == ModesetSpec => []ModesetIsSafe
<1>1. ModesetInit => ModesetInv
  BY ModesetStart
<1>2. ModesetInv /\ [ModesetNext]_drmVars => ModesetInv'
  BY ModesetStep
<1>3. ModesetInv => ModesetIsSafe
  BY DrawingIsHidden, EventsAreCounted DEF ModesetInv, ModesetIsSafe, Shows, ScreensExist
<1> QED
  BY <1>1, <1>2, <1>3, PTL DEF ModesetSpec
=============================================================================
