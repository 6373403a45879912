---------------------------- MODULE FrameExchange ----------------------------
(***************************************************************************)
(* gralloc_wayland: SurfaceFlinger draws the frames of a display into two  *)
(* buffers, and a Wayland client in another process attaches them to its   *)
(* surface.  A word per buffer, in memory that both map, holds the state   *)
(* of the buffer and the display it belongs to.  Nothing locks a word: it  *)
(* is read, changed and written back, and each of these steps is an action.*)
(*                                                                         *)
(* The compositor is external: it takes a committed buffer and answers     *)
(* with the frame callback.  One display is modelled; the buffers of the   *)
(* other one have words of their own.                                      *)
(***************************************************************************)
EXTENDS Naturals

CONSTANT Retries  \* how often gralloc_lock looks again: 10

ASSUME RetriesAssumption == Retries \in Nat

Buffers == {0, 1}

VARIABLES
    word,       \* bufferStates: the state and the display of each buffer
    sf,         \* SurfaceFlinger: in gralloc_lock, drawing, in fb_post_ext
    client,     \* the thread that dispatches the frame queue
    lastBuffer, \* the buffer attached last
    dummyFlag,  \* its frame was attached only to get a first callback
    pending,    \* the compositor owes the frame callback of the last commit
    redrawn,    \* buffers locked and drawn since they were attached
    overridden, \* buffers whose last lock did not wait any longer
    running     \* cleared by SIGINT

vars == <<word, sf, client, lastBuffer, dummyFlag, pending, redrawn, overridden, running>>

\* The memory is zeroed: neither a state nor a display.
Zero == [state |-> "zero", display |-> FALSE]

Init ==
    /\ word = [b \in Buffers |-> Zero]
    /\ sf = [pc |-> "idle", buf |-> 0, retries |-> 0, read |-> Zero]
    /\ client = [pc |-> "start", read |-> Zero, seen |-> {}]
    /\ lastBuffer = 0
    /\ dummyFlag = FALSE
    /\ pending = FALSE
    /\ redrawn = {}
    /\ overridden = {}
    /\ running = TRUE

\* Mutant of SetState: the rest of the word is not kept.
SetStateOnly(w, s) == [state |-> s, display |-> FALSE]

\* setBufferState and setBufferDisplay: what is written back of a word read.
SetState(w, s) == [w EXCEPT !.state = s]
SetDisplay(w)  == [w EXCEPT !.display = TRUE]

(***************************************************************************)
(* SurfaceFlinger: gralloc_lock, drawing, hwc_set and its fb_post_ext.     *)
(***************************************************************************)
SFStep(pc) == /\ sf.pc = pc
              /\ UNCHANGED <<client, lastBuffer, dummyFlag, pending, running>>

Lock(b) ==
    /\ SFStep("idle")
    /\ sf' = [sf EXCEPT !.pc = "lock", !.buf = b, !.retries = 0]
    /\ UNCHANGED <<word, redrawn, overridden>>

\* Mutant of MayLock: a buffer that is to be shown may be locked too.
MayLockPosted(s) == s \in {"idle", "shown", "drawing", "scaning"}

MayLock(s) == s \in {"idle", "shown", "drawing"}

\* Mutant of LockTry: the retries are not counted.
LockTryForEver ==
    /\ SFStep("lock")
    /\ IF MayLock(word[sf.buf].state)
       THEN /\ sf' = [sf EXCEPT !.pc = "mark"]
            /\ overridden' = overridden \ {sf.buf}
       ELSE /\ sf' = [sf EXCEPT !.retries = 1 - @]
            /\ UNCHANGED overridden
    /\ UNCHANGED <<word, redrawn>>

LockTry ==
    /\ SFStep("lock")
    /\ IF MayLock(word[sf.buf].state)
       THEN /\ sf' = [sf EXCEPT !.pc = "mark"]
            /\ overridden' = overridden \ {sf.buf}
       ELSE IF sf.retries < Retries
            THEN /\ sf' = [sf EXCEPT !.retries = @ + 1]
                 /\ UNCHANGED overridden
            ELSE /\ sf' = [sf EXCEPT !.pc = "mark"]
                 /\ overridden' = overridden \cup {sf.buf}
    /\ UNCHANGED <<word, redrawn>>

\* The first half of a read-modify-write.
Read(pc, next) ==
    /\ SFStep(pc)
    /\ sf' = [sf EXCEPT !.pc = next, !.read = word[sf.buf]]
    /\ UNCHANGED <<word, redrawn, overridden>>

LockRead == Read("mark", "marking")

LockWrite ==
    /\ SFStep("marking")
    /\ word' = [word EXCEPT ![sf.buf] = SetState(sf.read, "drawing")]
    /\ redrawn' = redrawn \cup {sf.buf}
    /\ sf' = [sf EXCEPT !.pc = "draw"]
    /\ UNCHANGED overridden

\* fb_post_ext gives the buffer to the display before it posts it.
DisplayRead == ~ word[sf.buf].display /\ Read("draw", "displaying")

DisplayWrite ==
    /\ SFStep("displaying")
    /\ word' = [word EXCEPT ![sf.buf] = SetDisplay(sf.read)]
    /\ sf' = [sf EXCEPT !.pc = "draw"]
    /\ UNCHANGED <<redrawn, overridden>>

PostRead == word[sf.buf].display /\ Read("draw", "posting")

PostWrite ==
    /\ SFStep("posting")
    /\ word' = [word EXCEPT ![sf.buf] = SetState(sf.read, "scaning")]
    /\ sf' = [sf EXCEPT !.pc = "idle"]
    /\ UNCHANGED <<redrawn, overridden>>

Locking == LockTry \/ LockRead \/ LockWrite

Posting == DisplayRead \/ DisplayWrite \/ PostRead \/ PostWrite

SurfaceFlinger == (\E b \in Buffers : Lock(b)) \/ Locking \/ Posting

(***************************************************************************)
(* The Wayland client: main up to the thread, dispatchFrame and onDrawn.   *)
(***************************************************************************)
ClientStep(pc) == client.pc = pc /\ UNCHANGED <<sf, overridden, running>>

\* getSharedIndexs waits until both buffers belong to the display.
SharedIndexs == \A b \in Buffers : word[b].display

CreateWindow ==
    /\ ClientStep("start")
    /\ SharedIndexs
    /\ client' = [client EXCEPT !.pc = "first"]
    /\ UNCHANGED <<word, lastBuffer, dummyFlag, pending, redrawn>>

\* Attach, damage, request of a frame callback and commit.
Attach(b) ==
    /\ lastBuffer' = b
    /\ pending' = TRUE
    /\ redrawn' = redrawn \ {b}
    /\ client' = [client EXCEPT !.pc = "loop", !.seen = {}]
    /\ UNCHANGED word

DrawFirst ==
    /\ ClientStep("first")
    /\ Attach(lastBuffer)
    /\ dummyFlag' = TRUE

\* The loop of dispatchFrame tests running before it waits for an event.
DispatchFrame ==
    /\ ClientStep("loop")
    /\ client' = [client EXCEPT !.pc = IF running THEN "dispatch" ELSE "exited"]
    /\ UNCHANGED <<word, lastBuffer, dummyFlag, pending, redrawn>>

\* The connection to the compositor is lost.
DispatchFails ==
    /\ client.pc = "dispatch"
    /\ client' = [client EXCEPT !.pc = "loop"]
    /\ running' = FALSE
    /\ UNCHANGED <<word, sf, lastBuffer, dummyFlag, pending, redrawn, overridden>>

\* The frame callback: the last buffer has been shown, unless it was the dummy.
OnDrawn ==
    /\ ClientStep("dispatch") /\ pending
    /\ pending' = FALSE
    /\ client' = IF dummyFlag
                 THEN [client EXCEPT !.pc = "scan0"]
                 ELSE [client EXCEPT !.pc = "showing", !.read = word[lastBuffer]]
    /\ UNCHANGED <<word, lastBuffer, dummyFlag, redrawn>>

ShownWrite ==
    /\ ClientStep("showing")
    /\ word' = [word EXCEPT ![lastBuffer] = SetState(client.read, "shown")]
    /\ client' = [client EXCEPT !.pc = "scan0"]
    /\ UNCHANGED <<lastBuffer, dummyFlag, pending, redrawn>>

Scaning(b) == IF word[b].state = "scaning" THEN {b} ELSE {}

\* Wait until at least one buffer is scanning: the two are looked at in turn.
Scan0 ==
    /\ ClientStep("scan0")
    /\ client' = [client EXCEPT !.pc = "scan1", !.seen = Scaning(0)]
    /\ UNCHANGED <<word, lastBuffer, dummyFlag, pending, redrawn>>

\* Mutant of Scan1: it does not wait.
Scan1Once ==
    /\ ClientStep("scan1")
    /\ client' = [client EXCEPT !.seen = client.seen \cup Scaning(1), !.pc = "attach"]
    /\ UNCHANGED <<word, lastBuffer, dummyFlag, pending, redrawn>>

Scan1 ==
    /\ ClientStep("scan1")
    /\ LET seen == client.seen \cup Scaning(1) IN
       client' = [client EXCEPT !.seen = seen,
                                !.pc = IF seen = {} THEN "scan0" ELSE "attach"]
    /\ UNCHANGED <<word, lastBuffer, dummyFlag, pending, redrawn>>

\* Mutant of Current: of two buffers, the one attached last.
CurrentAgain(seen) == {b \in seen : seen = Buffers => b = lastBuffer}

\* The buffer that is scanning; of two, the one not attached last.
Current(seen) == {b \in seen : seen = Buffers => b # lastBuffer}

DrawNext ==
    /\ ClientStep("attach")
    /\ \E b \in Current(client.seen) : Attach(b)
    /\ dummyFlag' = FALSE

\* SIGINT, or the main thread loses the connection.
SignalInt ==
    /\ running /\ client.pc # "start" /\ client.pc # "first"
    /\ running' = FALSE
    /\ UNCHANGED <<word, sf, client, lastBuffer, dummyFlag, pending, redrawn, overridden>>

Presenting == \/ CreateWindow \/ DrawFirst \/ DispatchFrame \/ DispatchFails
              \/ OnDrawn \/ ShownWrite \/ Scan0 \/ Scan1 \/ DrawNext

Next == SurfaceFlinger \/ Presenting \/ SignalInt

\* A call of gralloc_lock or fb_post_ext goes on; so does the client, and the
\* compositor answers.  SurfaceFlinger need not draw another frame.
Fairness == WF_vars(Locking) /\ WF_vars(Posting) /\ WF_vars(Presenting)

Spec == Init /\ [][Next]_vars /\ Fairness
-----------------------------------------------------------------------------
Words == [state : {"zero", "drawing", "scaning", "shown"}, display : BOOLEAN]

FrameTypeOK ==
    /\ word \in [Buffers -> Words]
    /\ sf \in [pc : {"idle", "lock", "mark", "marking", "draw", "displaying", "posting"},
               buf : Buffers, retries : 0..Retries, read : Words]
    /\ client \in [pc : {"start", "first", "loop", "dispatch", "showing", "scan0",
                         "scan1", "attach", "exited"},
                   read : Words, seen : SUBSET Buffers]
    /\ client.pc = "attach" => client.seen # {}
    /\ lastBuffer \in Buffers
    /\ dummyFlag \in BOOLEAN
    /\ pending \in BOOLEAN
    /\ redrawn \subseteq Buffers
    /\ overridden \subseteq Buffers
    /\ running \in BOOLEAN

\* SurfaceFlinger draws into a buffer that the compositor is taking only when
\* its gralloc_lock has given up waiting.
Drawing(b) == sf.buf = b /\ sf.pc \in {"draw", "displaying", "posting"}

NoTearing ==
    \A b \in Buffers : Drawing(b) /\ pending /\ lastBuffer = b => b \in overridden

\* A frame that has been posted is marked as shown although it was never attached
\* only when gralloc_lock had overridden the showing of the frame before it.
FrameLostOnlyByOverride ==
    [][ShownWrite /\ lastBuffer \in redrawn => lastBuffer \in overridden]_vars

\* No read-modify-write of one process undoes the other's: a buffer that has been
\* given to a display stays with it.
DisplayIsKept ==
    [][\A b \in Buffers : word[b].display => word'[b].display]_vars

\* gralloc_lock returns although the client may be gone.
LockReturns == sf.pc = "lock" ~> sf.pc = "draw"

\* While the client runs, a posted frame is shown or drawn over: neither buffer is
\* passed over for ever.
PostedIsShown ==
    \A b \in Buffers :
        word[b].state = "scaning" /\ client.pc # "start"
            ~> word[b].state # "scaning" \/ ~ running
=============================================================================
