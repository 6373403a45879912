---------------------------- MODULE PlayerProofs ----------------------------
(***************************************************************************)
(* Proofs about Player, for every pool, file, queue size and set of        *)
(* controlled elements, and, in the second part, about PlayerDriver.       *)
(***************************************************************************)
EXTENDS PlayerDriver, FiniteSetTheorems, TLAPS

(***************************************************************************)
(* The inductive invariant.  It adds to the properties where a worker of   *)
(* each element can be (AtOwnPC), when it has a buffer in hand and of      *)
(* which kind, that a pending buffer is never overwritten (InHand), and    *)
(* the states between which a call is suspended (CallShape).               *)
(***************************************************************************)
OwnPC(e) ==
    {"none", "event", "take", "exited"} \cup
    (IF e = "demuxer" THEN {"route", "check", "push"}
     ELSE IF e = "videoDecoder" THEN {"decode", "write", "drain"}
     ELSE IF e = "audioDecoder" THEN {"decode", "check", "push", "drain"}
     ELSE {"state", "write", "drain"})

AtOwnPC == \A e \in Elements : pc[e] \in OwnPC(e)

Busy == {"route", "decode", "check", "push", "write"}

InHand ==
    \A e \in Elements :
        /\ held[e] # None <=> pc[e] \in Busy
        /\ pc[e] \in Busy \cup {"none", "drain", "exited"} => pending[e] = None
        /\ pc[e] \in Busy =>
              mem[held[e]].kind = IF e = "demuxer" \/ pc[e] = "decode"
                                  THEN "packet" ELSE "frame"

NotUsed == queue["demuxer"] = {} /\ pending["audioRender"] = None

CallShape ==
    /\ ctl.pc = "start" => state[ctl.elem] = "READY"
    /\ ctl.pc = "join"  => state[ctl.elem] = "PAUSED"

\* What the control thread and the workers agree on, and what is true of buffers.
ControlInv ==
    /\ CallShape /\ ThreadMatchesState /\ StopIsForThisThread
    /\ ReadsOpenFile /\ (state["demuxer"] # "IDLE" => engine = "open")

BufferInv == AtOwnPC /\ InHand /\ NotUsed /\ NoUseAfterFree /\ OneOwner /\ NoLeak

Inv == TypeOK /\ ControlInv /\ BufferInv

\* The invariant holds when no element has been prepared yet.
LEMMA InitInv == Init => Inv
<1> SUFFICES ASSUME Init PROVE Inv
  OBVIOUS
<1> USE DEF Init, NoCall, Elements, Streams, States, Free, Content, Live
<1>1. TypeOK
  BY PlayerAssumption DEF TypeOK, WorkerPC
<1>2. AtOwnPC /\ InHand /\ NotUsed /\ CallShape
  BY DEF AtOwnPC, OwnPC, InHand, Busy, NotUsed, CallShape
<1>3. ThreadMatchesState /\ StopIsForThisThread
  BY DEF ThreadMatchesState, StopIsForThisThread
<1>4. NoUseAfterFree /\ OneOwner /\ NoLeak
  BY PlayerAssumption DEF NoUseAfterFree, OneOwner, NoLeak
<1>5. ReadsOpenFile /\ (state["demuxer"] # "IDLE" => engine = "open")
  BY DEF ReadsOpenFile
<1> QED
  BY <1>1, <1>2, <1>3, <1>4, <1>5 DEF Inv, ControlInv, BufferInv

(***************************************************************************)
(* Facts about a busy worker, and about the moves of buffers and threads   *)
(* the actions have in common.                                             *)
(***************************************************************************)
LEMMA ElementOfFile ==
    ASSUME NEW S, NEW s \in Seq(S), NEW i \in 1 .. Len(s)
    PROVE  s[i] \in S
  OBVIOUS

\* What a busy worker has in hand is its own.
LEMMA HandFacts ==
    ASSUME Inv, NEW e \in Elements, pc[e] \in Busy
    PROVE  /\ held[e] \in Pool /\ held[e] # None
           /\ pending[e] = None
           /\ mem[held[e]] # Free
           /\ \A f \in Elements : /\ held[e] \notin queue[f]
                                  /\ held[e] # pending[f]
                                  /\ f # e => held[e] # held[f]
<1> USE DEF Inv, BufferInv
<1>1. held[e] \in Pool /\ held[e] # None /\ pending[e] = None
  BY DEF InHand, TypeOK
<1>2. mem[held[e]] # Free
  BY <1>1 DEF NoUseAfterFree, Holds, Free
<1>3. \A f \in Elements : /\ held[e] \notin queue[f]
                          /\ held[e] # pending[f]
                          /\ f # e => held[e] # held[f]
  BY <1>1 DEF OneOwner
<1> QED
  BY <1>1, <1>2, <1>3

\* A worker that stays in its loop does not disturb the control thread.
LEMMA LoopKeepsControl ==
    ASSUME Inv, NEW e \in Elements, NEW l,
           pc[e] \notin {"none", "drain", "exited"},
           l \notin {"none", "drain", "exited"},
           pc' = [pc EXCEPT ![e] = l],
           UNCHANGED <<state, stops, engine, ctl>>
    PROVE  ControlInv'
<1> USE DEF Inv, TypeOK
<1>0. "demuxer" \in Elements
  BY DEF Elements
<1>1. CallShape' /\ ThreadMatchesState' /\ StopIsForThisThread'
  BY DEF ControlInv, CallShape, ThreadMatchesState, StopIsForThisThread
<1>2. ReadsOpenFile' /\ (state["demuxer"] # "IDLE" => engine = "open")'
  BY <1>0 DEF ControlInv, ReadsOpenFile
<1> QED
  BY <1>1, <1>2 DEF ControlInv

\* A worker that has nothing in hand moves to another point of its loop.
LEMMA StepKeepsBuffers ==
    ASSUME Inv, NEW e \in Elements, NEW l \in OwnPC(e) \ Busy,
           held[e] = None, 
           l \in {"none", "drain", "exited"} => pending[e] = None,
           pc' = [pc EXCEPT ![e] = l],
           UNCHANGED buffers
    PROVE  BufferInv'
<1> USE DEF Inv, TypeOK, BufferInv, buffers
<1>1. AtOwnPC' /\ NotUsed'
  BY DEF AtOwnPC, NotUsed
<1>2. InHand'
  BY DEF InHand, Busy
<1>3. NoUseAfterFree' /\ OneOwner' /\ NoLeak'
  BY DEF NoUseAfterFree, Holds, OneOwner, NoLeak, Live
<1> QED
  BY <1>1, <1>2, <1>3

\* A busy worker frees what it has in hand and starts over.
LEMMA FreeHand ==
    ASSUME Inv, NEW e \in Elements, pc[e] \in Busy,
           Release({held[e]}),
           held' = [held EXCEPT ![e] = None],
           pc' = [pc EXCEPT ![e] = "event"],
           UNCHANGED <<queue, pending>>
    PROVE  /\ BufferInv' /\ mem' \in [Pool -> Content]
           /\ held' \in [Elements -> Pool \cup {None}]
<1> USE DEF Inv
<1>h. /\ held[e] \in Pool /\ held[e] # None /\ pending[e] = None
     /\ \A f \in Elements : /\ held[e] \notin queue[f]
                            /\ held[e] # pending[f]
                            /\ f # e => held[e] # held[f]
  BY HandFacts
<1>m. /\ mem' \in [Pool -> Content] /\ mem'[held[e]] = Free
     /\ \A b \in Pool : b # held[e] => mem'[b] = mem[b]
  BY <1>h DEF Release, TypeOK, Content, Free, Streams
<1>t. held' \in [Elements -> Pool \cup {None}]
  BY DEF TypeOK
<1> USE DEF TypeOK, BufferInv
<1>1. AtOwnPC' /\ NotUsed'
  BY DEF AtOwnPC, OwnPC, NotUsed
<1>2. InHand'
  BY <1>h, <1>m DEF InHand, Busy
<1>3. NoUseAfterFree'
  <2> SUFFICES ASSUME NEW f \in Elements
               PROVE  /\ held'[f] = None \/ Holds(held[f], {"packet", "frame"})'
                      /\ pending'[f] = None \/ Holds(pending[f],
                                {IF f = "demuxer" THEN "packet" ELSE "frame"})'
                      /\ \A b \in queue'[f] :
                            Holds(b, {IF f = "audioRender" THEN "frame" ELSE "packet"})'
    BY DEF NoUseAfterFree
  <2>1. held'[f] = None \/ (held'[f] = held[f] /\ held[f] # held[e])
    BY <1>h
  <2>2. pending'[f] = pending[f] /\ queue'[f] = queue[f]
    OBVIOUS
  <2>3. \A b \in Pool : b # held[e] => mem'[b].kind = mem[b].kind
    BY <1>m
  <2>4. /\ held[f] = None \/ Holds(held[f], {"packet", "frame"})
        /\ pending[f] = None \/ Holds(pending[f],
                                {IF f = "demuxer" THEN "packet" ELSE "frame"})
        /\ \A b \in queue[f] :
              Holds(b, {IF f = "audioRender" THEN "frame" ELSE "packet"})
    BY DEF NoUseAfterFree
  <2>5. held[e] # pending[f] /\ held[e] \notin queue[f]
    BY <1>h
  <2> HIDE DEF Inv, TypeOK, BufferInv
  <2>6. held'[f] = None \/ Holds(held[f], {"packet", "frame"})'
    BY <2>1, <2>3, <2>4 DEF Holds
  <2>7. pending'[f] = None \/ Holds(pending[f],
                                {IF f = "demuxer" THEN "packet" ELSE "frame"})'
    BY <2>2, <2>3, <2>4, <2>5 DEF Holds
  <2>8. \A b \in queue'[f] :
            Holds(b, {IF f = "audioRender" THEN "frame" ELSE "packet"})'
    BY <2>2, <2>3, <2>4, <2>5 DEF Holds
  <2> QED
    BY <2>6, <2>7, <2>8
<1>4. OneOwner'
  BY <1>h DEF OneOwner
<1>5. NoLeak'
  BY <1>h, <1>m DEF NoLeak, Live
<1> QED
  BY <1>1, <1>2, <1>3, <1>4, <1>5, <1>m, <1>t

\* A refused buffer becomes the pending one.
LEMMA KeepPendingInv ==
    ASSUME Inv, NEW e \in {"demuxer", "audioDecoder"}, 
           pc[e] \in {"check", "push"}, KeepPending(e)
    PROVE  /\ BufferInv'
           /\ held' \in [Elements -> Pool \cup {None}]
           /\ pending' \in [Elements -> Pool \cup {None}]
<1> USE DEF Inv, KeepPending, Goto
<1>e. e \in Elements /\ "demuxer" \in Elements /\ "audioRender" \in Elements
  BY DEF Elements
<1>h. /\ held[e] \in Pool /\ held[e] # None /\ pending[e] = None
     /\ \A f \in Elements : /\ held[e] \notin queue[f]
                            /\ held[e] # pending[f]
                            /\ f # e => held[e] # held[f]
  BY <1>e, HandFacts DEF Busy
<1>k. mem[held[e]].kind = IF e = "demuxer" THEN "packet" ELSE "frame"
  BY <1>e DEF BufferInv, InHand, Busy
<1> USE DEF TypeOK, BufferInv
<1>t. /\ held' \in [Elements -> Pool \cup {None}]
      /\ pending' \in [Elements -> Pool \cup {None}]
  BY <1>e, <1>h
<1>1. AtOwnPC' /\ NotUsed'
  BY <1>e DEF AtOwnPC, OwnPC, NotUsed
<1>2. InHand'
  BY <1>e, <1>h DEF InHand, Busy
<1>3. NoUseAfterFree'
  BY <1>e, <1>h, <1>k DEF NoUseAfterFree, Holds
<1>4. OneOwner'
  BY <1>e, <1>h DEF OneOwner
<1>5. NoLeak'
  BY <1>e, <1>h DEF NoLeak, Live
<1> QED
  BY <1>1, <1>2, <1>3, <1>4, <1>5, <1>t

\* The pending buffer is taken in hand again.
LEMMA TakePendingInv ==
    ASSUME Inv, NEW e \in {"demuxer", "videoDecoder", "audioDecoder"},
           NEW l, l = IF e = "demuxer" THEN "route" ELSE Deliver(e),
           pc[e] = "take", TakePending(e), Goto(e, l)
    PROVE  /\ BufferInv'
           /\ held' \in [Elements -> Pool \cup {None}]
           /\ pending' \in [Elements -> Pool \cup {None}]
<1> USE DEF Inv, TypeOK, TakePending, Goto
<1>e. /\ e \in Elements /\ "demuxer" \in Elements /\ "audioRender" \in Elements
      /\ l \in Busy \ {"decode"} /\ l \in OwnPC(e)
  BY DEF Elements, Deliver, Busy, OwnPC
<1>h. pending[e] \in Pool /\ pending[e] # None /\ held[e] = None
  BY <1>e DEF BufferInv, InHand, Busy
<1>k. mem[pending[e]].kind = IF e = "demuxer" THEN "packet" ELSE "frame"
  BY <1>e, <1>h DEF BufferInv, NoUseAfterFree, Holds
<1>t. /\ held' \in [Elements -> Pool \cup {None}]
      /\ pending' \in [Elements -> Pool \cup {None}]
  BY <1>e, <1>h
<1> USE DEF BufferInv
<1>1. AtOwnPC' /\ NotUsed'
  BY <1>e DEF AtOwnPC, NotUsed
<1>2. InHand'
  BY <1>e, <1>h, <1>k DEF InHand, Busy
<1>3. NoUseAfterFree'
  BY <1>e, <1>h, <1>k DEF NoUseAfterFree, Holds
<1>4. OneOwner'
  BY <1>e, <1>h DEF OneOwner
<1>5. NoLeak'
  BY <1>e, <1>h DEF NoLeak, Live
<1> QED
  BY <1>1, <1>2, <1>3, <1>4, <1>5, <1>t

\* The earliest buffer of the worker's own queue is taken in hand.
LEMMA PopBufferInv ==
    ASSUME Inv, NEW e \in {"videoDecoder", "audioDecoder", "audioRender"},
           NEW l, l = IF e = "audioRender" THEN "write" ELSE "decode",
           pc[e] = "take", pending[e] = None, PopBuffer(e, l)
    PROVE  /\ BufferInv'
           /\ held' \in [Elements -> Pool \cup {None}]
           /\ queue' \in [Elements -> SUBSET Pool]
           /\ \E m \in {"event", l} : pc' = [pc EXCEPT ![e] = m]
           /\ UNCHANGED <<mem, pending>>
<1>e. /\ e \in Elements /\ "demuxer" \in Elements /\ "audioRender" \in Elements
      /\ l \in Busy /\ l \in OwnPC(e) /\ "event" \in OwnPC(e) \ Busy
      /\ e # "demuxer"
  BY DEF Elements, Busy, OwnPC
<1>h. held[e] = None
  BY <1>e DEF Inv, BufferInv, InHand, Busy
<1>1. CASE queue[e] = {}
  <2>1. pc' = [pc EXCEPT ![e] = "event"] /\ UNCHANGED buffers
    BY <1>1 DEF PopBuffer, Goto
  <2>2. BufferInv'
    BY <2>1, <1>e, <1>h, StepKeepsBuffers
  <2> QED
    BY <2>1, <2>2 DEF Inv, TypeOK, buffers
<1>2. CASE queue[e] # {}
  <2>1. PICK b \in queue[e] : /\ held' = [held EXCEPT ![e] = b]
                             /\ queue' = [queue EXCEPT ![e] = @ \ {b}]
    BY <1>2 DEF PopBuffer, Earliest
  <2>2. pc' = [pc EXCEPT ![e] = l] /\ UNCHANGED <<pending, mem>>
    BY <1>2 DEF PopBuffer, Goto
  <2> USE DEF Inv, TypeOK
  <2>3. b \in Pool /\ b # None
    BY <1>e, PlayerAssumption
  <2>4. mem[b].kind = IF e = "audioRender" THEN "frame" ELSE "packet"
    BY <1>e DEF BufferInv, NoUseAfterFree, Holds
  <2>5. /\ held' \in [Elements -> Pool \cup {None}]
        /\ queue' \in [Elements -> SUBSET Pool]
    BY <1>e, <2>1, <2>3
  <2> USE DEF BufferInv
  <2>6. AtOwnPC' /\ NotUsed'
    BY <1>e, <2>1, <2>2 DEF AtOwnPC, NotUsed
  <2>7. InHand'
    BY <1>e, <1>h, <2>1, <2>2, <2>3, <2>4 DEF InHand, Busy
  <2>8. NoUseAfterFree'
    BY <1>e, <2>1, <2>2, <2>3, <2>4 DEF NoUseAfterFree, Holds
  <2>9. OneOwner'
    BY <1>e, <1>h, <2>1, <2>2, <2>3 DEF OneOwner
  <2>10. NoLeak'
    BY <1>e, <1>h, <2>1, <2>2, <2>3 DEF NoLeak, Live
  <2> QED
    BY <2>2, <2>5, <2>6, <2>7, <2>8, <2>9, <2>10
<1> QED
  BY <1>1, <1>2

(***************************************************************************)
(* Every action preserves the invariant.                                   *)
(***************************************************************************)
\* The variables a step of a worker inside its loop leaves alone.
LEMMA LoopStep ==
    ASSUME Inv, BufferInv', NEW e \in Elements, NEW l \in WorkerPC,
           pc[e] \notin {"none", "drain", "exited"},
           l \notin {"none", "drain", "exited"},
           pc' = [pc EXCEPT ![e] = l],
           queue' \in [Elements -> SUBSET Pool],
           held' \in [Elements -> Pool \cup {None}],
           pending' \in [Elements -> Pool \cup {None}],
           mem' \in [Pool -> Content],
           pos' \in 0 .. Len(File), played' \in [Streams -> Nat],
           UNCHANGED <<state, stops, engine, ctl>>
    PROVE  Inv'
<1>1. TypeOK'
  BY DEF Inv, TypeOK
<1>2. ControlInv'
  BY LoopKeepsControl
<1> QED
  BY <1>1, <1>2 DEF Inv

\* pushBuffer reading the state of the next element: go on, or keep the buffer.
LEMMA CheckSinkInv ==
    ASSUME Inv, NEW e \in {"demuxer", "audioDecoder"}, CheckSink(e)
    PROVE  Inv'
<1>e. /\ e \in Elements /\ {"event", "push"} \subseteq WorkerPC
      /\ pc[e] = "check" 
  BY DEF Elements, WorkerPC, CheckSink
<1>u. UNCHANGED <<state, stops, engine, pos, played, ctl>>
  BY DEF CheckSink
<1>1. CASE Refuses(Sink(e))
  <2>1. KeepPending(e)
    BY <1>1 DEF CheckSink
  <2>2. /\ BufferInv' /\ held' \in [Elements -> Pool \cup {None}]
        /\ pending' \in [Elements -> Pool \cup {None}]
    BY <1>e, <2>1, KeepPendingInv
  <2>3. pc' = [pc EXCEPT ![e] = "event"] /\ UNCHANGED <<queue, mem>>
    BY <2>1 DEF KeepPending, Goto
  <2> QED
    BY <1>e, <1>u, <2>2, <2>3, LoopStep DEF Inv, TypeOK
<1>2. CASE ~Refuses(Sink(e))
  <2>1. pc' = [pc EXCEPT ![e] = "push"] /\ UNCHANGED buffers
    BY <1>2 DEF CheckSink, Goto
  <2>2. BufferInv'
    BY <1>e, <2>1 DEF Inv, TypeOK, BufferInv, AtOwnPC, OwnPC, InHand, Busy, NotUsed,
                      NoUseAfterFree, Holds, OneOwner, NoLeak, Live, buffers
  <2> QED
    BY <1>e, <1>u, <2>1, <2>2, LoopStep DEF Inv, TypeOK, buffers
<1> QED
  BY <1>1, <1>2

\* pushBuffer on a queue: one owner is exchanged for another, or the buffer is kept.
LEMMA PushInv ==
    ASSUME Inv, NEW e \in {"demuxer", "audioDecoder"}, Push(e)
    PROVE  Inv'
<1>e. /\ e \in Elements /\ "event" \in WorkerPC
      /\ "demuxer" \in Elements /\ "audioRender" \in Elements
      /\ Sink(e) \in Elements /\ Sink(e) # "demuxer"
      /\ e = "demuxer" <=> Sink(e) # "audioRender"
      /\ pc[e] = "push"
  BY DEF Sink, Elements, Push, WorkerPC
<1>u. UNCHANGED <<state, stops, engine, pos, played, ctl>>
  BY DEF Push
<1>1. CASE IsFull(queue[Sink(e)])
  <2>1. KeepPending(e)
    BY <1>1 DEF Push
  <2>2. /\ BufferInv' /\ held' \in [Elements -> Pool \cup {None}]
        /\ pending' \in [Elements -> Pool \cup {None}]
    BY <1>e, <2>1, KeepPendingInv
  <2>3. pc' = [pc EXCEPT ![e] = "event"] /\ UNCHANGED <<queue, mem>>
    BY <2>1 DEF KeepPending, Goto
  <2> QED
    BY <1>e, <1>u, <2>2, <2>3, LoopStep DEF Inv, TypeOK
<1>2. CASE ~IsFull(queue[Sink(e)])
  <2>1. /\ queue' = [queue EXCEPT ![Sink(e)] = @ \cup {held[e]}]
        /\ held' = [held EXCEPT ![e] = None]
        /\ pc' = [pc EXCEPT ![e] = "event"]
        /\ UNCHANGED <<pending, mem>>
    BY <1>2 DEF Push, Goto
  <2>h. /\ held[e] \in Pool /\ held[e] # None /\ pending[e] = None
        /\ \A f \in Elements : /\ held[e] \notin queue[f]
                               /\ held[e] # pending[f]
                               /\ f # e => held[e] # held[f]
    BY <1>e, HandFacts DEF Busy
  <2>k. mem[held[e]].kind = IF e = "demuxer" THEN "packet" ELSE "frame"
    BY <1>e DEF Inv, BufferInv, InHand, Busy
  <2>t. /\ held' \in [Elements -> Pool \cup {None}]
        /\ queue' \in [Elements -> SUBSET Pool]
    BY <1>e, <2>1, <2>h DEF Inv, TypeOK
  <2>2. BufferInv'
    <3> USE DEF Inv, TypeOK, BufferInv
    <3>1. AtOwnPC' /\ NotUsed'
      BY <1>e, <2>1 DEF AtOwnPC, OwnPC, NotUsed
    <3>2. InHand'
      BY <1>e, <2>1, <2>h DEF InHand, Busy
    <3>3. NoUseAfterFree'
      BY <1>e, <2>1, <2>h, <2>k DEF NoUseAfterFree, Holds
    <3>4. OneOwner'
      BY <1>e, <2>1, <2>h DEF OneOwner
    <3>5. NoLeak'
      <4> SUFFICES ASSUME NEW b \in Pool, mem[b] # Free
                   PROVE  \E f \in Elements : b \in queue'[f] \cup {held'[f], pending'[f]}
        BY <2>1 DEF NoLeak, Live
      <4>1. PICK f \in Elements : b \in queue[f] \cup {held[f], pending[f]}
        BY DEF NoLeak, Live
      <4>2. CASE b = held[e]
        BY <4>2, <1>e, <2>1
      <4>3. CASE b # held[e]
        <5>1. b \in queue'[f] \cup {held'[f], pending'[f]}
          BY <4>1, <4>3, <1>e, <2>1
        <5> QED
          BY <5>1
      <4> QED
        BY <4>2, <4>3
    <3> QED
      BY <3>1, <3>2, <3>3, <3>4, <3>5
  <2> QED
    BY <1>e, <1>u, <2>1, <2>2, <2>t, LoopStep DEF Inv, TypeOK
<1> QED
  BY <1>1, <1>2

\* The demuxer takes its pending packet or a packet in free memory.
LEMMA DemuxInv ==
    ASSUME Inv, Demux
    PROVE  Inv'
<1>e. /\ "demuxer" \in Elements /\ "audioRender" \in Elements
      /\ pc["demuxer"] = "take"
      /\ "event" \in WorkerPC /\ "route" \in WorkerPC
  BY DEF Elements, Demux, WorkerPC
<1>u. UNCHANGED <<state, stops, engine, played, ctl>>
  BY DEF Demux
<1>h. held["demuxer"] = None
  BY <1>e DEF Inv, BufferInv, InHand, Busy
<1>1. CASE TakePending("demuxer") /\ Goto("demuxer", "route") /\ UNCHANGED pos
  <2>1. /\ BufferInv' /\ held' \in [Elements -> Pool \cup {None}]
        /\ pending' \in [Elements -> Pool \cup {None}]
    BY <1>e, <1>1, TakePendingInv
  <2>2. pc' = [pc EXCEPT !["demuxer"] = "route"] /\ UNCHANGED <<queue, mem, pos>>
    BY <1>1 DEF TakePending, Goto
  <2> QED
    BY <1>e, <1>u, <2>1, <2>2, LoopStep DEF Inv, TypeOK
<1>2. CASE pending["demuxer"] = None /\ ReadPacket
  <2>1. PICK b \in Pool :
            /\ pos < Len(File)
            /\ mem[b] = Free
            /\ mem' = [mem EXCEPT ![b] = Packet(File[pos + 1])]
            /\ held' = [held EXCEPT !["demuxer"] = b]
            /\ pos' = pos + 1
            /\ Goto("demuxer", "route")
            /\ UNCHANGED <<queue, pending>>
    BY <1>2 DEF ReadPacket
  <2>2. pc' = [pc EXCEPT !["demuxer"] = "route"]
    BY <2>1 DEF Goto
  <2>3. /\ Packet(File[pos + 1]) \in Content /\ pos + 1 \in 0 .. Len(File)
        /\ Packet(File[pos + 1]).kind = "packet"
        /\ Packet(File[pos + 1]) # Free
    <3>1. /\ pos + 1 \in 1 .. Len(File) /\ pos + 1 \in 0 .. Len(File)
          /\ File[pos + 1] \in [stream : Streams, ts : Nat \ {0}]
      <4>1. Len(File) \in Nat /\ pos \in 0 .. Len(File)
        BY PlayerAssumption DEF Inv, TypeOK
      <4>2. pos + 1 \in 1 .. Len(File) /\ pos + 1 \in 0 .. Len(File)
        BY <4>1, <2>1
      <4> QED
        BY <4>2, PlayerAssumption, ElementOfFile
    <3> QED
      BY <3>1 DEF Packet, Content, Free
  <2>4. b # None /\ \A f \in Elements : /\ b \notin queue[f]
                                        /\ b # pending[f] /\ b # held[f]
    <3>1. mem[b].kind = "free"
      BY <2>1 DEF Free
    <3>2. b # None
      BY PlayerAssumption
    <3> QED
      BY <3>1, <3>2 DEF Inv, TypeOK, BufferInv, NoUseAfterFree, Holds
  <2>t. mem' \in [Pool -> Content] /\ held' \in [Elements -> Pool \cup {None}]
    BY <2>1, <2>3 DEF Inv, TypeOK
  <2>5. BufferInv'
    <3> USE DEF Inv, TypeOK, BufferInv
    <3>1. AtOwnPC' /\ NotUsed'
      BY <1>e, <2>1, <2>2 DEF AtOwnPC, OwnPC, NotUsed
    <3>2. InHand'
      BY <1>2, <1>e, <2>1, <2>2, <2>3, <2>4 DEF InHand, Busy
    <3>3. NoUseAfterFree'
      BY <1>e, <2>1, <2>3, <2>4 DEF NoUseAfterFree, Holds
    <3>4. OneOwner'
      BY <1>e, <2>1, <2>4 DEF OneOwner
    <3>5. NoLeak'
      <4> SUFFICES ASSUME NEW c \in Pool, mem'[c] # Free
                   PROVE  \E f \in Elements : c \in queue'[f] \cup {held'[f], pending'[f]}
        BY <2>1 DEF NoLeak, Live
      <4>1. CASE c = b
        BY <4>1, <1>e, <2>1
      <4>2. CASE c # b
        <5>1. PICK f \in Elements : c \in queue[f] \cup {held[f], pending[f]}
          BY <4>2, <2>1 DEF NoLeak, Live
        <5>2. c \in queue'[f] \cup {held'[f], pending'[f]}
          BY <5>1, <1>e, <1>h, <2>1, PlayerAssumption
        <5> QED
          BY <5>2
      <4> QED
        BY <4>1, <4>2
    <3> QED
      BY <3>1, <3>2, <3>3, <3>4, <3>5
  <2> QED
    BY <1>e, <1>u, <2>1, <2>2, <2>3, <2>5, <2>t, LoopStep DEF Inv, TypeOK
<1>3. CASE pending["demuxer"] = None /\ ReadFails
  <2>1. pc' = [pc EXCEPT !["demuxer"] = "event"] /\ UNCHANGED <<buffers, pos>>
    BY <1>3 DEF ReadFails, Goto
  <2>2. BufferInv'
    BY <1>e, <1>h, <2>1, StepKeepsBuffers DEF OwnPC, Busy
  <2> QED
    BY <1>e, <1>u, <2>1, <2>2, LoopStep DEF Inv, TypeOK, buffers
<1> QED
  BY <1>1, <1>2, <1>3 DEF Demux

\* The demuxer passes a packet on or frees it.
LEMMA RouteInv ==
    ASSUME Inv, Route
    PROVE  Inv'
<1>e. /\ "demuxer" \in Elements /\ pc["demuxer"] = "route"
      /\ "event" \in WorkerPC /\ "check" \in WorkerPC
  BY DEF Elements, Route, WorkerPC
<1>u. UNCHANGED <<state, stops, engine, pos, played, ctl>>
  BY DEF Route
<1>1. CASE Goto("demuxer", "check") /\ UNCHANGED buffers
  <2>1. pc' = [pc EXCEPT !["demuxer"] = "check"]
    BY <1>1 DEF Goto
  <2>2. BufferInv'
    BY <1>1, <1>e, <2>1 DEF Inv, TypeOK, BufferInv, AtOwnPC, OwnPC, InHand, Busy,
                NotUsed, NoUseAfterFree, Holds, OneOwner, NoLeak, Live, buffers
  <2> QED
    BY <1>1, <1>e, <1>u, <2>1, <2>2, LoopStep DEF Inv, TypeOK, buffers
<1>2. CASE /\ Release({held["demuxer"]})
           /\ held' = [held EXCEPT !["demuxer"] = None]
           /\ Goto("demuxer", "event")
           /\ UNCHANGED <<queue, pending>>
  <2>1. pc' = [pc EXCEPT !["demuxer"] = "event"]
    BY <1>2 DEF Goto
  <2>2. /\ BufferInv' /\ mem' \in [Pool -> Content]
        /\ held' \in [Elements -> Pool \cup {None}]
    BY <1>2, <1>e, <2>1, FreeHand DEF Busy
  <2> QED
    BY <1>2, <1>e, <1>u, <2>1, <2>2, LoopStep DEF Inv, TypeOK
<1> QED
  BY <1>1, <1>2 DEF Route

\* A decoder takes its pending frame or a packet from its queue.
LEMMA DecoderTakeInv ==
    ASSUME Inv, NEW e \in Decoders, DecoderTake(e)
    PROVE  Inv'
<1>e. /\ e \in Elements /\ e \in {"videoDecoder", "audioDecoder"}
      /\ pc[e] = "take"
      /\ Deliver(e) \in WorkerPC \ {"none", "drain", "exited"}
      /\ "event" \in WorkerPC /\ "decode" \in WorkerPC
  BY DEF Decoders, Elements, DecoderTake, WorkerPC, Deliver
<1>u. UNCHANGED <<state, stops, engine, pos, played, ctl>>
  BY DEF DecoderTake
<1>1. CASE TakePending(e) /\ Goto(e, Deliver(e))
  <2>1. /\ BufferInv' /\ held' \in [Elements -> Pool \cup {None}]
        /\ pending' \in [Elements -> Pool \cup {None}]
    BY <1>e, <1>1, TakePendingInv
  <2>2. pc' = [pc EXCEPT ![e] = Deliver(e)] /\ UNCHANGED <<queue, mem>>
    BY <1>1 DEF TakePending, Goto
  <2> QED
    BY <1>e, <1>u, <2>1, <2>2, LoopStep DEF Inv, TypeOK
<1>2. CASE pending[e] = None /\ PopBuffer(e, "decode")
  <2>1. /\ BufferInv' /\ held' \in [Elements -> Pool \cup {None}]
        /\ queue' \in [Elements -> SUBSET Pool]
        /\ \E m \in {"event", "decode"} : pc' = [pc EXCEPT ![e] = m]
        /\ UNCHANGED <<mem, pending>>
    BY <1>e, <1>2, PopBufferInv
  <2>2. PICK m \in {"event", "decode"} : pc' = [pc EXCEPT ![e] = m]
    BY <2>1
  <2>3. m \in WorkerPC \ {"none", "drain", "exited"}
    BY <1>e
  <2> QED
    BY <1>e, <1>u, <2>1, <2>2, <2>3, LoopStep DEF Inv, TypeOK
<1> QED
  BY <1>1, <1>2 DEF DecoderTake

\* Decoding turns the packet in hand into a frame, or frees it.
LEMMA DecodeInv ==
    ASSUME Inv, NEW e \in Decoders, Decode(e)
    PROVE  Inv'
<1>e. /\ e \in Elements /\ e # "demuxer" /\ e # "audioRender" /\ pc[e] = "decode"
      /\ Deliver(e) \in WorkerPC \ {"none", "drain", "exited"}
      /\ Deliver(e) \in (Busy \cap OwnPC(e)) \ {"decode"}
      /\ "event" \in WorkerPC /\ pc[e] \in Busy
  BY DEF Decoders, Elements, Decode, WorkerPC, Deliver, Busy, OwnPC
<1>u. UNCHANGED <<state, stops, queue, pending, engine, pos, played, ctl>>
  BY DEF Decode
<1>1. CASE /\ mem' = [mem EXCEPT ![held[e]] = [@ EXCEPT !.kind = "frame"]]
           /\ Goto(e, Deliver(e))
           /\ UNCHANGED held
  <2>1. pc' = [pc EXCEPT ![e] = Deliver(e)]
    BY <1>1 DEF Goto
  <2>h. /\ held[e] \in Pool /\ held[e] # None /\ pending[e] = None
        /\ \A f \in Elements : /\ held[e] \notin queue[f]
                               /\ held[e] # pending[f]
                               /\ f # e => held[e] # held[f]
    BY <1>e, HandFacts
  <2>2. mem' \in [Pool -> Content]
    BY <1>1, <2>h DEF Inv, TypeOK, Content
  <2>3. /\ mem'[held[e]].kind = "frame" /\ mem'[held[e]] # Free
        /\ \A b \in Pool : b # held[e] => mem'[b] = mem[b]
    <3>1. mem'[held[e]] = [mem[held[e]] EXCEPT !.kind = "frame"]
      BY <1>1, <2>h DEF Inv, TypeOK
    <3>2. mem[held[e]] \in Content
      BY <2>h DEF Inv, TypeOK
    <3>3. mem'[held[e]].kind = "frame"
      BY <3>1, <3>2 DEF Content
    <3>4. mem'[held[e]] # Free
      BY <3>3 DEF Free
    <3> QED
      BY <1>1, <3>3, <3>4 DEF Inv, TypeOK
  <2>4. BufferInv'
    <3> USE DEF Inv, TypeOK, BufferInv
    <3>1. AtOwnPC' /\ NotUsed'
      BY <1>e, <1>u, <2>1 DEF AtOwnPC, NotUsed
    <3>2. InHand'
      BY <1>1, <1>e, <1>u, <2>1, <2>h, <2>3 DEF InHand, Busy
    <3>3. NoUseAfterFree'
      <4>1. \A b \in Pool : b # held[e] => mem'[b].kind = mem[b].kind
        BY <2>3
      <4> QED
        BY <4>1, <1>1, <1>e, <1>u, <2>h, <2>3 DEF NoUseAfterFree, Holds
    <3>4. OneOwner'
      BY <1>1, <1>u DEF OneOwner
    <3>5. NoLeak'
      BY <1>1, <1>e, <1>u, <2>h, <2>3 DEF NoLeak, Live
    <3> QED
      BY <3>1, <3>2, <3>3, <3>4, <3>5
  <2> QED
    BY <1>1, <1>e, <1>u, <2>1, <2>2, <2>4, LoopStep DEF Inv, TypeOK
<1>2. CASE /\ Release({held[e]})
           /\ held' = [held EXCEPT ![e] = None]
           /\ Goto(e, "event")
  <2>1. pc' = [pc EXCEPT ![e] = "event"]
    BY <1>2 DEF Goto
  <2>2. /\ BufferInv' /\ mem' \in [Pool -> Content]
        /\ held' \in [Elements -> Pool \cup {None}]
    BY <1>2, <1>e, <1>u, <2>1, FreeHand
  <2> QED
    BY <1>e, <1>u, <2>1, <2>2, LoopStep DEF Inv, TypeOK
<1> QED
  BY <1>1, <1>2 DEF Decode

\* A device frees the frame it has written.
LEMMA WriteInv ==
    ASSUME Inv, NEW e \in {"videoDecoder", "audioRender"}, Write(e)
    PROVE  Inv'
<1>e. e \in Elements /\ pc[e] = "write" /\ pc[e] \in Busy /\ "event" \in WorkerPC
  BY DEF Elements, Write, WorkerPC, Busy
<1>u. UNCHANGED <<state, stops, queue, pending, engine, pos, ctl>>
  BY DEF Write
<1>1. pc' = [pc EXCEPT ![e] = "event"]
  BY DEF Write, Goto
<1>2. played' \in [Streams -> Nat]
  <2>1. held[e] \in Pool
    BY <1>e, HandFacts
  <2> QED
    BY <2>1 DEF Write, Inv, TypeOK, Content
<1>3. /\ BufferInv' /\ mem' \in [Pool -> Content]
      /\ held' \in [Elements -> Pool \cup {None}]
  BY <1>e, <1>u, <1>1, FreeHand DEF Write
<1> QED
  BY <1>e, <1>u, <1>1, <1>2, <1>3, LoopStep DEF Inv, TypeOK

\* The render reads its own state.
LEMMA CheckStateInv ==
    ASSUME Inv, CheckState
    PROVE  Inv'
<1>e. /\ "audioRender" \in Elements /\ pc["audioRender"] = "state"
      /\ {"event", "take"} \subseteq WorkerPC
      /\ {"event", "take"} \subseteq OwnPC("audioRender") \ Busy
  BY DEF Elements, CheckState, WorkerPC, OwnPC, Busy
<1>1. PICK l \in {"event", "take"} : pc' = [pc EXCEPT !["audioRender"] = l]
  BY DEF CheckState, Goto
<1>u. UNCHANGED <<state, stops, buffers, engine, pos, played, ctl>>
  BY DEF CheckState
<1>2. BufferInv'
  BY <1>e, <1>u, <1>1, StepKeepsBuffers DEF Inv, BufferInv, InHand, Busy
<1> QED
  BY <1>e, <1>u, <1>1, <1>2, LoopStep DEF Inv, TypeOK, buffers

\* The render takes a frame from its queue.
LEMMA RenderTakeInv ==
    ASSUME Inv, RenderTake
    PROVE  Inv'
<1>e. /\ "audioRender" \in Elements /\ pc["audioRender"] = "take"
      /\ pending["audioRender"] = None
      /\ {"event", "write"} \subseteq WorkerPC
  BY DEF Elements, RenderTake, WorkerPC, Inv, BufferInv, NotUsed
<1>u. UNCHANGED <<state, stops, engine, pos, played, ctl>>
  BY DEF RenderTake
<1>1. /\ BufferInv' /\ held' \in [Elements -> Pool \cup {None}]
      /\ queue' \in [Elements -> SUBSET Pool]
      /\ \E m \in {"event", "write"} : pc' = [pc EXCEPT !["audioRender"] = m]
      /\ UNCHANGED <<mem, pending>>
  BY <1>e, PopBufferInv DEF RenderTake
<1> QED
  BY <1>e, <1>u, <1>1, LoopStep DEF Inv, TypeOK

\* A stopped worker frees what is on its queue and then exits.
LEMMA DrainInv ==
    ASSUME Inv, NEW e \in Elements \ {"demuxer"}, Drain(e)
    PROVE  Inv'
<1>e. /\ e \in Elements /\ "demuxer" \in Elements /\ "audioRender" \in Elements
      /\ e # "demuxer" /\ pc[e] = "drain"
      /\ "exited" \in WorkerPC /\ "exited" \in OwnPC(e) \ Busy
  BY DEF Elements, Drain, WorkerPC, OwnPC, Busy
<1>u. UNCHANGED <<state, stops, engine, pos, played, ctl>>
  BY DEF Drain
<1>h. held[e] = None /\ pending[e] = None
  BY <1>e DEF Inv, BufferInv, InHand, Busy
<1>1. CASE queue[e] = {}
  <2>1. pc' = [pc EXCEPT ![e] = "exited"] /\ UNCHANGED buffers
    BY <1>1 DEF Drain, Goto
  <2>2. TypeOK'
    BY <1>e, <1>u, <2>1 DEF Inv, TypeOK, buffers
  <2>3. ControlInv'
    <3> USE DEF Inv, TypeOK
    <3>1. CallShape' /\ ThreadMatchesState' /\ StopIsForThisThread'
      BY <1>e, <1>u, <2>1
         DEF ControlInv, CallShape, ThreadMatchesState, StopIsForThisThread
    <3>2. ReadsOpenFile' /\ (state["demuxer"] # "IDLE" => engine = "open")'
      BY <1>e, <1>u, <2>1 DEF ControlInv, ReadsOpenFile
    <3> QED
      BY <3>1, <3>2 DEF ControlInv
  <2>4. BufferInv'
    BY <1>e, <1>h, <2>1, StepKeepsBuffers
  <2> QED
    BY <2>2, <2>3, <2>4 DEF Inv
<1>2. CASE queue[e] # {}
  <2>1. PICK b \in queue[e] : /\ queue' = [queue EXCEPT ![e] = @ \ {b}]
                              /\ Release({b})
    BY <1>2 DEF Drain, Earliest
  <2>u. UNCHANGED <<pc, held, pending>>
    BY <1>2 DEF Drain
  <2>b. b \in Pool /\ b # None
    BY <1>e, PlayerAssumption DEF Inv, TypeOK
  <2>m. /\ mem' \in [Pool -> Content]
        /\ \A c \in Pool : c # b => mem'[c] = mem[c]
        /\ mem'[b] = Free
    BY <2>1, <2>b DEF Inv, TypeOK, Release, Content, Free, Streams
  <2>k. \A c \in Pool : c # b => mem'[c].kind = mem[c].kind
    BY <2>m
  <2>o. \A f \in Elements : /\ f # e => b \notin queue[f]
                            /\ b # held[f] /\ b # pending[f]
    BY <1>e DEF Inv, BufferInv, OneOwner
  <2>2. TypeOK'
    BY <1>e, <1>u, <2>1, <2>u, <2>m DEF Inv, TypeOK
  <2>3. ControlInv'
    BY <1>u, <2>u DEF Inv, ControlInv, CallShape, ThreadMatchesState,
                      StopIsForThisThread, ReadsOpenFile
  <2>4. BufferInv'
    <3> USE DEF Inv, TypeOK, BufferInv
    <3>1. AtOwnPC' /\ NotUsed'
      BY <1>e, <2>1, <2>u DEF AtOwnPC, NotUsed
    <3>2. InHand'
      BY <2>u, <2>b, <2>o, <2>k DEF InHand, Busy
    <3>3. NoUseAfterFree'
      <4> SUFFICES ASSUME NEW f \in Elements
                   PROVE  /\ held'[f] = None \/ Holds(held[f], {"packet", "frame"})'
                          /\ pending'[f] = None \/ Holds(pending[f],
                                {IF f = "demuxer" THEN "packet" ELSE "frame"})'
                          /\ \A c \in queue'[f] :
                                Holds(c, {IF f = "audioRender" THEN "frame" ELSE "packet"})'
        BY DEF NoUseAfterFree
      <4>1. \A c \in queue'[f] : c \in queue[f] /\ c # b
        BY <1>e, <2>1, <2>o
      <4>2. held'[f] = held[f] /\ pending'[f] = pending[f]
        BY <2>u
      <4>3. held'[f] = None \/ Holds(held[f], {"packet", "frame"})'
        <5>1. held[f] = None \/ Holds(held[f], {"packet", "frame"})
          BY DEF NoUseAfterFree
        <5> HIDE DEF Inv, TypeOK, BufferInv
        <5> QED
          BY <5>1, <4>2, <2>o, <2>k DEF Holds
      <4>4. pending'[f] = None \/ Holds(pending[f],
                                {IF f = "demuxer" THEN "packet" ELSE "frame"})'
        <5>1. pending[f] = None \/ Holds(pending[f],
                                {IF f = "demuxer" THEN "packet" ELSE "frame"})
          BY DEF NoUseAfterFree
        <5> HIDE DEF Inv, TypeOK, BufferInv
        <5> QED
          BY <5>1, <4>2, <2>o, <2>k DEF Holds
      <4>5. ASSUME NEW c \in queue'[f]
            PROVE  Holds(c, {IF f = "audioRender" THEN "frame" ELSE "packet"})'
        <5>1. Holds(c, {IF f = "audioRender" THEN "frame" ELSE "packet"})
          BY <4>1 DEF NoUseAfterFree
        <5> HIDE DEF Inv, TypeOK, BufferInv
        <5>2. c \in Pool
          BY <5>1 DEF Holds
        <5> QED
          BY <5>1, <5>2, <4>1, <2>k DEF Holds
      <4> QED
        BY <4>3, <4>4, <4>5
    <3>4. OneOwner'
      BY <1>e, <2>1, <2>u DEF OneOwner
    <3>5. NoLeak'
      BY <1>e, <2>1, <2>u, <2>b, <2>m DEF NoLeak, Live
    <3> QED
      BY <3>1, <3>2, <3>3, <3>4, <3>5
  <2> QED
    BY <2>2, <2>3, <2>4 DEF Inv
<1> QED
  BY <1>1, <1>2

\* The top of a loop: on STOP the pending buffer is freed.
LEMMA PopEventInv ==
    ASSUME Inv, NEW e \in Elements, PopEvent(e)
    PROVE  Inv'
<1>e. /\ "demuxer" \in Elements /\ "audioRender" \in Elements /\ pc[e] = "event"
  BY DEF Elements, PopEvent
<1>u. UNCHANGED <<state, engine, pos, played, ctl>>
  BY DEF PopEvent
<1>h. held[e] = None
  BY <1>e DEF Inv, BufferInv, InHand, Busy
<1>1. CASE stops[e] = 0
  <2> DEFINE l == IF e = "audioRender" THEN "state" ELSE "take"
  <2>1. pc' = [pc EXCEPT ![e] = l] /\ UNCHANGED <<stops, buffers>>
    BY <1>1 DEF PopEvent, Goto
  <2>2. /\ l \in WorkerPC /\ l \notin {"none", "drain", "exited"}
        /\ l \in OwnPC(e) \ Busy
    BY DEF WorkerPC, OwnPC, Busy, Elements
  <2> HIDE DEF l
  <2>3. BufferInv'
    BY <1>e, <1>h, <2>1, <2>2, StepKeepsBuffers
  <2> QED
    BY <1>e, <1>u, <2>1, <2>2, <2>3, LoopStep DEF Inv, TypeOK, buffers
<1>2. CASE stops[e] # 0
  <2> DEFINE l == IF e = "demuxer" THEN "exited" ELSE "drain"
  <2>1. /\ stops' = [stops EXCEPT ![e] = @ - 1]
        /\ pc' = [pc EXCEPT ![e] = l]
        /\ Release({pending[e]})
        /\ pending' = [pending EXCEPT ![e] = None]
        /\ UNCHANGED <<queue, held>>
    BY <1>2 DEF PopEvent, Goto
  <2>2. /\ l \in WorkerPC /\ l \in {"drain", "exited"}
        /\ l \in OwnPC(e) \ Busy /\ (e = "demuxer" => l = "exited")
    BY DEF WorkerPC, OwnPC, Busy, Elements
  <2> HIDE DEF l
  <2>s. stops[e] = 1 /\ ctl = [pc |-> "join", elem |-> e]
    BY <1>2, <1>e DEF Inv, ControlInv, StopIsForThisThread
  <2>m. /\ mem' \in [Pool -> Content]
        /\ \A c \in Pool : c # pending[e] => mem'[c] = mem[c]
        /\ pending[e] # None => mem'[pending[e]] = Free
    BY <2>1 DEF Inv, TypeOK, Release, Content, Free, Streams
  <2>k. \A c \in Pool : c # pending[e] => mem'[c].kind = mem[c].kind
    BY <2>m
  <2>o. pending[e] # None =>
          \A f \in Elements : /\ f # e => pending[e] # pending[f]
                              /\ pending[e] # held[f] /\ pending[e] \notin queue[f]
    BY DEF Inv, BufferInv, OneOwner
  <2>3. TypeOK'
    <3>1. /\ pc' \in [Elements -> WorkerPC]
          /\ pending' \in [Elements -> Pool \cup {None}]
      BY <2>1, <2>2 DEF Inv, TypeOK
    <3>2. stops' \in [Elements -> 0 .. QueueSize]
      BY <2>1, <2>s, PlayerAssumption DEF Inv, TypeOK
    <3> QED
      BY <3>1, <3>2, <1>u, <2>1, <2>m DEF Inv, TypeOK
  <2>4. ControlInv'
    <3> USE DEF Inv, TypeOK, ControlInv
    <3>1. CallShape' /\ ThreadMatchesState'
      BY <1>e, <1>u, <2>1, <2>2 DEF CallShape, ThreadMatchesState
    <3>2. StopIsForThisThread'
      <4> SUFFICES ASSUME NEW f \in Elements
                   PROVE  IF ctl' = [pc |-> "join", elem |-> f]
                          THEN IF pc'[f] \in {"drain", "exited"}
                               THEN stops'[f] = 0 ELSE stops'[f] = 1
                          ELSE stops'[f] = 0 /\ pc'[f] \notin {"drain", "exited"}
        BY DEF StopIsForThisThread
      <4>1. CASE f = e
        BY <4>1, <1>u, <2>1, <2>2, <2>s
      <4>2. CASE f # e
        <5>1. ctl' # [pc |-> "join", elem |-> f] /\ ctl # [pc |-> "join", elem |-> f]
          BY <4>2, <1>u, <2>s
        <5>2. pc'[f] = pc[f] /\ stops'[f] = stops[f]
          BY <4>2, <2>1
        <5> QED
          BY <5>1, <5>2 DEF StopIsForThisThread
      <4> QED
        BY <4>1, <4>2
    <3>3. ReadsOpenFile' /\ (state["demuxer"] # "IDLE" => engine = "open")'
      BY <1>e, <1>u, <2>1, <2>2 DEF ReadsOpenFile
    <3> QED
      BY <3>1, <3>2, <3>3
  <2>5. BufferInv'
    <3> USE DEF Inv, TypeOK, BufferInv
    <3>1. AtOwnPC' /\ NotUsed'
      BY <1>e, <2>1, <2>2 DEF AtOwnPC, NotUsed
    <3>2. InHand'
      BY <1>h, <2>1, <2>2, <2>o, <2>k DEF InHand, Busy
    <3>3. NoUseAfterFree'
      <4> SUFFICES ASSUME NEW f \in Elements
                   PROVE  /\ held'[f] = None \/ Holds(held[f], {"packet", "frame"})'
                          /\ pending'[f] = None \/ Holds(pending[f],
                                {IF f = "demuxer" THEN "packet" ELSE "frame"})'
                          /\ \A c \in queue'[f] :
                                Holds(c, {IF f = "audioRender" THEN "frame" ELSE "packet"})'
        BY DEF NoUseAfterFree
      <4>1. /\ pending'[f] = None \/ (pending'[f] = pending[f] /\ pending[f] # pending[e])
            /\ queue'[f] = queue[f] /\ held'[f] = held[f]
        BY <2>1, <2>o
      <4>2. \A c \in queue[f] : c # pending[e]
        BY <2>o, PlayerAssumption
      <4>3. held[f] = None \/ held[f] # pending[e]
        BY <2>o
      <4>4. held'[f] = None \/ Holds(held[f], {"packet", "frame"})'
        <5>1. held[f] = None \/ Holds(held[f], {"packet", "frame"})
          BY DEF NoUseAfterFree
        <5> HIDE DEF Inv, TypeOK, BufferInv
        <5> QED
          BY <5>1, <4>1, <4>3, <2>k DEF Holds
      <4>5. pending'[f] = None \/ Holds(pending[f],
                                {IF f = "demuxer" THEN "packet" ELSE "frame"})'
        BY <4>1, <2>k DEF NoUseAfterFree, Holds
      <4>6. ASSUME NEW c \in queue'[f]
            PROVE  Holds(c, {IF f = "audioRender" THEN "frame" ELSE "packet"})'
        <5>1. Holds(c, {IF f = "audioRender" THEN "frame" ELSE "packet"})
          BY <4>1 DEF NoUseAfterFree
        <5> QED
          BY <5>1, <4>1, <4>2, <2>k DEF Holds
      <4> QED
        BY <4>4, <4>5, <4>6
    <3>4. OneOwner'
      <4>1. \A f \in Elements : None \notin queue[f]
        BY PlayerAssumption
      <4> QED
        BY <2>1, <4>1 DEF OneOwner
    <3>5. NoLeak'
      BY <2>1, <2>m DEF NoLeak, Live
    <3> QED
      BY <3>1, <3>2, <3>3, <3>4, <3>5
  <2> QED
    BY <2>3, <2>4, <2>5 DEF Inv
<1> QED
  BY <1>1, <1>2

\* The control thread owns no buffer.
LEMMA CallKeepsBuffers ==
    ASSUME Inv, UNCHANGED <<pc, buffers>>
    PROVE  BufferInv'
  BY DEF Inv, BufferInv, buffers, AtOwnPC, OwnPC, InHand, NotUsed, NoUseAfterFree,
         Holds, OneOwner, NoLeak, Live

\* READY to IDLE; the demuxer has no thread when it closes the file.
LEMMA ToIdleInv ==
    ASSUME Inv, ctl.pc = "idle", NEW e \in Elements, ToIdle(e)
    PROVE  Inv'
<1> USE DEF Inv, TypeOK, ToIdle, Store
<1>d. "demuxer" \in Elements
  BY DEF Elements
<1>c. ctl # [pc |-> "start", elem |-> e] /\ state[e] = "READY"
  OBVIOUS
<1>e. pc[e] = "none"
  BY <1>c DEF ControlInv, ThreadMatchesState
<1>1. TypeOK'
  BY DEF States, buffers
<1>2. CallShape' /\ ThreadMatchesState' /\ StopIsForThisThread'
  BY DEF ControlInv, CallShape, ThreadMatchesState, StopIsForThisThread
<1>3. ReadsOpenFile' /\ (state["demuxer"] # "IDLE" => engine = "open")'
  BY <1>d, <1>e DEF ControlInv, ReadsOpenFile
<1> QED
  BY <1>1, <1>2, <1>3, CallKeepsBuffers DEF ControlInv

\* FFWrapper::open: only a success makes the demuxer READY.
LEMMA OpenInv ==
    ASSUME Inv, ctl.pc = "idle", Open
    PROVE  Inv'
<1> USE DEF Inv, TypeOK, Open, Store
<1>d. "demuxer" \in Elements
  BY DEF Elements
<1>c. ctl # [pc |-> "start", elem |-> "demuxer"] /\ state["demuxer"] = "IDLE"
  OBVIOUS
<1>e. pc["demuxer"] = "none"
  BY <1>c, <1>d DEF ControlInv, ThreadMatchesState
<1>1. TypeOK'
  <2>1. 0 \in 0 .. Len(File)
    BY PlayerAssumption
  <2> QED
    BY <2>1 DEF States, buffers
<1>2. CallShape' /\ ThreadMatchesState' /\ StopIsForThisThread'
  BY <1>d DEF ControlInv, CallShape, ThreadMatchesState, StopIsForThisThread
<1>3. ReadsOpenFile' /\ (state["demuxer"] # "IDLE" => engine = "open")'
  BY <1>d, <1>e DEF ControlInv, ReadsOpenFile
<1> QED
  BY <1>1, <1>2, <1>3, CallKeepsBuffers DEF ControlInv

\* IDLE to READY of a decoder or the render.
LEMMA PrepareInv ==
    ASSUME Inv, ctl.pc = "idle", NEW e \in Elements \ {"demuxer"}, Prepare(e)
    PROVE  Inv'
<1> USE DEF Inv, TypeOK, Prepare, Store
<1>d. "demuxer" \in Elements
  BY DEF Elements
<1>1. TypeOK'
  BY DEF States, buffers
<1>2. CallShape' /\ ThreadMatchesState' /\ StopIsForThisThread'
  BY DEF ControlInv, CallShape, ThreadMatchesState, StopIsForThisThread
<1>3. ReadsOpenFile' /\ (state["demuxer"] # "IDLE" => engine = "open")'
  BY <1>d DEF ControlInv, ReadsOpenFile
<1> QED
  BY <1>1, <1>2, <1>3, CallKeepsBuffers DEF ControlInv

\* There is room for the STOP a call sends, as no other is on its way.
LEMMA SendStopInv ==
    ASSUME Inv, ctl.pc = "idle", NEW e \in Elements, SendStop(e)
    PROVE  Inv'
<1> USE DEF Inv, TypeOK, SendStop
<1>s. stops[e] = 0 /\ pc[e] \notin {"drain", "exited"}
  BY DEF ControlInv, StopIsForThisThread
<1>t. stops' = [stops EXCEPT ![e] = 1]
  <2>1. 0 < QueueSize /\ 0 + 1 = 1
    BY PlayerAssumption
  <2>2. stops' = [stops EXCEPT ![e] = IF stops[e] < QueueSize THEN stops[e] + 1
                                                              ELSE stops[e]]
    OBVIOUS
  <2> HIDE DEF Inv, TypeOK, SendStop
  <2> QED
    BY <1>s, <2>1, <2>2
<1>c. ctl' = [pc |-> "join", elem |-> e] /\ UNCHANGED <<state, pc, buffers, engine>>
  OBVIOUS
<1>1. TypeOK'
  <2>1. stops' \in [Elements -> 0 .. QueueSize]
    BY <1>t, PlayerAssumption
  <2> QED
    BY <2>1, <1>c DEF buffers
<1>2. CallShape' /\ ThreadMatchesState'
  BY <1>c DEF ControlInv, CallShape, ThreadMatchesState
<1>3. StopIsForThisThread'
  <2> SUFFICES ASSUME NEW f \in Elements
               PROVE  IF ctl' = [pc |-> "join", elem |-> f]
                      THEN IF pc'[f] \in {"drain", "exited"}
                           THEN stops'[f] = 0 ELSE stops'[f] = 1
                      ELSE stops'[f] = 0 /\ pc'[f] \notin {"drain", "exited"}
    BY DEF StopIsForThisThread
  <2>1. CASE f = e
    BY <2>1, <1>s, <1>t, <1>c
  <2>2. CASE f # e
    <3>1. ctl' # [pc |-> "join", elem |-> f] /\ ctl # [pc |-> "join", elem |-> f]
      BY <2>2, <1>c
    <3> QED
      BY <2>2, <3>1, <1>c, <1>t DEF ControlInv, StopIsForThisThread
  <2> QED
    BY <2>1, <2>2
<1>4. ReadsOpenFile' /\ (state["demuxer"] # "IDLE" => engine = "open")'
  BY <1>c DEF ControlInv, ReadsOpenFile
<1> QED
  BY <1>1, <1>2, <1>3, <1>4, <1>c, CallKeepsBuffers DEF ControlInv

\* A thread starts with nothing in hand and nothing pending.
LEMMA StartThreadInv ==
    ASSUME Inv, ctl.pc = "idle", NEW e \in Elements, StartThread(e)
    PROVE  Inv'
<1> USE DEF Inv, TypeOK, StartThread
<1>d. "demuxer" \in Elements
  BY DEF Elements
<1>c. ctl # [pc |-> "start", elem |-> e] /\ state[e] = "READY"
  OBVIOUS
<1>p. pc[e] = "none"
  BY <1>c DEF ControlInv, ThreadMatchesState
<1>h. held[e] = None
  BY <1>p DEF BufferInv, InHand, Busy
<1>o. "event" \in WorkerPC /\ "event" \in OwnPC(e) \ Busy
  BY DEF WorkerPC, OwnPC, Busy, Elements
<1>e. /\ pc[e] = "none" /\ held[e] = None
      /\ "event" \in WorkerPC /\ "event" \in OwnPC(e) \ Busy
  BY <1>p, <1>h, <1>o
<1>1. TypeOK'
  BY <1>e DEF buffers
<1>2. CallShape' /\ ThreadMatchesState' /\ StopIsForThisThread'
  BY <1>e DEF ControlInv, CallShape, ThreadMatchesState, StopIsForThisThread
<1>3. ReadsOpenFile' /\ (state["demuxer"] # "IDLE" => engine = "open")'
  BY <1>d DEF ControlInv, ReadsOpenFile
<1>4. BufferInv'
  BY <1>e, StepKeepsBuffers
<1> QED
  BY <1>1, <1>2, <1>3, <1>4 DEF ControlInv

\* PAUSED and PLAYING differ only for the render.
LEMMA PauseOrPlayInv ==
    ASSUME Inv, ctl.pc = "idle", NEW e \in Elements, NEW s \in States, PauseOrPlay(e, s)
    PROVE  Inv'
<1> USE DEF Inv, TypeOK, PauseOrPlay, Store
<1>d. "demuxer" \in Elements
  BY DEF Elements
<1>e. state[e] \in {"PAUSED", "PLAYING"} /\ s \in {"PAUSED", "PLAYING"}
  OBVIOUS
<1>1. TypeOK'
  BY DEF buffers
<1>2. CallShape' /\ ThreadMatchesState' /\ StopIsForThisThread'
  BY <1>e DEF ControlInv, CallShape, ThreadMatchesState, StopIsForThisThread
<1>3. ReadsOpenFile' /\ (state["demuxer"] # "IDLE" => engine = "open")'
  BY <1>d, <1>e DEF ControlInv, ReadsOpenFile
<1> QED
  BY <1>1, <1>2, <1>3, CallKeepsBuffers DEF ControlInv

\* The join finds a worker that holds nothing any more.
LEMMA JoinInv ==
    ASSUME Inv, Join
    PROVE  Inv'
<1> USE DEF Inv, TypeOK, Join, Store
<1> DEFINE e == ctl.elem
<1>d. "demuxer" \in Elements /\ e \in Elements
  BY DEF Elements
<1>e. /\ pc[e] = "exited" /\ held[e] = None /\ pending[e] = None
      /\ "none" \in WorkerPC /\ "none" \in OwnPC(e) \ Busy
  BY <1>d DEF BufferInv, InHand, Busy, WorkerPC, OwnPC
<1>c. /\ ctl = [pc |-> "join", elem |-> e] /\ ctl' = [pc |-> "idle", elem |-> "demuxer"]
      /\ state' = [state EXCEPT ![e] = "READY"] /\ pc' = [pc EXCEPT ![e] = "none"]
      /\ UNCHANGED <<stops, engine>>
  BY DEF NoCall
<1>0. stops[e] = 0 /\ state[e] = "PAUSED"
  BY <1>c, <1>d, <1>e DEF ControlInv, StopIsForThisThread, CallShape
<1>4. BufferInv'
  BY <1>d, <1>e, StepKeepsBuffers
<1> HIDE DEF e, Join
<1>1. TypeOK'
  BY <1>c, <1>d, <1>e DEF States, buffers, Join
<1>2. CallShape' /\ ThreadMatchesState'
  BY <1>c, <1>d, <1>e DEF ControlInv, CallShape, ThreadMatchesState
<1>3. StopIsForThisThread'
  <2> SUFFICES ASSUME NEW f \in Elements
               PROVE  stops'[f] = 0 /\ pc'[f] \notin {"drain", "exited"}
    BY <1>c DEF StopIsForThisThread
  <2>1. CASE f = e
    BY <2>1, <1>0, <1>c
  <2>2. CASE f # e
    <3>1. ctl # [pc |-> "join", elem |-> f]
      BY <2>2, <1>c
    <3> QED
      BY <2>2, <3>1, <1>c, <1>d DEF ControlInv, StopIsForThisThread
  <2> QED
    BY <2>1, <2>2
<1>5. ReadsOpenFile' /\ (state["demuxer"] # "IDLE" => engine = "open")'
  BY <1>0, <1>c, <1>d, <1>e DEF ControlInv, ReadsOpenFile
<1> QED
  BY <1>1, <1>2, <1>3, <1>4, <1>5 DEF ControlInv

\* PAUSED is stored while the new thread is already running.
LEMMA StartedInv ==
    ASSUME Inv, Started
    PROVE  Inv'
<1> USE DEF Inv, TypeOK, Started, Store
<1> DEFINE e == ctl.elem
<1>d. "demuxer" \in Elements /\ e \in Elements
  BY DEF Elements
<1>c. /\ ctl = [pc |-> "start", elem |-> e] /\ ctl' = [pc |-> "idle", elem |-> "demuxer"]
      /\ state' = [state EXCEPT ![e] = "PAUSED"]
      /\ UNCHANGED <<pc, stops, buffers, engine>>
  BY DEF NoCall
<1>0. state[e] = "READY" /\ pc[e] # "none"
  BY <1>c, <1>d DEF ControlInv, CallShape, ThreadMatchesState
<1>4. BufferInv'
  BY <1>c, CallKeepsBuffers
<1> HIDE DEF e, Started
<1>1. TypeOK'
  BY <1>c, <1>d DEF States, buffers, Started
<1>2. CallShape'
  BY <1>c DEF CallShape
<1>3. ThreadMatchesState'
  <2> SUFFICES ASSUME NEW f \in Elements
               PROVE  pc'[f] # "none" <=> state'[f] \in {"PAUSED", "PLAYING"}
    BY <1>c DEF ThreadMatchesState
  <2>1. CASE f = e
    BY <2>1, <1>0, <1>c, <1>d
  <2>2. CASE f # e
    <3>1. ctl # [pc |-> "start", elem |-> f]
      BY <2>2, <1>c
    <3> QED
      BY <2>2, <3>1, <1>c DEF ControlInv, ThreadMatchesState
  <2> QED
    BY <2>1, <2>2
<1>5. StopIsForThisThread'
  BY <1>c DEF ControlInv, StopIsForThisThread
<1>6. ReadsOpenFile' /\ (state["demuxer"] # "IDLE" => engine = "open")'
  BY <1>0, <1>c, <1>d DEF ControlInv, ReadsOpenFile
<1> QED
  BY <1>1, <1>2, <1>3, <1>4, <1>5, <1>6 DEF ControlInv

\* A step that changes nothing preserves the invariant.
LEMMA StutterInv ==
    ASSUME Inv, UNCHANGED vars
    PROVE  Inv'
  BY CallKeepsBuffers
     DEF vars, buffers, Inv, TypeOK, ControlInv, CallShape, ThreadMatchesState,
         StopIsForThisThread, ReadsOpenFile

\* Every call of setState preserves the invariant.
LEMMA SetStateInv ==
    ASSUME Inv, NEW e \in Elements, NEW s \in States, SetState(e, s)
    PROVE  Inv'
<1>i. ctl.pc = "idle"
  BY DEF SetState
<1>1. CASE Common(e, s)
  BY <1>1, <1>i, StutterInv, ToIdleInv, SendStopInv, StartThreadInv, PauseOrPlayInv
     DEF Common, Rejected
<1>2. CASE Open
  BY <1>2, <1>i, OpenInv
<1>3. CASE e # "demuxer" /\ Prepare(e)
  BY <1>3, <1>i, PrepareInv
<1> QED
  BY <1>1, <1>2, <1>3
     DEF SetState, DemuxerTo, VideoDecoderTo, AudioDecoderTo, AudioRenderTo

(***************************************************************************)
(* The theorems.                                                           *)
(***************************************************************************)
LEMMA StepInv == Inv /\ [Next]_vars => Inv'
<1> SUFFICES ASSUME Inv, [Next]_vars PROVE Inv'
  OBVIOUS
<1>1. CASE \E e \in Controlled, s \in States : SetState(e, s)
  BY <1>1, SetStateInv, PlayerAssumption
<1>2. CASE FinishCall
  BY <1>2, JoinInv, StartedInv DEF FinishCall
<1>3. CASE Demuxing
  BY <1>3, PopEventInv, DemuxInv, RouteInv, CheckSinkInv, PushInv DEF Demuxing, Elements
<1>4. CASE VideoDecoding
  BY <1>4, PopEventInv, DrainInv, DecoderTakeInv, DecodeInv, WriteInv
     DEF VideoDecoding, Elements, Decoders
<1>5. CASE AudioDecoding
  BY <1>5, PopEventInv, DrainInv, DecoderTakeInv, DecodeInv, CheckSinkInv, PushInv
     DEF AudioDecoding, Elements, Decoders
<1>6. CASE Rendering
  BY <1>6, PopEventInv, DrainInv, CheckStateInv, RenderTakeInv, WriteInv
     DEF Rendering, Elements
<1>7. CASE UNCHANGED vars
  BY <1>7, StutterInv
<1> QED
  BY <1>1, <1>2, <1>3, <1>4, <1>5, <1>6, <1>7 DEF Next, Worker

\* The inductive invariant holds in every state of the specification.
THEOREM Invariance == Spec => []Inv
  BY InitInv, StepInv, PTL DEF Spec

\* Types: in particular the event queue never overflows, so the result of
\* sendEvent that toReady ignores is always success.
THEOREM TypeCorrect == Spec => []TypeOK
<1>1. Inv => TypeOK
  BY DEF Inv
<1> QED
  BY <1>1, Invariance, PTL

\* An element has a joinable thread exactly in PAUSED and PLAYING.
THEOREM ThreadsMatchStates == Spec => []ThreadMatchesState
<1>1. Inv => ThreadMatchesState
  BY DEF Inv, ControlInv
<1> QED
  BY <1>1, Invariance, PTL

\* A join waits only for a thread that finds its STOP; none is left behind.
THEOREM StopsAreDelivered == Spec => []StopIsForThisThread
<1>1. Inv => StopIsForThisThread
  BY DEF Inv, ControlInv
<1> QED
  BY <1>1, Invariance, PTL

(***************************************************************************)
(* The queues.  Their elements are counted, so they have to be finite.     *)
(***************************************************************************)
Bounded(q) == IsFiniteSet(q) /\ Cardinality(q) <= QueueSize

QueuesBounded == \A e \in Elements : Bounded(queue[e])

LEMMA EmptyIsBounded == Bounded({})
  BY FS_EmptySet, PlayerAssumption DEF Bounded

\* A pop makes room.
LEMMA PopIsBounded == ASSUME NEW q, NEW b, Bounded(q) PROVE Bounded(q \ {b})
<1>1. Cardinality(q) \in Nat
  BY FS_CardinalityType DEF Bounded
<1>2. IsFiniteSet(q \ {b}) /\ Cardinality(q \ {b}) \in {Cardinality(q), Cardinality(q) - 1}
  BY FS_RemoveElement DEF Bounded
<1> QED
  BY <1>1, <1>2, PlayerAssumption DEF Bounded

\* A push is made on a queue that is not full.
LEMMA PushIsBounded == ASSUME NEW q, NEW b, Bounded(q), ~ IsFull(q) PROVE Bounded(q \cup {b})
<1>1. Cardinality(q) \in Nat
  BY FS_CardinalityType DEF Bounded
<1>2. IsFiniteSet(q \cup {b}) /\ Cardinality(q \cup {b}) \in {Cardinality(q), Cardinality(q) + 1}
  BY FS_AddElement DEF Bounded
<1> QED
  BY <1>1, <1>2, PlayerAssumption DEF Bounded, IsFull

LEMMA StepBounded == Inv /\ QueuesBounded /\ [Next]_vars => QueuesBounded'
<1> SUFFICES ASSUME Inv, QueuesBounded, [Next]_vars PROVE QueuesBounded'
  OBVIOUS
<1>t. queue \in [Elements -> SUBSET Pool]
  BY DEF Inv, TypeOK
<1>u. ASSUME UNCHANGED queue PROVE QueuesBounded'
  BY <1>u DEF QueuesBounded
<1>p. ASSUME NEW e \in Elements, NEW b, queue' = [queue EXCEPT ![e] = @ \ {b}]
      PROVE  QueuesBounded'
  BY <1>t, <1>p, PopIsBounded DEF QueuesBounded
<1>1. ASSUME NEW e \in Controlled, NEW s \in States, SetState(e, s) PROVE QueuesBounded'
  BY <1>1, <1>u DEF SetState, DemuxerTo, VideoDecoderTo, AudioDecoderTo, AudioRenderTo,
     Common, Rejected, ToIdle, SendStop, StartThread, PauseOrPlay, Open, Prepare, vars, buffers
<1>2. CASE FinishCall
  BY <1>2, <1>u DEF FinishCall, Join, Started, buffers
<1>3. ASSUME NEW e \in Elements, PopEvent(e) PROVE QueuesBounded'
  BY <1>3, <1>u DEF PopEvent, buffers
<1>4. ASSUME NEW e \in Elements, Drain(e) PROVE QueuesBounded'
  BY <1>4, <1>u, <1>p DEF Drain, buffers
<1>5. ASSUME NEW e \in Elements, CheckSink(e) PROVE QueuesBounded'
  BY <1>5, <1>u DEF CheckSink, KeepPending, buffers
<1>6. ASSUME NEW e \in Elements, Push(e) PROVE QueuesBounded'
  <2>1. CASE IsFull(queue[Sink(e)])
    BY <1>6, <2>1, <1>u DEF Push, KeepPending
  <2>2. CASE ~ IsFull(queue[Sink(e)])
    <3>1. queue' = [queue EXCEPT ![Sink(e)] = @ \cup {held[e]}]
      BY <1>6, <2>2 DEF Push
    <3>2. Sink(e) \in Elements
      BY DEF Sink, Elements
    <3> QED
      BY <1>t, <2>2, <3>1, <3>2, PushIsBounded DEF QueuesBounded
  <2> QED
    BY <2>1, <2>2
<1>7. ASSUME NEW e \in Elements, DecoderTake(e) PROVE QueuesBounded'
  BY <1>7, <1>u, <1>p DEF DecoderTake, TakePending, PopBuffer, buffers
<1>8. ASSUME NEW e \in Elements, Decode(e) \/ Write(e) PROVE QueuesBounded'
  BY <1>8, <1>u DEF Decode, Write
<1>9. CASE Demux \/ Route \/ CheckState \/ UNCHANGED vars
  BY <1>9, <1>u DEF Demux, TakePending, ReadPacket, ReadFails, Route, CheckState, vars, buffers
<1>10. CASE RenderTake
  BY <1>10, <1>u, <1>p DEF RenderTake, PopBuffer, buffers, Elements
<1>11. CASE Worker
  BY <1>11, <1>3, <1>4, <1>5, <1>6, <1>7, <1>8, <1>9, <1>10
     DEF Worker, Demuxing, VideoDecoding, AudioDecoding, Rendering, Elements
<1> QED
  BY <1>1, <1>2, <1>9, <1>11 DEF Next

\* Packets and frames are freed once, not used after that, and not lost; and no
\* queue, of however many places, ever holds more than it has.
THEOREM BuffersAreAccountedFor == Spec => []BuffersAreKept
<1>1. Init => QueuesBounded
  BY EmptyIsBounded DEF Init, QueuesBounded
<1>2. Spec => []QueuesBounded
  BY <1>1, Invariance, StepBounded, PTL DEF Spec
<1>3. Inv /\ QueuesBounded => BuffersAreKept
  BY DEF Inv, BufferInv, BuffersAreKept, QueuesBounded, Bounded, WithinCapacity
<1> QED
  BY <1>2, <1>3, Invariance, PTL

\* The demuxer's thread reads only from an open file.
THEOREM FileIsOpen == Spec => []ReadsOpenFile
<1>1. Inv => ReadsOpenFile
  BY DEF Inv, ControlInv
<1> QED
  BY <1>1, Invariance, PTL

-----------------------------------------------------------------------------
(***************************************************************************)
(* PlayerDriver.  The invariant of Player (Inv) holds of the driver too,   *)
(* since main makes no call that an application may not make; what is      *)
(* added is where main is.                                                 *)
(***************************************************************************)

Place(e) ==
    IF e = "demuxer" THEN 0
    ELSE IF e = "videoDecoder" THEN 1
    ELSE IF e = "audioDecoder" THEN 2 ELSE 3

\* Main has begun k calls on e, and the state e has after them.
Begun(e, k) == 4 * k + Place(e) < step + 4 /\ step <= 4 * k + Place(e)

After(k) ==
    IF k = 0 \/ k = 6 THEN "IDLE"
    ELSE IF k = 1 \/ k = 5 THEN "READY"
    ELSE IF k = 2 \/ k = 4 THEN "PAUSED" ELSE "PLAYING"

InCall(e) == ctl.pc # "idle" /\ ctl.elem = e

\* Each element is where the calls have taken it, except the demuxer when it has
\* not opened its file: it refuses all calls but READY.
Progress ==
    \A e \in Elements, k \in 0 .. 6 :
        Begun(e, k) =>
            \/ InCall(e) /\ state[e] = After(k - 1)
            \/ ~ InCall(e) /\ state[e] = After(k)
            \/ ~ InCall(e) /\ e = "demuxer" /\ state[e] = "IDLE"

CallOrder ==
    /\ ctl.pc = "start" => step = 5 + Place(ctl.elem)
    /\ ctl.pc = "join"  => step = 17 + Place(ctl.elem)

\* An element that has been stopped; the elements it is fed by were before.
Gone(e) == step > 16 + Place(e) /\ ~ InCall(e)

Drained == \A e \in Elements : Gone(e) \/ pc[e] = "exited" => queue[e] = {}

EngineMatches ==
    /\ engine = "open" => state["demuxer"] # "IDLE"
    /\ \A b \in Pool : mem[b] # Free => engine = "open"

DriverInv ==
    Inv /\ step \in 0 .. Calls /\ Progress /\ CallOrder /\ Drained /\ EngineMatches

LEMMA DriverInitInv == DriverInit => DriverInv
<1> SUFFICES ASSUME DriverInit PROVE DriverInv
  OBVIOUS
<1>1. Inv
  BY InitInv DEF DriverInit
<1>2. step \in 0 .. Calls
  BY DEF DriverInit, Calls, Order, Phases
<1>3. Progress
  BY DEF DriverInit, Init, NoCall, Progress, Begun, Place, InCall, After, Elements
<1>4. CallOrder /\ Drained /\ EngineMatches
  BY DEF DriverInit, Init, NoCall, CallOrder, Drained, EngineMatches
<1> QED
  BY <1>1, <1>2, <1>3, <1>4 DEF DriverInv

(***************************************************************************)
(* Calls.                                                                  *)
(***************************************************************************)
\* The next call is the next state for the next element.
LEMMA NextCall ==
    ASSUME step \in 0 .. Calls, Call
    PROVE  \E e \in Elements, k \in 0 .. 5 :
              /\ step = 4 * k + Place(e) /\ step' = step + 1 /\ step' \in 0 .. Calls
              /\ SetState(e, After(k + 1))
<1> DEFINE k == step \div 4
           i == step % 4
<1>1. Calls = 24
  BY DEF Calls, Order, Phases
<1>2. k \in 0 .. 5 /\ i \in 0 .. 3 /\ step = 4 * k + i
  BY <1>1 DEF Call
<1>3. Phases[k + 1] = After(k + 1)
  BY <1>2 DEF Phases, After
<1>4. Order[i + 1] \in Elements /\ Place(Order[i + 1]) = i
  BY <1>2 DEF Order, Elements, Place
<1>5. SetState(Order[i + 1], After(k + 1)) /\ step' = step + 1
  BY <1>3 DEF Call
<1>6. step' \in 0 .. Calls
  BY <1>1, <1>5 DEF Call
<1> HIDE DEF k, i
<1> QED
  BY <1>2, <1>4, <1>5, <1>6

\* What a call does to its element: it stores the next state, or starts or stops
\* the thread; a demuxer that has not opened its file stays IDLE.
LEMMA CallMoves ==
    ASSUME DriverInv, NEW e \in Elements, NEW k \in 0 .. 5,
           step = 4 * k + Place(e), SetState(e, After(k + 1))
    PROVE  /\ ctl.pc = "idle"
           /\ \/ /\ k \in {1, 4} /\ state[e] = After(k) /\ state' = state
                 /\ ctl' = [pc |-> IF k = 1 THEN "start" ELSE "join", elem |-> e]
              \/ /\ ctl' = ctl
                 /\ e = "demuxer" \/ k \notin {1, 4}
                 /\ \A f \in Elements \ {e} : state'[f] = state[f]
                 /\ \/ state'[e] = After(k + 1)
                    \/ e = "demuxer" /\ state[e] = "IDLE" /\ state'[e] = "IDLE"
           /\ UNCHANGED <<queue, mem>>
           /\ \A f \in Elements : pc'[f] \in {pc[f], "event"}
           /\ engine' = engine \/ e = "demuxer"
<1> USE DEF DriverInv, Inv, TypeOK, buffers, vars, Store
<1>i. ctl.pc = "idle"
  BY DEF SetState
<1>s. state[e] = After(k) \/ (e = "demuxer" /\ state[e] = "IDLE")
  <2>1. Begun(e, k) /\ ~ InCall(e)
    BY <1>i DEF Begun, InCall, Place
  <2> QED
    BY <2>1 DEF Progress
<1>1. CASE Rejected(e, After(k + 1))
  BY <1>1, <1>i, <1>s DEF Rejected, Adjacent, After
<1>2. CASE After(k + 1) = "IDLE" /\ ToIdle(e)
  BY <1>2, <1>i, <1>s DEF ToIdle, After
<1>3. CASE After(k + 1) = "READY" /\ SendStop(e)
  BY <1>3, <1>i, <1>s DEF SendStop, After
<1>4. CASE After(k + 1) = "PAUSED" /\ StartThread(e)
  BY <1>4, <1>i, <1>s DEF StartThread, After
<1>5. CASE PauseOrPlay(e, After(k + 1))
  BY <1>5, <1>i, <1>s DEF PauseOrPlay, After
<1>6. CASE e = "demuxer" /\ After(k + 1) = "READY" /\ Open
  BY <1>6, <1>i DEF Open
<1>7. CASE After(k + 1) = "READY" /\ Prepare(e)
  BY <1>7, <1>i, <1>s DEF Prepare, After
<1> QED
  BY <1>1, <1>2, <1>3, <1>4, <1>5, <1>6, <1>7
     DEF SetState, Common, DemuxerTo, VideoDecoderTo, AudioDecoderTo, AudioRenderTo

\* The other elements have as many calls as before.
LEMMA OthersBegun ==
    ASSUME step \in Nat, NEW e \in Elements, NEW k \in 0 .. 5,
           step = 4 * k + Place(e), step' = step + 1
    PROVE  /\ \A j \in 0 .. 6 : Begun(e, j)' => j = k + 1
           /\ \A f \in Elements \ {e}, j \in 0 .. 6 : Begun(f, j)' => Begun(f, j)
           /\ \A f \in Elements : Gone(f)' => step > 16 + Place(f) \/ (f = e /\ k = 4)
  BY DEF Begun, Place, Elements, Gone

LEMMA CallProgress ==
    ASSUME DriverInv, NEW e \in Elements, NEW k \in 0 .. 5,
           step = 4 * k + Place(e), step' = step + 1, SetState(e, After(k + 1))
    PROVE  Progress' /\ CallOrder'
<1>1. step \in Nat
  BY DEF DriverInv
<1>2. CallOrder'
  <2>1. CASE ctl' = ctl
    BY <2>1, CallMoves DEF CallOrder
  <2>2. CASE /\ k \in {1, 4}
             /\ ctl' = [pc |-> IF k = 1 THEN "start" ELSE "join", elem |-> e]
    <3>1. ctl'.elem = e /\ Place(e) \in 0 .. 3
      BY <2>2 DEF Place
    <3>2. /\ ctl'.pc = "start" => step' = 5 + Place(e)
          /\ ctl'.pc = "join"  => step' = 17 + Place(e)
      BY <1>1, <2>2, <3>1
    <3> QED
      BY <3>1, <3>2 DEF CallOrder, Place
  <2> QED
    BY <2>1, <2>2, CallMoves
<1>3. Progress'
  <2> SUFFICES ASSUME NEW f \in Elements, NEW j \in 0 .. 6, Begun(f, j)'
               PROVE  \/ InCall(f)' /\ state'[f] = After(j - 1)
                      \/ ~ InCall(f)' /\ state'[f] = After(j)
                      \/ ~ InCall(f)' /\ f = "demuxer" /\ state'[f] = "IDLE"
    BY DEF Progress
  <2>1. CASE f = e
    <3>1. j = k + 1 /\ k = j - 1
      BY <1>1, <2>1, OthersBegun
    <3> QED
      BY <2>1, <3>1, CallMoves DEF InCall
  <2>2. CASE f # e
    <3>1. Begun(f, j)
      BY <1>1, <2>2, OthersBegun
    <3>2. ~ InCall(f) /\ ~ InCall(f)' /\ state'[f] = state[f]
      BY <2>2, CallMoves DEF InCall
    <3> QED
      BY <3>1, <3>2 DEF DriverInv, Progress
  <2> QED
    BY <2>1, <2>2
<1> QED
  BY <1>2, <1>3

(***************************************************************************)
(* Elements that have been stopped.                                        *)
(***************************************************************************)
\* A stopped element has no thread, and neither has one upstream of it.
LEMMA GoneHasNoThread ==
    ASSUME DriverInv, NEW e \in Elements, Gone(e)
    PROVE  pc[e] = "none"
<1> USE DEF DriverInv
<1>1. PICK k \in {5, 6} : Begun(e, k)
  <2>1. step \in Int /\ step <= 24
    BY DEF Calls, Order, Phases
  <2>2. CASE step <= 20 + Place(e)
    BY <2>1, <2>2 DEF Begun, Place, Gone
  <2>3. CASE step > 20 + Place(e)
    BY <2>1, <2>3 DEF Begun, Place, Gone
  <2> QED
    BY <2>1, <2>2, <2>3 DEF Place
<1>2. state[e] \in {"READY", "IDLE"}
  BY <1>1 DEF Progress, Gone, After
<1>3. ctl # [pc |-> "start", elem |-> e]
  BY DEF Gone, InCall
<1> QED
  BY <1>2, <1>3 DEF Inv, ControlInv, ThreadMatchesState

LEMMA UpstreamGone ==
    ASSUME DriverInv, NEW e \in Elements, NEW f \in Elements, Place(f) < Place(e),
           Gone(e) \/ pc[e] = "exited"
    PROVE  Gone(f)
<1> USE DEF DriverInv
<1>1. CASE Gone(e)
  <2>1. step > 16 + Place(e)
    BY <1>1 DEF Gone
  <2>2. ~ InCall(f)
    <3> SUFFICES ASSUME InCall(f) PROVE FALSE
      OBVIOUS
    <3>1. step = 5 + Place(f) \/ step = 17 + Place(f)
      BY DEF InCall, CallOrder, Inv, TypeOK
    <3> QED
      BY <2>1, <3>1 DEF Place
  <2> QED
    BY <2>1, <2>2 DEF Gone, Place
<1>2. CASE pc[e] = "exited"
  <2>1. ctl = [pc |-> "join", elem |-> e]
    BY <1>2 DEF Inv, ControlInv, StopIsForThisThread
  <2>2. step = 17 + Place(e)
    BY <2>1 DEF CallOrder
  <2> QED
    BY <2>1, <2>2 DEF Gone, InCall, Place
<1> QED
  BY <1>1, <1>2

\* When all elements have been stopped nothing is left in memory.
LEMMA NothingLeft ==
    ASSUME DriverInv, \A e \in Elements : Gone(e)
    PROVE  /\ \A e \in Elements : pc[e] = "none"
           /\ \A b \in Pool : mem[b] = Free
<1>1. \A e \in Elements : pc[e] = "none"
  BY GoneHasNoThread
<1>2. \A e \in Elements : queue[e] = {} /\ held[e] = None /\ pending[e] = None
  BY <1>1 DEF DriverInv, Drained, Inv, BufferInv, InHand, Busy
<1>3. \A b \in Pool : mem[b] = Free
  BY <1>2, PlayerAssumption DEF DriverInv, Inv, BufferInv, NoLeak, Live
<1> QED
  BY <1>1, <1>3

LEMMA CallDrained ==
    ASSUME DriverInv, NEW e \in Elements, NEW k \in 0 .. 5,
           step = 4 * k + Place(e), step' = step + 1, SetState(e, After(k + 1))
    PROVE  Drained'
<1> SUFFICES ASSUME NEW f \in Elements, Gone(f)' \/ pc'[f] = "exited"
             PROVE  queue[f] = {}
  BY CallMoves DEF Drained
<1> USE DEF DriverInv
<1>1. CASE pc'[f] = "exited"
  BY <1>1, CallMoves DEF Drained
<1>2. CASE Gone(f)' /\ step > 16 + Place(f)
  BY <1>2, CallMoves DEF Drained, Gone, InCall
<1>3. CASE Gone(f)' /\ f = e /\ k = 4
  <2>1. e = "demuxer"
    BY <1>3, CallMoves DEF Gone, InCall
  <2> QED
    BY <1>3, <2>1 DEF Inv, BufferInv, NotUsed
<1>4. step \in Nat
  OBVIOUS
<1> QED
  BY <1>1, <1>2, <1>3, <1>4, OthersBegun

\* The file is closed when the demuxer, the first element, goes back to IDLE:
\* by then the others have been stopped.
LEMMA CallEngine ==
    ASSUME DriverInv, NEW e \in Elements, NEW k \in 0 .. 5,
           step = 4 * k + Place(e), step' = step + 1, SetState(e, After(k + 1))
    PROVE  EngineMatches'
<1> USE DEF DriverInv, EngineMatches
<1>d. "demuxer" \in Elements /\ state \in [Elements -> States]
  BY DEF Elements, Inv, TypeOK
<1>1. CASE e = "demuxer" /\ ToIdle(e) /\ After(k + 1) = "IDLE"
  <2>1. step = 20 /\ ctl.pc = "idle"
    BY <1>1 DEF Place, After, SetState
  <2>2. \A f \in Elements : Gone(f)
    BY <2>1 DEF Gone, InCall, Place
  <2>3. mem' = mem /\ engine' = "closed"
    BY <1>1 DEF ToIdle, buffers
  <2> QED
    BY <2>2, <2>3, NothingLeft
<1>2. CASE Open
  <2>1. \A b \in Pool : mem[b] = Free
    BY <1>2 DEF Open
  <2> QED
    BY <1>2, <1>d, <2>1 DEF Open, Store, buffers
<1>3. CASE engine' = engine /\ (state'["demuxer"] = "IDLE" => state["demuxer"] = "IDLE")
  BY <1>3, CallMoves
<1>4. ASSUME e # "demuxer" PROVE state'["demuxer"] = state["demuxer"] /\ engine' = engine
  BY <1>4, <1>d, CallMoves
<1>5. CASE e = "demuxer"
  BY <1>1, <1>2, <1>3, <1>5, <1>d
     DEF SetState, Common, DemuxerTo, Rejected, vars, ToIdle, SendStop, StartThread, PauseOrPlay, Store
<1> QED
  BY <1>3, <1>4, <1>5

LEMMA CallInv == DriverInv /\ Call => DriverInv'
<1> SUFFICES ASSUME DriverInv, Call PROVE DriverInv'
  OBVIOUS
<1>1. PICK e \in Elements, k \in 0 .. 5 :
         /\ step = 4 * k + Place(e) /\ step' = step + 1 /\ step' \in 0 .. Calls
         /\ SetState(e, After(k + 1))
  BY NextCall DEF DriverInv
<1>2. After(k + 1) \in States
  BY DEF After, States
<1>3. Inv'
  BY <1>1, <1>2, SetStateInv DEF DriverInv
<1> QED
  BY <1>1, <1>3, CallProgress, CallDrained, CallEngine DEF DriverInv

\* The end of a call: the thread has been joined, or PAUSED is stored.
LEMMA FinishCallInv == DriverInv /\ FinishCall /\ UNCHANGED step => DriverInv'
<1> SUFFICES ASSUME DriverInv, FinishCall, UNCHANGED step PROVE DriverInv'
  OBVIOUS
<1> DEFINE e == ctl.elem
<1> USE DEF DriverInv
<1>t. /\ e \in Elements /\ "demuxer" \in Elements /\ state \in [Elements -> States]
      /\ pc \in [Elements -> WorkerPC] /\ step \in 0 .. 24
  BY DEF Inv, TypeOK, Elements, Calls, Order, Phases
<1>1. Inv'
  BY JoinInv, StartedInv DEF FinishCall
<1>2. /\ ctl.pc # "idle" /\ ctl' = NoCall /\ UNCHANGED <<queue, mem, engine>>
      /\ \/ step = 17 + Place(e) /\ pc[e] = "exited" /\ state' = [state EXCEPT ![e] = "READY"]
         \/ step = 5 + Place(e) /\ state' = [state EXCEPT ![e] = "PAUSED"]
      /\ \A f \in Elements : pc'[f] = "exited" => pc[f] = "exited"
  BY <1>t DEF FinishCall, Join, Started, Store, buffers, CallOrder, WorkerPC
<1>3. Progress'
  <2> SUFFICES ASSUME NEW f \in Elements, NEW k \in 0 .. 6, Begun(f, k)
               PROVE  state'[f] = After(k) \/ (f = "demuxer" /\ state'[f] = "IDLE")
    BY <1>2 DEF Progress, Begun, NoCall, InCall
  <2>1. CASE f # e
    BY <1>2, <1>t, <2>1 DEF Progress, InCall
  <2>2. CASE f = e /\ step = 17 + Place(e) /\ state' = [state EXCEPT ![e] = "READY"]
    <3>1. k = 5
      BY <2>2 DEF Begun, Place
    <3> QED
      BY <1>t, <2>2, <3>1 DEF After
  <2>3. CASE f = e /\ step = 5 + Place(e) /\ state' = [state EXCEPT ![e] = "PAUSED"]
    <3>1. k = 2
      BY <2>3 DEF Begun, Place
    <3> QED
      BY <1>t, <2>3, <3>1 DEF After
  <2> QED
    BY <1>2, <2>1, <2>2, <2>3
<1>4. CallOrder'
  BY <1>2 DEF CallOrder, NoCall
<1>5. Drained'
  <2> SUFFICES ASSUME NEW f \in Elements, step > 16 + Place(f) \/ pc[f] = "exited"
               PROVE  queue[f] = {}
    BY <1>2 DEF Drained, Gone
  <2>1. CASE pc[f] = "exited" \/ f # e
    BY <2>1 DEF Drained, Gone, InCall
  <2>2. CASE f = e /\ step = 17 + Place(e) /\ pc[e] = "exited"
    BY <2>2 DEF Drained
  <2>3. CASE pc[f] # "exited" /\ f = e /\ step = 5 + Place(e)
    BY <2>3 DEF Place
  <2> QED
    BY <1>2, <2>1, <2>2, <2>3
<1>6. EngineMatches'
  BY <1>2, <1>t DEF EngineMatches
<1> QED
  BY <1>1, <1>3, <1>4, <1>5, <1>6

(***************************************************************************)
(* Worker threads.                                                         *)
(***************************************************************************)
\* What a worker may do to what the elements share: it adds to a queue only by
\* pushing, ends only with its queue empty, and only the demuxer allocates.
Effect ==
    /\ UNCHANGED <<state, engine, ctl>>
    /\ \A f \in Elements :
          /\ \/ queue'[f] \subseteq queue[f]
             \/ \E e \in Elements : pc[e] = "push" /\ f = Sink(e)
          /\ pc'[f] = "exited" => pc[f] = "exited" \/ queue'[f] = {}
    /\ \A b \in Pool : mem'[b] # Free => mem[b] # Free \/ pc["demuxer"] = "take"

LEMMA WorkerEffect == DriverInv /\ Worker => Effect
<1> SUFFICES ASSUME Inv, Worker PROVE Effect
  BY DEF DriverInv
<1> USE DEF Inv, TypeOK, buffers, Goto, Release, Effect
<1>1. ASSUME NEW e \in Elements, PopEvent(e) PROVE Effect
  BY <1>1 DEF PopEvent, BufferInv, NotUsed
<1>2. ASSUME NEW e \in Elements, Drain(e) PROVE Effect
  BY <1>2 DEF Drain
<1>3. ASSUME NEW e \in Elements, CheckSink(e) PROVE Effect
  BY <1>3 DEF CheckSink, KeepPending
<1>4. ASSUME NEW e \in Elements, Push(e) PROVE Effect
  BY <1>4 DEF Push, KeepPending
<1>5. CASE Demux
  BY <1>5 DEF Demux, TakePending, ReadPacket, ReadFails
<1>6. CASE Route
  BY <1>6 DEF Route
<1>7. ASSUME NEW e \in Decoders, DecoderTake(e) PROVE Effect
  BY <1>7 DEF DecoderTake, TakePending, PopBuffer, Deliver
<1>8. ASSUME NEW e \in Decoders, Decode(e) PROVE Effect
  <2>1. e \in Elements /\ pc[e] \in Busy
    BY <1>8 DEF Decoders, Elements, Decode, Busy
  <2>2. mem[held[e]] # Free
    BY <2>1, HandFacts
  <2> QED
    BY <1>8, <2>1, <2>2 DEF Decode, Deliver
<1>9. ASSUME NEW e \in Elements, Write(e) PROVE Effect
  BY <1>9 DEF Write
<1>10. CASE CheckState \/ RenderTake
  BY <1>10 DEF CheckState, RenderTake, PopBuffer, Elements
<1> QED
  BY <1>1, <1>2, <1>3, <1>4, <1>5, <1>6, <1>7, <1>8, <1>9, <1>10
     DEF Worker, Demuxing, VideoDecoding, AudioDecoding, Rendering, Elements, Decoders

LEMMA WorkerKeepsInv == Inv /\ Worker => Inv'
  BY StepInv DEF Next

LEMMA WorkerInv == DriverInv /\ Worker /\ UNCHANGED step => DriverInv'
<1> SUFFICES ASSUME DriverInv, Worker, UNCHANGED step PROVE DriverInv'
  OBVIOUS
<1> USE DEF DriverInv
<1>e. Effect
  BY WorkerEffect
<1>1. Inv'
  BY WorkerKeepsInv
<1>2. Progress' /\ CallOrder'
  BY <1>e DEF Effect, Progress, CallOrder, Begun, InCall
<1>3. Drained'
  <2> SUFFICES ASSUME NEW f \in Elements, Gone(f) \/ pc'[f] = "exited"
               PROVE  queue'[f] = {}
    BY <1>e DEF Drained, Effect, Gone, InCall
  <2>1. CASE pc'[f] = "exited" /\ pc[f] # "exited"
    BY <1>e, <2>1 DEF Effect
  <2>2. CASE Gone(f) \/ pc[f] = "exited"
    <3>1. queue[f] = {}
      BY <2>2 DEF Drained
    <3>2. ASSUME NEW e \in Elements, pc[e] = "push", f = Sink(e) PROVE FALSE
      <4>1. Place(e) < Place(f)
        <5>1. pc[e] \in OwnPC(e)
          BY DEF Inv, BufferInv, AtOwnPC
        <5> QED
          BY <3>2, <5>1 DEF OwnPC, Sink, Place, Elements
      <4> QED
        BY <2>2, <3>2, <4>1, UpstreamGone, GoneHasNoThread
    <3> QED
      BY <1>e, <3>1, <3>2 DEF Effect
  <2> QED
    BY <2>1, <2>2
<1>4. EngineMatches'
  <2>1. pc["demuxer"] = "take" => engine = "open"
    BY DEF Inv, ControlInv, ReadsOpenFile
  <2> QED
    BY <1>e, <2>1 DEF Effect, EngineMatches
<1> QED
  BY <1>1, <1>2, <1>3, <1>4

(***************************************************************************)
(* The theorems.                                                           *)
(***************************************************************************)
LEMMA DriverStepInv == DriverInv /\ [DriverNext]_driverVars => DriverInv'
<1> SUFFICES ASSUME DriverInv, UNCHANGED driverVars PROVE DriverInv'
  BY CallInv, FinishCallInv, WorkerInv DEF DriverNext
<1>1. Inv'
  BY StutterInv DEF DriverInv, driverVars
<1> QED
  BY <1>1 DEF DriverInv, driverVars, vars, buffers, Progress, Begun, InCall, CallOrder,
     Drained, Gone, EngineMatches

\* Where main is, and what the elements hold then, is invariant.
THEOREM DriverInvariance == DriverSpec => []DriverInv
  BY DriverInitInv, DriverStepInv, PTL DEF DriverSpec

\* When main returns all threads have been joined, all memory has been freed and
\* the file is closed: main takes the elements down from the source to the sink.
THEOREM ShutsDownCleanly == DriverSpec => []CleanShutdown
<1>1. DriverInv => CleanShutdown
  <2> SUFFICES ASSUME DriverInv, step = Calls, ctl.pc = "idle"
               PROVE  /\ \A e \in Elements : pc[e] = "none" /\ state[e] = "IDLE"
                      /\ Live = {} /\ engine # "open"
    BY DEF CleanShutdown
  <2>1. step = 24
    BY DEF Calls, Order, Phases
  <2>2. \A e \in Elements : Gone(e) /\ Begun(e, 6) /\ ~ InCall(e)
    BY <2>1 DEF Gone, Begun, InCall, Place
  <2>3. \A e \in Elements : state[e] = "IDLE"
    BY <2>2 DEF DriverInv, Progress, After
  <2>4. (\A e \in Elements : pc[e] = "none") /\ Live = {}
    BY <2>2, NothingLeft DEF Live
  <2> QED
    BY <2>3, <2>4 DEF DriverInv, EngineMatches, Elements
<1> QED
  BY <1>1, DriverInvariance, PTL

\* A decoder has a packet in hand while it decodes, and there is none when the
\* engine is closed.
THEOREM DecodesWithOpenEngine == DriverSpec => []EngineOpenWhileDecoding
<1>1. DriverInv => EngineOpenWhileDecoding
  <2> SUFFICES ASSUME DriverInv, NEW e \in Decoders, pc[e] = "decode" PROVE engine = "open"
    BY DEF EngineOpenWhileDecoding
  <2>1. held[e] \in Pool /\ mem[held[e]] # Free
    BY HandFacts DEF DriverInv, Busy, Decoders, Elements
  <2> QED
    BY <2>1 DEF DriverInv, EngineMatches
<1> QED
  BY <1>1, DriverInvariance, PTL

-----------------------------------------------------------------------------
(***************************************************************************)
(* The program of PlayerDriver implements StreamDelivery: for every file,  *)
(* pool and queue size each stream is written in the order of the file,    *)
(* without repetition.  Buffers go through five stages, one after another; *)
(* of two buffers of a stream the one that is further on was read earlier. *)
(***************************************************************************)

In(b, e) == b \in queue[e]
Of(b, e) == b = held[e] \/ b = pending[e]

Stage(b) ==
    IF Of(b, "demuxer") THEN 1
    ELSE IF In(b, "videoDecoder") \/ In(b, "audioDecoder") THEN 2
    ELSE IF Of(b, "videoDecoder") \/ Of(b, "audioDecoder") THEN 3
    ELSE IF In(b, "audioRender") THEN 4 ELSE 5

\* Video goes to the video decoder, all else to the others.
Allowed(b, e) ==
    \/ e = "demuxer"
    \/ (e = "videoDecoder") <=> (mem[b].stream = "video")

Routed == \A b \in Live, e \in Elements : In(b, e) \/ Of(b, e) => Allowed(b, e)

FirstIsAhead ==
    \A b, c \in Live :
        b # c /\ mem[b].stream = mem[c].stream =>
            /\ mem[b].ts # mem[c].ts
            /\ Stage(b) > Stage(c) => mem[b].ts < mem[c].ts

InTime ==
    /\ \A s \in Streams : played[s] <= ReadSoFar[s]
    /\ \A b \in Live : /\ played[mem[b].stream] < mem[b].ts
                       /\ mem[b].ts <= ReadSoFar[mem[b].stream]

\* ReadSoFar when p packets have been read; the last of them of a stream.
ReadUpTo(p) ==
    [s \in Streams |->
        LET seen == {i \in 1 .. p : File[i].stream = s}
        IN  IF seen = {} THEN 0
            ELSE File[CHOOSE i \in seen : \A j \in seen : j <= i].ts]

IsLast(p, s, m) ==
    /\ m \in 1 .. p /\ File[m].stream = s
    /\ \A j \in 1 .. p : File[j].stream = s => j <= m

NoneYet(p, s) == \A j \in 1 .. p : File[j].stream # s

Known(p) == \A s \in Streams : NoneYet(p, s) \/ \E m \in 1 .. p : IsLast(p, s, m)

\* A file that is opened late has not been read before.
ReadOnce == state["demuxer"] = "IDLE" /\ step <= 20 => pos = 0

InOrder == Routed /\ FirstIsAhead /\ InTime /\ Known(pos)

OrderInv == InOrder /\ ReadOnce

(***************************************************************************)
(* What has been read.                                                     *)
(***************************************************************************)
LEMMA FileEntry ==
    ASSUME NEW i \in 1 .. Len(File)
    PROVE  File[i] \in [stream : Streams, ts : Nat \ {0}]
  BY PlayerAssumption, ElementOfFile

LEMMA ReadOfNone ==
    ASSUME NEW p, NEW s \in Streams, NoneYet(p, s)
    PROVE  ReadUpTo(p)[s] = 0
  BY DEF ReadUpTo, NoneYet

LEMMA ReadOfLast ==
    ASSUME NEW p \in 0 .. Len(File), NEW s \in Streams, NEW m, IsLast(p, s, m)
    PROVE  ReadUpTo(p)[s] = File[m].ts
<1> DEFINE seen == {i \in 1 .. p : File[i].stream = s}
<1>1. m \in seen /\ \A j \in seen : j <= m
  BY DEF IsLast
<1>2. (CHOOSE i \in seen : \A j \in seen : j <= i) = m
  BY <1>1
<1>3. ReadUpTo(p)[s] = File[CHOOSE i \in seen : \A j \in seen : j <= i].ts
  BY <1>1 DEF ReadUpTo
<1> QED
  BY <1>2, <1>3

LEMMA ReadType ==
    ASSUME NEW p \in 0 .. Len(File), Known(p)
    PROVE  ReadUpTo(p) \in [Streams -> Nat]
<1>1. ASSUME NEW s \in Streams PROVE ReadUpTo(p)[s] \in Nat
  <2>1. CASE NoneYet(p, s)
    BY <2>1, ReadOfNone
  <2>2. ASSUME NEW m \in 1 .. p, IsLast(p, s, m) PROVE ReadUpTo(p)[s] \in Nat
    <3>1. m \in 1 .. Len(File) /\ ReadUpTo(p)[s] = File[m].ts
      BY <2>2, ReadOfLast
    <3> QED
      BY <3>1, FileEntry
  <2> QED
    BY <2>1, <2>2 DEF Known
<1>2. ReadUpTo(p) = [s \in Streams |-> ReadUpTo(p)[s]]
  BY DEF ReadUpTo
<1> QED
  BY <1>1, <1>2

\* A packet that is read is later than those of its stream before.
LEMMA ReadGrows ==
    ASSUME NEW p \in 0 .. Len(File), Known(p), p < Len(File)
    PROVE  LET s == File[p + 1].stream
           IN  /\ s \in Streams
               /\ ReadUpTo(p)[s] < File[p + 1].ts
               /\ ReadUpTo(p + 1) = [ReadUpTo(p) EXCEPT ![s] = File[p + 1].ts]
               /\ Known(p + 1)
<1> DEFINE n == p + 1
           s == File[n].stream
<1>0. /\ n \in 1 .. Len(File) /\ n \in 0 .. Len(File) /\ s \in Streams
      /\ File[n].ts \in Nat \ {0}
  BY FileEntry
<1>1. ReadUpTo(p)[s] < File[n].ts
  <2>1. CASE NoneYet(p, s)
    BY <1>0, <2>1, ReadOfNone
  <2>2. ASSUME NEW m \in 1 .. p, IsLast(p, s, m) PROVE ReadUpTo(p)[s] < File[n].ts
    <3>1. m \in 1 .. Len(File) /\ m < n /\ File[m].stream = s /\ ReadUpTo(p)[s] = File[m].ts
      BY <1>0, <2>2, ReadOfLast DEF IsLast
    <3> QED
      BY <1>0, <3>1, FileInOrder
  <2> QED
    BY <1>0, <2>1, <2>2 DEF Known
<1>2. IsLast(n, s, n)
  BY <1>0 DEF IsLast
<1>3. ASSUME NEW t \in Streams, t # s, NoneYet(p, t) PROVE NoneYet(n, t)
  BY <1>0, <1>3 DEF NoneYet
<1>4. ASSUME NEW t \in Streams, t # s, NEW m \in 1 .. p, IsLast(p, t, m)
      PROVE  IsLast(n, t, m) /\ m \in 1 .. n
  BY <1>0, <1>4 DEF IsLast
<1>5. Known(n)
  BY <1>0, <1>2, <1>3, <1>4 DEF Known
<1>6. ReadUpTo(n)[s] = File[n].ts
  BY <1>0, <1>2, ReadOfLast
<1>7. ASSUME NEW t \in Streams, t # s PROVE ReadUpTo(n)[t] = ReadUpTo(p)[t]
  <2>1. CASE NoneYet(p, t)
    BY <1>3, <1>7, <2>1, ReadOfNone
  <2>2. ASSUME NEW m \in 1 .. p, IsLast(p, t, m) PROVE ReadUpTo(n)[t] = ReadUpTo(p)[t]
    BY <1>0, <1>4, <1>7, <2>2, ReadOfLast
  <2> QED
    BY <2>1, <2>2 DEF Known
<1>8. ReadUpTo(n) = [ReadUpTo(p) EXCEPT ![s] = File[n].ts]
  <2> HIDE DEF n
  <2>1. ReadUpTo(n) = [t \in Streams |-> ReadUpTo(n)[t]] /\ ReadUpTo(p) = [t \in Streams |-> ReadUpTo(p)[t]]
    BY DEF ReadUpTo
  <2> HIDE DEF s
  <2> QED
    BY <1>6, <1>7, <2>1
<1> QED
  BY <1>0, <1>1, <1>5, <1>8

(***************************************************************************)
(* Where buffers are.                                                      *)
(***************************************************************************)
\* A buffer that stays where it is, and what it is.
Same(c) == \A f \in Elements : (In(c, f)' <=> In(c, f)) /\ (Of(c, f)' <=> Of(c, f))

Kept(c) == /\ mem[c] # Free /\ Same(c)
           /\ mem'[c].stream = mem[c].stream /\ mem'[c].ts = mem[c].ts

LEMMA SameStage == ASSUME NEW c, Same(c) PROVE Stage(c)' = Stage(c)
  BY DEF Same, Stage, Elements

LEMMA StageType == ASSUME NEW c PROVE Stage(c) \in 1 .. 5
  BY DEF Stage

\* A buffer is in one place.
LEMMA OnePlace ==
    ASSUME Inv, NEW b \in Live, NEW e \in Elements, In(b, e) \/ Of(b, e)
    PROVE  /\ ~ (In(b, e) /\ Of(b, e))
           /\ \A f \in Elements \ {e} : ~ In(b, f) /\ ~ Of(b, f)
           /\ Stage(b) = IF e = "demuxer" THEN 1
                         ELSE IF e = "audioRender" THEN IF In(b, e) THEN 4 ELSE 5
                         ELSE IF In(b, e) THEN 2 ELSE 3
<1>b. b \in Pool /\ b # None
  BY PlayerAssumption DEF Live
<1>1. /\ ~ (In(b, e) /\ Of(b, e))
      /\ \A f \in Elements \ {e} : ~ In(b, f) /\ ~ Of(b, f)
  BY <1>b DEF Inv, BufferInv, OneOwner, In, Of
<1>2. ~ In(b, "demuxer")
  BY <1>b DEF Inv, BufferInv, NotUsed, In
<1> QED
  BY <1>1, <1>2 DEF Stage, Elements

LEMMA SomePlace ==
    ASSUME Inv, NEW b \in Live
    PROVE  \E e \in Elements : In(b, e) \/ Of(b, e)
  BY DEF Inv, BufferInv, NoLeak, In, Of

LEMMA HandPlace ==
    ASSUME Inv, NEW e \in Elements, pc[e] \in Busy
    PROVE  /\ held[e] \in Live /\ held[e] \in Pool /\ held[e] # None
           /\ Of(held[e], e) /\ pending[e] = None
           /\ \A c \in Pool : Of(c, e) => c = held[e]
  BY HandFacts, PlayerAssumption DEF Live, Of

(***************************************************************************)
(* The kinds of steps.                                                     *)
(***************************************************************************)
Quiet == UNCHANGED <<pos, played>> /\ \A c \in Pool : mem'[c] # Free => Kept(c)

LEMMA SameRead == ASSUME pos' = pos PROVE ReadSoFar' = ReadSoFar /\ Known(pos)' = Known(pos)
  BY DEF ReadSoFar, Known, NoneYet, IsLast

\* Buffers may be freed, or change hands within an element.
LEMMA QuietKeepsOrder == ASSUME InOrder, Quiet PROVE InOrder'
<1>1. \A c \in Live' : c \in Live /\ Kept(c) /\ Stage(c)' = Stage(c)
  BY SameStage DEF Live, Quiet, Kept
<1>2. ReadSoFar' = ReadSoFar /\ Known(pos)' = Known(pos) /\ played' = played
  BY SameRead DEF Quiet
<1>3. Routed'
  BY <1>1 DEF InOrder, Routed, Kept, Same, Allowed
<1>4. FirstIsAhead'
  BY <1>1 DEF InOrder, FirstIsAhead, Kept
<1>5. InTime'
  BY <1>1, <1>2 DEF InOrder, InTime, Kept
<1> QED
  BY <1>2, <1>3, <1>4, <1>5 DEF InOrder

\* A buffer goes to its next stage before the later ones of its stream.
LEMMA AdvanceKeepsOrder ==
    ASSUME InOrder, NEW b \in Live, UNCHANGED <<mem, pos, played>>,
           \A c \in Live \ {b} : Same(c),
           Stage(b)' = Stage(b) + 1,
           \A e \in Elements : In(b, e)' \/ Of(b, e)' => Allowed(b, e),
           \A c \in Live \ {b} :
               mem[c].stream = mem[b].stream /\ Stage(c) = Stage(b) => mem[b].ts < mem[c].ts
    PROVE  InOrder'
<1>1. Live' = Live /\ mem' = mem
  BY DEF Live
<1>2. \A c \in Live \ {b} : Stage(c)' = Stage(c)
  BY SameStage
<1>3. ReadSoFar' = ReadSoFar /\ Known(pos)' = Known(pos) /\ played' = played
  BY SameRead
<1>4. Routed'
  <2> SUFFICES ASSUME NEW c \in Live, NEW e \in Elements, In(c, e)' \/ Of(c, e)'
               PROVE  Allowed(c, e)
    BY <1>1 DEF Routed, Allowed
  <2>1. CASE c # b
    BY <2>1 DEF InOrder, Routed, Same
  <2> QED
    BY <2>1
<1>5. FirstIsAhead'
  <2> SUFFICES ASSUME NEW c \in Live, NEW d \in Live, c # d, mem[c].stream = mem[d].stream
               PROVE  /\ mem[c].ts # mem[d].ts
                      /\ Stage(c)' > Stage(d)' => mem[c].ts < mem[d].ts
    BY <1>1 DEF FirstIsAhead
  <2>1. /\ mem[c].ts # mem[d].ts
        /\ Stage(c) > Stage(d) => mem[c].ts < mem[d].ts
    BY DEF InOrder, FirstIsAhead
  <2>2. Stage(c) \in 1 .. 5 /\ Stage(d) \in 1 .. 5
    BY StageType
  <2>3. CASE c # b /\ d # b
    BY <1>2, <2>1, <2>3
  <2>4. CASE c = b
    <3>1. Stage(c)' = Stage(c) + 1 /\ Stage(d)' = Stage(d)
      BY <1>2, <2>4
    <3>2. Stage(d) = Stage(c) => mem[c].ts < mem[d].ts
      BY <2>4
    <3> QED
      BY <2>1, <2>2, <3>1, <3>2
  <2>5. CASE d = b
    <3>1. Stage(d)' = Stage(d) + 1 /\ Stage(c)' = Stage(c)
      BY <1>2, <2>5
    <3> QED
      BY <2>1, <2>2, <3>1
  <2> QED
    BY <2>3, <2>4, <2>5
<1>6. InTime'
  BY <1>1, <1>3 DEF InOrder, InTime
<1> QED
  BY <1>3, <1>4, <1>5, <1>6 DEF InOrder

\* A packet is read: it comes after all of its stream.
LEMMA ReadKeepsOrder ==
    ASSUME Inv, InOrder, pos < Len(File), NEW b \in Pool, mem[b] = Free,
           mem' = [mem EXCEPT ![b] = Packet(File[pos + 1])], pos' = pos + 1,
           UNCHANGED played, \A c \in Live : Same(c),
           \A e \in Elements : ~ In(b, e)' /\ (Of(b, e)' <=> e = "demuxer")
    PROVE  InOrder' /\ \E s \in Streams : Delivery!Read(s)
<1> DEFINE s == File[pos + 1].stream
           t == File[pos + 1].ts
<1>1. /\ ReadSoFar = ReadUpTo(pos) /\ ReadSoFar' = ReadUpTo(pos + 1)
      /\ Known(pos) /\ Known(pos)' = Known(pos + 1) /\ pos \in 0 .. Len(File)
  <2>1. Known(pos)' = Known(pos + 1)
    BY DEF Known, NoneYet, IsLast
  <2> QED
    BY <2>1 DEF ReadSoFar, ReadUpTo, InOrder, Inv, TypeOK
<1>2. /\ s \in Streams /\ ReadSoFar[s] < t
      /\ ReadSoFar' = [ReadSoFar EXCEPT ![s] = t] /\ Known(pos)'
  BY <1>1, ReadGrows
<1>3. ReadSoFar \in [Streams -> Nat] /\ played \in [Streams -> Nat] /\ t \in Nat
  <2>1. ReadSoFar \in [Streams -> Nat]
    BY <1>1, ReadType
  <2>2. pos + 1 \in 1 .. Len(File)
    BY <1>1
  <2> QED
    BY <2>1, <2>2, FileEntry DEF Inv, TypeOK
<1>4. /\ mem'[b].stream = s /\ mem'[b].ts = t /\ b \notin Live
      /\ \A c \in Live : c # b /\ mem'[c] = mem[c] /\ Stage(c)' = Stage(c)
      /\ \A c \in Live' : c = b \/ c \in Live
      /\ \A c \in Live : mem[c].stream \in Streams /\ mem[c].ts \in Nat
  BY SameStage DEF Live, Packet, Inv, TypeOK, Content
<1>5. Stage(b)' = 1 /\ \A c \in Live : Stage(c) \in 1 .. 5
  BY StageType DEF Stage, Elements
<1>6. /\ \A c \in Live : /\ played[mem[c].stream] < mem[c].ts
                         /\ mem[c].ts <= ReadSoFar[mem[c].stream]
      /\ \A r \in Streams : played[r] <= ReadSoFar[r]
  BY DEF InOrder, InTime
<1> HIDE DEF s, t
<1>7. Routed'
  <2> SUFFICES ASSUME NEW c \in Live', NEW e \in Elements, In(c, e)' \/ Of(c, e)'
               PROVE  Allowed(c, e)'
    BY DEF Routed
  <2>1. CASE c \in Live
    BY <1>4, <2>1 DEF InOrder, Routed, Same, Allowed
  <2>2. CASE c = b
    BY <2>2 DEF Allowed
  <2> QED
    BY <1>4, <2>1, <2>2
<1>8. FirstIsAhead'
  <2> SUFFICES ASSUME NEW c \in Live', NEW d \in Live', c # d, mem'[c].stream = mem'[d].stream
               PROVE  /\ mem'[c].ts # mem'[d].ts
                      /\ Stage(c)' > Stage(d)' => mem'[c].ts < mem'[d].ts
    BY DEF FirstIsAhead
  <2>1. CASE c \in Live /\ d \in Live
    BY <1>4, <2>1 DEF InOrder, FirstIsAhead
  <2>2. CASE c \in Live /\ d = b
    <3>1. mem'[c].ts < mem'[d].ts
      BY <1>2, <1>3, <1>4, <1>6, <2>2
    <3> QED
      BY <1>3, <1>4, <2>2, <3>1
  <2>3. CASE d \in Live /\ c = b
    <3>1. mem'[d].ts < mem'[c].ts
      BY <1>2, <1>3, <1>4, <1>6, <2>3
    <3>2. Stage(c)' = 1
      <4>1. \A x : x = b => Stage(x)' = 1
        BY <1>5
      <4> QED
        BY <2>3, <4>1
    <3>3. Stage(d)' \in 1 .. 5
      BY <1>4, <1>5, <2>3
    <3>4. mem'[c].ts \in Nat /\ mem'[d].ts \in Nat
      BY <1>3, <1>4, <2>3
    <3> QED
      BY <3>1, <3>2, <3>3, <3>4
  <2> QED
    BY <1>4, <2>1, <2>2, <2>3
<1>9. InTime'
  <2>1. \A r \in Streams : played[r] <= ReadSoFar'[r]
    BY <1>2, <1>3, <1>6
  <2>2. \A c \in Live : /\ played[mem[c].stream] < mem[c].ts
                        /\ mem[c].ts <= ReadSoFar'[mem[c].stream]
    BY <1>2, <1>3, <1>4, <1>6
  <2>3. played[s] < t /\ t <= ReadSoFar'[s]
    BY <1>2, <1>3, <1>6
  <2> QED
    BY <1>4, <2>1, <2>2, <2>3 DEF InTime
<1>10. Delivery!Read(s)
  BY <1>2, <1>3 DEF Delivery!Read
<1> QED
  BY <1>2, <1>7, <1>8, <1>9, <1>10 DEF InOrder

\* The frame that is written is the earliest of its stream in memory.
LEMMA FirstIsWritten ==
    ASSUME Inv, InOrder, NEW e \in Elements, pc[e] = "write", NEW c \in Live, c # held[e],
           mem[c].stream = mem[held[e]].stream
    PROVE  mem[held[e]].ts < mem[c].ts
<1> DEFINE b == held[e]
<1>e. e \in {"videoDecoder", "audioRender"}
  BY DEF Inv, BufferInv, AtOwnPC, OwnPC, Elements
<1>b. /\ b \in Live /\ Of(b, e) /\ \A d \in Pool : Of(d, e) => d = b
  BY HandPlace DEF Busy
<1>c. c \in Pool
  BY DEF Live
<1> HIDE DEF b
<1>1. Stage(b) = IF e = "audioRender" THEN 5 ELSE 3
  BY <1>b, <1>e, OnePlace
<1>2. PICK f \in Elements : In(c, f) \/ Of(c, f)
  BY SomePlace
<1>3. f # e \/ ~ Of(c, e)
  BY <1>b, <1>c DEF b
<1>4. Allowed(b, e) /\ Allowed(c, f)
  BY <1>b, <1>2 DEF InOrder, Routed
<1>5. Stage(c) = IF f = "demuxer" THEN 1
                 ELSE IF f = "audioRender" THEN IF In(c, f) THEN 4 ELSE 5
                 ELSE IF In(c, f) THEN 2 ELSE 3
  BY <1>2, OnePlace
<1>6. Stage(b) > Stage(c)
  BY <1>1, <1>2, <1>3, <1>4, <1>5, <1>e DEF Allowed, b, Elements
<1> QED
  BY <1>6, <1>b DEF InOrder, FirstIsAhead, b

LEMMA WriteKeepsOrder ==
    ASSUME Inv, InOrder, NEW e \in Elements, Write(e)
    PROVE  InOrder' /\ \E s \in Streams : Delivery!Deliver(s)
<1> DEFINE b == held[e]
           s == mem[b].stream
<1>b. /\ b \in Live /\ b \in Pool /\ b # None /\ Of(b, e) /\ pending[e] = None
      /\ \A d \in Pool : Of(d, e) => d = b
  BY HandPlace DEF Write, Busy
<1>1. /\ mem' = [c \in Pool |-> IF c = b THEN Free ELSE mem[c]]
      /\ held' = [held EXCEPT ![e] = None] /\ UNCHANGED <<queue, pending, pos>>
      /\ played' = [played EXCEPT ![s] = mem[b].ts]
  BY DEF Write, Release
<1>2. /\ ReadSoFar' = ReadSoFar /\ Known(pos)' = Known(pos) /\ Known(pos)
      /\ ReadSoFar \in [Streams -> Nat]
  <2>1. ReadSoFar = ReadUpTo(pos)
    BY DEF ReadSoFar, ReadUpTo
  <2> QED
    BY <1>1, <2>1, SameRead, ReadType DEF InOrder, Inv, TypeOK
<1>3. /\ played \in [Streams -> Nat]
      /\ \A c \in Live : mem[c].stream \in Streams /\ mem[c].ts \in Nat
  BY DEF Live, Inv, TypeOK, Content
<1>4. \A c \in Live' : c \in Live /\ c # b /\ mem'[c] = mem[c] /\ Kept(c)
  BY <1>1, <1>b, PlayerAssumption DEF Live, Kept, Same, In, Of, Inv, TypeOK
<1>5. \A c \in Live' : Stage(c)' = Stage(c)
  BY <1>4, SameStage DEF Kept
<1>6. \A c \in Live' : mem[c].stream = s => mem[b].ts < mem[c].ts
  BY <1>4, FirstIsWritten DEF Write
<1>7. /\ \A c \in Live : /\ played[mem[c].stream] < mem[c].ts
                         /\ mem[c].ts <= ReadSoFar[mem[c].stream]
      /\ \A r \in Streams : played[r] <= ReadSoFar[r]
  BY DEF InOrder, InTime
<1> HIDE DEF s, b
<1>8. Routed'
  BY <1>4 DEF InOrder, Routed, Kept, Same, Allowed
<1>9. FirstIsAhead'
  BY <1>4, <1>5 DEF InOrder, FirstIsAhead
<1>10. s \in Streams
  BY <1>3, <1>b DEF s
<1>11. InTime'
  <2>1. \A r \in Streams : played'[r] <= ReadSoFar'[r]
    BY <1>1, <1>2, <1>3, <1>7, <1>b DEF s
  <2>2. \A c \in Live' : /\ played'[mem'[c].stream] < mem'[c].ts
                         /\ mem'[c].ts <= ReadSoFar'[mem'[c].stream]
    BY <1>1, <1>2, <1>3, <1>4, <1>6, <1>7
  <2> QED
    BY <2>1, <2>2 DEF InTime
<1>12. Delivery!Deliver(s)
  <2>1. played'[s] = mem[b].ts /\ mem[b].ts \in Nat
    BY <1>1, <1>3, <1>10, <1>b
  <2>2. played[s] < mem[b].ts /\ mem[b].ts <= ReadSoFar[s]
    BY <1>7, <1>b DEF s
  <2>3. played'[s] \in played[s] + 1 .. ReadSoFar[s]
    BY <1>2, <1>3, <1>10, <2>1, <2>2
  <2> QED
    BY <1>1, <1>2, <2>1, <2>3 DEF Delivery!Deliver
<1> QED
  BY <1>2, <1>8, <1>9, <1>10, <1>11, <1>12 DEF InOrder

(***************************************************************************)
(* The steps of the workers.                                               *)
(***************************************************************************)
\* A step after which nothing else is in memory, and nothing is elsewhere.
LEMMA ReleaseIsQuiet ==
    ASSUME NEW b, Release({b}), UNCHANGED <<pos, played>>,
           \A c \in Pool \ {b} : Same(c)
    PROVE  Quiet
  BY DEF Release, Quiet, Kept, Free

LEMMA RestIsQuiet ==
    ASSUME UNCHANGED <<mem, pos, played>>, \A c \in Pool : Same(c)
    PROVE  Quiet
  BY DEF Quiet, Kept

LEMMA PopEventIsQuiet == ASSUME Inv, NEW e \in Elements, PopEvent(e) PROVE Quiet
<1>1. CASE UNCHANGED buffers
  <2>1. \A c \in Pool : Same(c)
    BY <1>1 DEF buffers, Same, In, Of
  <2> QED
    BY <1>1, <2>1, RestIsQuiet DEF PopEvent, buffers
<1>2. CASE /\ Release({pending[e]}) /\ pending' = [pending EXCEPT ![e] = None]
           /\ UNCHANGED <<queue, held>>
  <2>1. \A c \in Pool \ {pending[e]} : Same(c)
    BY <1>2, PlayerAssumption DEF Same, In, Of, Inv, TypeOK
  <2> QED
    BY <1>2, <2>1, ReleaseIsQuiet DEF PopEvent
<1> QED
  BY <1>1, <1>2 DEF PopEvent

LEMMA DrainIsQuiet == ASSUME Inv, NEW e \in Elements, Drain(e) PROVE Quiet
<1>1. CASE UNCHANGED buffers
  <2>1. \A c \in Pool : Same(c)
    BY <1>1 DEF buffers, Same, In, Of
  <2> QED
    BY <1>1, <2>1, RestIsQuiet DEF Drain, buffers
<1>2. ASSUME NEW b, Release({b}), queue' = [queue EXCEPT ![e] = @ \ {b}],
             UNCHANGED <<held, pending>>
      PROVE  Quiet
  <2>1. \A c \in Pool \ {b} : Same(c)
    BY <1>2 DEF Same, In, Of, Inv, TypeOK
  <2> QED
    BY <1>2, <2>1, ReleaseIsQuiet DEF Drain
<1> QED
  BY <1>1, <1>2 DEF Drain

LEMMA KeepPendingIsQuiet ==
    ASSUME Inv, NEW e \in Elements, pc[e] \in Busy, KeepPending(e), UNCHANGED <<pos, played>>
    PROVE  Quiet
<1>1. pending[e] = None
  BY HandFacts
<1>2. \A c \in Pool : Same(c)
  BY <1>1, PlayerAssumption DEF KeepPending, Same, In, Of, Inv, TypeOK
<1> QED
  BY <1>2, RestIsQuiet DEF KeepPending

LEMMA TakePendingIsQuiet ==
    ASSUME Inv, NEW e \in Elements, pc[e] = "take", TakePending(e), UNCHANGED <<pos, played>>
    PROVE  Quiet
<1>1. held[e] = None
  BY DEF Inv, BufferInv, InHand, Busy
<1>2. \A c \in Pool : Same(c)
  BY <1>1, PlayerAssumption DEF TakePending, Same, In, Of, Inv, TypeOK
<1> QED
  BY <1>2, RestIsQuiet DEF TakePending

LEMMA FreeHandIsQuiet ==
    ASSUME Inv, NEW e \in Elements, Release({held[e]}), held' = [held EXCEPT ![e] = None],
           UNCHANGED <<queue, pending, pos, played>>
    PROVE  Quiet
<1>1. \A c \in Pool \ {held[e]} : Same(c)
  BY PlayerAssumption DEF Same, In, Of, Inv, TypeOK
<1> QED
  BY <1>1, ReleaseIsQuiet

LEMMA DecodeIsQuiet ==
    ASSUME Inv, NEW e \in Elements, Decode(e)
    PROVE  Quiet
<1>1. held[e] \in Pool /\ mem[held[e]] # Free
  BY HandFacts DEF Decode, Busy
<1>2. CASE Release({held[e]}) /\ held' = [held EXCEPT ![e] = None]
  BY <1>2, FreeHandIsQuiet DEF Decode
<1>3. CASE mem' = [mem EXCEPT ![held[e]] = [@ EXCEPT !.kind = "frame"]] /\ UNCHANGED held
  <2>1. \A c \in Pool : Same(c)
    BY <1>3 DEF Decode, Same, In, Of
  <2>2. \A c \in Pool : /\ mem'[c] # Free => mem[c] # Free
                        /\ mem'[c].stream = mem[c].stream /\ mem'[c].ts = mem[c].ts
    BY <1>1, <1>3 DEF Inv, TypeOK, Content
  <2> QED
    BY <2>1, <2>2 DEF Decode, Quiet, Kept
<1> QED
  BY <1>2, <1>3 DEF Decode

\* The earliest buffer of a queue is taken in hand.
LEMMA PopKeepsOrder ==
    ASSUME Inv, InOrder, NEW e \in Elements, NEW l, pc[e] = "take", pending[e] = None,
           PopBuffer(e, l), UNCHANGED <<pos, played>>
    PROVE  InOrder' /\ UNCHANGED <<ReadSoFar, played>>
<1>0. ReadSoFar' = ReadSoFar
  BY SameRead
<1>1. CASE queue[e] = {}
  <2>1. \A c \in Pool : Same(c)
    BY <1>1 DEF PopBuffer, buffers, Same, In, Of
  <2>2. Quiet
    BY <1>1, <2>1, RestIsQuiet DEF PopBuffer, buffers
  <2> QED
    BY <1>0, <2>2, QuietKeepsOrder
<1>2. CASE queue[e] # {}
  <2>1. PICK b \in Earliest(queue[e]) : /\ held' = [held EXCEPT ![e] = b]
                                       /\ queue' = [queue EXCEPT ![e] = @ \ {b}]
                                       /\ UNCHANGED <<pending, mem>>
    BY <1>2 DEF PopBuffer
  <2>2. held[e] = None /\ e # "demuxer"
    BY <1>2 DEF Inv, BufferInv, InHand, Busy, NotUsed
  <2>3. b \in Live /\ In(b, e) /\ b \in Pool /\ b # None
    <3>1. b \in queue[e]
      BY <2>1 DEF Earliest
    <3>2. b \in Pool /\ mem[b].kind # "free"
      BY <3>1 DEF Inv, BufferInv, NoUseAfterFree, Holds
    <3> QED
      BY <3>1, <3>2, PlayerAssumption DEF In, Live, Free
  <2>4. \A f \in Elements : ~ Of(b, f) /\ (f # e => ~ In(b, f))
    BY <2>3, OnePlace
  <2>5. /\ \A c \in Live \ {b} : Same(c)
        /\ \A f \in Elements : ~ In(b, f)' /\ (Of(b, f)' <=> f = e)
    BY <1>2, <2>1, <2>2, <2>3, <2>4, PlayerAssumption DEF Same, In, Of, Live, Inv, TypeOK
  <2>6. Stage(b)' = Stage(b) + 1
    <3>1. Stage(b) = IF e = "audioRender" THEN 4 ELSE 2
      BY <2>2, <2>3, OnePlace
    <3>2. Stage(b)' = IF e = "audioRender" THEN 5 ELSE 3
      BY <2>2, <2>5 DEF Stage, Elements
    <3> QED
      BY <3>1, <3>2
  <2>7. Allowed(b, e)
    BY <2>3 DEF InOrder, Routed
  <2>8. ASSUME NEW c \in Live \ {b}, mem[c].stream = mem[b].stream, Stage(c) = Stage(b)
        PROVE  mem[b].ts < mem[c].ts
    <3>1. PICK f \in Elements : In(c, f) \/ Of(c, f)
      BY SomePlace
    <3>2. Stage(c) = IF f = "demuxer" THEN 1
                     ELSE IF f = "audioRender" THEN IF In(c, f) THEN 4 ELSE 5
                     ELSE IF In(c, f) THEN 2 ELSE 3
      BY <3>1, OnePlace
    <3>3. Stage(b) = IF e = "audioRender" THEN 4 ELSE 2
      BY <2>2, <2>3, OnePlace
    <3>4. Allowed(c, f)
      BY <3>1 DEF InOrder, Routed
    <3>5. (e = "videoDecoder" <=> f = "videoDecoder") \/ f = "demuxer"
      BY <2>2, <2>7, <2>8, <3>4 DEF Allowed
    <3>6. f = e /\ In(c, e)
      <4> HIDE DEF Inv, InOrder
      <4>1. Stage(c) = IF e = "audioRender" THEN 4 ELSE 2
        BY <2>8, <3>3
      <4>2. f # "demuxer" /\ (f = "audioRender" <=> e = "audioRender") /\ In(c, f)
        BY <3>2, <4>1
      <4> QED
        BY <2>2, <3>5, <4>2 DEF Elements
    <3>7. mem[b].ts <= mem[c].ts /\ mem[b].ts # mem[c].ts
      BY <2>1, <2>3, <2>8, <3>6 DEF Earliest, In, InOrder, FirstIsAhead
    <3>8. mem[b].ts \in Nat /\ mem[c].ts \in Nat
      BY <2>3 DEF Live, Inv, TypeOK, Content
    <3> QED
      BY <3>7, <3>8
  <2> QED
    BY <1>0, <2>1, <2>3, <2>5, <2>6, <2>7, <2>8, AdvanceKeepsOrder
<1> QED
  BY <1>1, <1>2

\* A buffer is pushed on the queue of the next element.
LEMMA PushKeepsOrder ==
    ASSUME Inv, InOrder, NEW e \in {"demuxer", "audioDecoder"}, Push(e)
    PROVE  InOrder' /\ UNCHANGED <<ReadSoFar, played>>
<1>0. ReadSoFar' = ReadSoFar /\ played' = played /\ pos' = pos
  BY SameRead DEF Push
<1>e. e \in Elements /\ pc[e] \in Busy
  BY DEF Elements, Push, Busy
<1>1. CASE KeepPending(e)
  BY <1>0, <1>1, <1>e, KeepPendingIsQuiet, QuietKeepsOrder
<1>2. CASE /\ queue' = [queue EXCEPT ![Sink(e)] = @ \cup {held[e]}]
           /\ held' = [held EXCEPT ![e] = None] /\ UNCHANGED <<pending, mem>>
  <2>0. PICK b, g : b = held[e] /\ g = Sink(e)
    OBVIOUS
  <2>1. /\ b \in Live /\ b \in Pool /\ b # None /\ Of(b, e) /\ pending[e] = None
        /\ \A c \in Pool : Of(c, e) => c = b
    BY <1>e, <2>0, HandPlace
  <2>2. \A f \in Elements : ~ In(b, f) /\ (f # e => ~ Of(b, f))
    BY <1>e, <2>1, OnePlace
  <2>3. Allowed(b, e) /\ Allowed(b, g)
    BY <1>e, <2>0, <2>1 DEF InOrder, Routed, Allowed, Sink
  <2>4. g \in Elements /\ g # "demuxer" /\ (e = "audioDecoder" <=> g = "audioRender")
    BY <2>0 DEF Sink, Elements
  <2>5. /\ \A c \in Live \ {b} : Same(c)
        /\ \A f \in Elements : ~ Of(b, f)' /\ (In(b, f)' <=> f = g)
    <3>1. /\ queue' = [queue EXCEPT ![g] = @ \cup {b}] /\ held' = [held EXCEPT ![e] = None]
          /\ pending' = pending /\ held[e] = b
      BY <1>2, <2>0
    <3>2. \A f \in Elements : /\ queue'[f] = IF f = g THEN queue[f] \cup {b} ELSE queue[f]
                              /\ held'[f] = IF f = e THEN None ELSE held[f]
      BY <1>e, <2>4, <3>1 DEF Inv, TypeOK
    <3>3. \A f \in Elements : ~ Of(b, f)' /\ (In(b, f)' <=> f = g)
      <4> SUFFICES ASSUME NEW f \in Elements PROVE ~ Of(b, f)' /\ (In(b, f)' <=> f = g)
        OBVIOUS
      <4>1. b # pending[f] /\ b # held'[f]
        BY <2>1, <2>2, <3>1, <3>2 DEF Of
      <4> QED
        BY <2>2, <3>1, <3>2, <4>1 DEF In, Of
    <3>4. \A c \in Live \ {b} : Same(c)
      <4> SUFFICES ASSUME NEW c \in Live \ {b}, NEW f \in Elements
                   PROVE  (In(c, f)' <=> In(c, f)) /\ (Of(c, f)' <=> Of(c, f))
        BY DEF Same
      <4>1. c # None
        BY PlayerAssumption DEF Live
      <4> QED
        BY <3>1, <3>2, <4>1 DEF In, Of
    <3> QED
      BY <3>3, <3>4
  <2>6. Stage(b) = IF e = "demuxer" THEN 1 ELSE 3
    BY <1>e, <2>1, OnePlace
  <2>7. Stage(b)' = IF g = "audioRender" THEN 4 ELSE 2
    BY <2>4, <2>5 DEF Stage, Elements
  <2>8. Stage(b)' = Stage(b) + 1
    BY <2>4, <2>6, <2>7
  <2>9. ASSUME NEW c \in Live \ {b}, mem[c].stream = mem[b].stream, Stage(c) = Stage(b)
        PROVE  FALSE
    <3>1. PICK f \in Elements : In(c, f) \/ Of(c, f)
      BY SomePlace
    <3>2. Stage(c) = IF f = "demuxer" THEN 1
                     ELSE IF f = "audioRender" THEN IF In(c, f) THEN 4 ELSE 5
                     ELSE IF In(c, f) THEN 2 ELSE 3
      BY <3>1, OnePlace
    <3>3. Allowed(c, f)
      BY <3>1 DEF InOrder, Routed
    <3>4. Stage(c) = IF e = "demuxer" THEN 1 ELSE 3
      BY <2>6, <2>9
    <3>5. f # "videoDecoder" \/ e = "demuxer"
      BY <2>3, <2>9, <3>3 DEF Allowed
    <3>6. f = e /\ ~ In(c, f)
      <4>1. ~ In(c, "demuxer")
        BY DEF Inv, BufferInv, NotUsed, In
      <4> QED
        BY <3>2, <3>4, <3>5, <4>1 DEF Elements
    <3> QED
      BY <2>1, <2>9, <3>1, <3>6 DEF Live
  <2>10. \A f \in Elements : In(b, f)' \/ Of(b, f)' => Allowed(b, f)
    BY <2>3, <2>5
  <2>11. UNCHANGED <<mem, pos, played>>
    BY <1>0, <1>2
  <2>12. InOrder'
    BY <2>1, <2>5, <2>8, <2>9, <2>10, <2>11, AdvanceKeepsOrder
  <2> QED
    BY <1>0, <2>12
<1> QED
  BY <1>1, <1>2 DEF Push

(***************************************************************************)
(* Every step keeps the order, and is a step of StreamDelivery or none.    *)
(***************************************************************************)
Implements == InOrder' /\ [Delivery!Next]_<<ReadSoFar, played>>

LEMMA QuietImplements == ASSUME InOrder, Quiet PROVE Implements
<1>1. ReadSoFar' = ReadSoFar /\ played' = played
  BY SameRead DEF Quiet
<1> QED
  BY <1>1, QuietKeepsOrder DEF Implements

LEMMA CheckSinkImplements ==
    ASSUME Inv, InOrder, NEW e \in Elements, CheckSink(e)
    PROVE  Implements
<1>1. CASE KeepPending(e)
  BY <1>1, KeepPendingIsQuiet, QuietImplements DEF CheckSink, Busy
<1>2. CASE UNCHANGED buffers
  <2>1. \A c \in Pool : Same(c)
    BY <1>2 DEF buffers, Same, In, Of
  <2>2. Quiet
    BY <1>2, <2>1, RestIsQuiet DEF CheckSink, buffers
  <2> QED
    BY <2>2, QuietImplements
<1> QED
  BY <1>1, <1>2 DEF CheckSink

LEMMA ReadImplements ==
    ASSUME Inv, InOrder, pc["demuxer"] = "take", pending["demuxer"] = None,
           ReadPacket, UNCHANGED played
    PROVE  Implements
<1>0. held["demuxer"] = None /\ "demuxer" \in Elements
  BY DEF Inv, BufferInv, InHand, Busy, Elements
<1>1. PICK b \in Pool : /\ pos < Len(File) /\ mem[b] = Free
                        /\ mem' = [mem EXCEPT ![b] = Packet(File[pos + 1])]
                        /\ held' = [held EXCEPT !["demuxer"] = b]
                        /\ pos' = pos + 1 /\ UNCHANGED <<queue, pending>>
  BY DEF ReadPacket
<1>2. b # None /\ \A f \in Elements : b \notin queue[f] /\ b # held[f] /\ b # pending[f]
  <2> SUFFICES ASSUME NEW f \in Elements
               PROVE  b # None /\ b \notin queue[f] /\ b # held[f] /\ b # pending[f]
    BY <1>0
  <2>1. mem[b].kind = "free" /\ b # None
    BY <1>1, PlayerAssumption DEF Free
  <2> QED
    BY <2>1 DEF Inv, BufferInv, NoUseAfterFree, Holds
<1>3. \A f \in Elements : held'[f] = IF f = "demuxer" THEN b ELSE held[f]
  BY <1>0, <1>1 DEF Inv, TypeOK
<1>4. \A c \in Live : Same(c)
  <2> SUFFICES ASSUME NEW c \in Live, NEW f \in Elements
               PROVE  (In(c, f)' <=> In(c, f)) /\ (Of(c, f)' <=> Of(c, f))
    BY DEF Same
  <2>1. c # None /\ c # b
    BY <1>1, PlayerAssumption DEF Live
  <2> QED
    BY <1>0, <1>1, <1>3, <2>1 DEF In, Of
<1>5. \A f \in Elements : ~ In(b, f)' /\ (Of(b, f)' <=> f = "demuxer")
  BY <1>1, <1>2, <1>3 DEF In, Of
<1>6. InOrder' /\ \E s \in Streams : Delivery!Read(s)
  BY <1>1, <1>4, <1>5, ReadKeepsOrder
<1> QED
  BY <1>6 DEF Implements, Delivery!Next

LEMMA DemuxImplements == ASSUME Inv, InOrder, Demux PROVE Implements
<1>e. "demuxer" \in Elements
  BY DEF Elements
<1>1. CASE TakePending("demuxer") /\ UNCHANGED pos
  <2>1. Quiet
    BY <1>e, <1>1, TakePendingIsQuiet DEF Demux
  <2> QED
    BY <2>1, QuietImplements
<1>2. CASE pending["demuxer"] = None /\ ReadPacket
  BY <1>2, ReadImplements DEF Demux
<1>3. CASE ReadFails
  <2>1. \A c \in Pool : Same(c)
    BY <1>3 DEF ReadFails, buffers, Same, In, Of
  <2>2. Quiet
    BY <1>3, <2>1, RestIsQuiet DEF Demux, ReadFails, buffers
  <2> QED
    BY <2>2, QuietImplements
<1> QED
  BY <1>1, <1>2, <1>3 DEF Demux

LEMMA RouteImplements == ASSUME Inv, InOrder, Route PROVE Implements
<1>1. CASE UNCHANGED buffers
  <2>1. \A c \in Pool : Same(c)
    BY <1>1 DEF buffers, Same, In, Of
  <2>2. Quiet
    BY <1>1, <2>1, RestIsQuiet DEF Route, buffers
  <2> QED
    BY <2>2, QuietImplements
<1>2. CASE ~ UNCHANGED buffers
  <2>1. Quiet
    BY <1>2, FreeHandIsQuiet DEF Route, Elements
  <2> QED
    BY <2>1, QuietImplements
<1> QED
  BY <1>1, <1>2

LEMMA TakeImplements ==
    ASSUME Inv, InOrder, NEW e \in Elements,
           DecoderTake(e) \/ (e = "audioRender" /\ RenderTake)
    PROVE  Implements
<1>1. CASE DecoderTake(e) /\ TakePending(e)
  <2>1. Quiet
    BY <1>1, TakePendingIsQuiet DEF DecoderTake
  <2> QED
    BY <2>1, QuietImplements
<1>2. CASE DecoderTake(e) /\ pending[e] = None /\ PopBuffer(e, "decode")
  BY <1>2, PopKeepsOrder DEF DecoderTake, Implements
<1>3. CASE e = "audioRender" /\ RenderTake
  <2>1. pending[e] = None
    BY <1>3 DEF Inv, BufferInv, NotUsed
  <2> QED
    BY <1>3, <2>1, PopKeepsOrder DEF RenderTake, Implements
<1> QED
  BY <1>1, <1>2, <1>3 DEF DecoderTake

LEMMA WorkerImplements == Inv /\ InOrder /\ Worker => Implements
<1> SUFFICES ASSUME Inv, InOrder, Worker PROVE Implements
  OBVIOUS
<1>1. ASSUME NEW e \in Elements, PopEvent(e) \/ Drain(e) \/ Decode(e) PROVE Implements
  BY <1>1, PopEventIsQuiet, DrainIsQuiet, DecodeIsQuiet, QuietImplements
<1>2. CASE Demux \/ Route
  BY <1>2, DemuxImplements, RouteImplements
<1>3. ASSUME NEW e \in Elements, CheckSink(e) PROVE Implements
  BY <1>3, CheckSinkImplements
<1>4. CASE Push("demuxer") \/ Push("audioDecoder")
  BY <1>4, PushKeepsOrder DEF Implements
<1>5. ASSUME NEW e \in Elements, DecoderTake(e) \/ (e = "audioRender" /\ RenderTake)
      PROVE  Implements
  BY <1>5, TakeImplements
<1>6. ASSUME NEW e \in Elements, Write(e) PROVE Implements
  BY <1>6, WriteKeepsOrder DEF Implements, Delivery!Next
<1>7. CASE CheckState
  <2>1. \A c \in Pool : Same(c)
    BY <1>7 DEF CheckState, buffers, Same, In, Of
  <2>2. Quiet
    BY <1>7, <2>1, RestIsQuiet DEF CheckState, buffers
  <2> QED
    BY <2>2, QuietImplements
<1> QED
  BY <1>1, <1>2, <1>3, <1>4, <1>5, <1>6, <1>7
     DEF Worker, Demuxing, VideoDecoding, AudioDecoding, Rendering, Elements

\* Calls do not touch buffers; the file is opened before any of it is read.
LEMMA CallIsQuiet == ASSUME DriverInv, OrderInv, Call PROVE Quiet /\ ReadOnce'
<1>1. PICK e \in Elements, k \in 0 .. 5 :
         /\ step = 4 * k + Place(e) /\ step' = step + 1
         /\ SetState(e, After(k + 1))
  BY NextCall DEF DriverInv
<1>2. UNCHANGED <<buffers, played>> /\ (pos' = pos \/ (e = "demuxer" /\ k \in {0, 4} /\ Open))
  <2>1. CASE \/ Rejected(e, After(k + 1)) \/ ToIdle(e) \/ SendStop(e) \/ StartThread(e)
             \/ PauseOrPlay(e, After(k + 1)) \/ Prepare(e)
    BY <2>1 DEF Rejected, vars, ToIdle, SendStop, StartThread, PauseOrPlay, Prepare
  <2>2. CASE e = "demuxer" /\ After(k + 1) = "READY" /\ Open
    <3>1. k \in {0, 4}
      BY <2>2 DEF After
    <3> QED
      BY <2>2, <3>1 DEF Open
  <2> QED
    BY <1>1, <2>1, <2>2
       DEF SetState, Common, DemuxerTo, VideoDecoderTo, AudioDecoderTo, AudioRenderTo
<1>3. pos' = pos
  <2>1. ASSUME e = "demuxer", k \in {0, 4}, Open PROVE pos' = pos
    <3>1. step <= 20 /\ state["demuxer"] = "IDLE" /\ pos' \in {pos, 0}
      BY <1>1, <2>1 DEF Open, Place
    <3> QED
      BY <3>1 DEF OrderInv, ReadOnce
  <2> QED
    BY <1>2, <2>1
<1>4. Quiet
  <2>1. \A c \in Pool : Same(c)
    BY <1>2 DEF buffers, Same, In, Of
  <2> QED
    BY <1>2, <1>3, <2>1, RestIsQuiet DEF buffers
<1>5. ReadOnce'
  <2> SUFFICES ASSUME state'["demuxer"] = "IDLE", step' <= 20 PROVE pos = 0
    BY <1>3 DEF ReadOnce
  <2>1. step <= 20 /\ ~ (e = "demuxer" /\ k = 5) /\ "demuxer" \in Elements
    BY <1>1 DEF DriverInv, Place, Elements
  <2>2. state["demuxer"] = "IDLE"
    <3>1. CASE e = "demuxer"
      <4>1. After(k + 1) # "IDLE"
        BY <2>1, <3>1 DEF After
      <4> QED
        BY <1>1, <3>1, <4>1, CallMoves
    <3>2. CASE e # "demuxer"
      BY <1>1, <2>1, <3>2, CallMoves
    <3> QED
      BY <3>1, <3>2
  <2> QED
    BY <2>1, <2>2 DEF OrderInv, ReadOnce
<1> QED
  BY <1>4, <1>5

LEMMA FinishCallIsQuiet ==
    ASSUME DriverInv, OrderInv, FinishCall, UNCHANGED step PROVE Quiet /\ ReadOnce'
<1>1. /\ UNCHANGED <<buffers, pos, played>>
      /\ state'["demuxer"] = "IDLE" => state["demuxer"] = "IDLE"
  BY DEF FinishCall, Join, Started, Store, DriverInv, Inv, TypeOK, Elements
<1>2. \A c \in Pool : Same(c)
  BY <1>1 DEF buffers, Same, In, Of
<1>3. Quiet
  BY <1>1, <1>2, RestIsQuiet DEF buffers
<1> QED
  BY <1>1, <1>3 DEF OrderInv, ReadOnce

LEMMA WorkerReadsOnce ==
    ASSUME DriverInv, OrderInv, Worker, UNCHANGED step PROVE ReadOnce'
<1>1. state' = state
  BY WorkerEffect DEF Effect
<1>2. pos' = pos \/ pc["demuxer"] = "take"
  BY DEF Worker, Demuxing, VideoDecoding, AudioDecoding, Rendering, PopEvent, Drain, Demux,
     Route, CheckSink, Push, DecoderTake, Decode, Write, CheckState, RenderTake
<1>3. pc["demuxer"] = "take" => state["demuxer"] # "IDLE"
  BY DEF DriverInv, Inv, ControlInv, CallShape, ThreadMatchesState, Elements
<1> QED
  BY <1>1, <1>2, <1>3 DEF OrderInv, ReadOnce

LEMMA OrderInit == DriverInit => OrderInv /\ Delivery!Init
<1> SUFFICES ASSUME DriverInit PROVE OrderInv /\ Delivery!Init
  OBVIOUS
<1>1. Live = {} /\ pos = 0 /\ played = [s \in Streams |-> 0]
  BY DEF DriverInit, Init, Live
<1>2. \A s \in Streams : NoneYet(0, s)
  BY DEF NoneYet
<1>3. ReadSoFar = [s \in Streams |-> 0]
  <2>1. ReadSoFar = ReadUpTo(0)
    BY <1>1 DEF ReadSoFar, ReadUpTo
  <2>2. \A s \in Streams : ReadUpTo(0)[s] = 0
    BY <1>2, ReadOfNone
  <2>3. ReadUpTo(0) = [s \in Streams |-> ReadUpTo(0)[s]]
    BY DEF ReadUpTo
  <2> QED
    BY <2>1, <2>2, <2>3
<1> QED
  BY <1>1, <1>2, <1>3
     DEF OrderInv, InOrder, Routed, FirstIsAhead, InTime, Known, ReadOnce, Delivery!Init

LEMMA OrderStep ==
    DriverInv /\ OrderInv /\ [DriverNext]_driverVars
        => OrderInv' /\ [Delivery!Next]_<<ReadSoFar, played>>
<1> SUFFICES ASSUME DriverInv, OrderInv, [DriverNext]_driverVars
             PROVE  ReadOnce' /\ Implements
  BY DEF OrderInv, Implements
<1>o. InOrder
  BY DEF OrderInv
<1>1. CASE Call
  BY <1>o, <1>1, CallIsQuiet, QuietImplements
<1>2. CASE FinishCall /\ UNCHANGED step
  BY <1>o, <1>2, FinishCallIsQuiet, QuietImplements
<1>3. CASE Worker /\ UNCHANGED step
  BY <1>o, <1>3, WorkerImplements, WorkerReadsOnce DEF DriverInv
<1>4. CASE UNCHANGED driverVars
  <2>1. \A c \in Pool : Same(c)
    BY <1>4 DEF driverVars, vars, buffers, Same, In, Of
  <2>2. Quiet
    BY <1>4, <2>1, RestIsQuiet DEF driverVars, vars, buffers
  <2>3. ReadOnce'
    BY <1>4 DEF driverVars, vars, OrderInv, ReadOnce
  <2> QED
    BY <1>o, <2>2, <2>3, QuietImplements
<1> QED
  BY <1>1, <1>2, <1>3, <1>4 DEF DriverNext

\* Whatever is refused, drained or lost on the way, the frames of each stream are
\* written in the order of the file, none twice and none before it was read.
THEOREM PlaysInOrder == DriverSpec => InOrderDelivery
<1>1. DriverInit => DriverInv /\ OrderInv /\ Delivery!Init
  BY DriverInitInv, OrderInit
<1>2. DriverInv /\ OrderInv /\ [DriverNext]_driverVars
        => DriverInv' /\ OrderInv' /\ [Delivery!Next]_<<ReadSoFar, played>>
  BY DriverStepInv, OrderStep
<1> QED
  BY <1>1, <1>2, PTL DEF DriverSpec, InOrderDelivery, Delivery!Spec
=============================================================================
