------------------------------ MODULE VpuCodec ------------------------------
(* The codec library of the i.MX VPU (vpucodec/src): sessions that encode or  *)
(* decode, the physical memory each of them takes from the VPU driver, and    *)
(* the one frame the VPU works on.  The VPU library is external: an instance  *)
(* is opened with a bit stream buffer, is given frame buffers, and is locked  *)
(* from the start of a frame until its output is asked for.  Memory is a set  *)
(* of blocks; who took a block, and what for, is what the driver remembers.   *)
EXTENDS Integers, FiniteSets

CONSTANTS Sessions,  \* handles the application may hold
          Blocks,    \* physical memory
          MinCount,  \* minFrameBufferCount
          NoBlock, NoHandle

Decoders == {"H264Dec", "JPEGDec"}
Encoders == {"H264Enc", "JPEGEnc"}
Kinds == Decoders \cup Encoders
Parts == {"bitstream", "ps", "fb"}

ASSUME VpuAssumption ==
  NoBlock \notin Blocks /\ NoHandle \notin Sessions /\ IsFiniteSet(Blocks) /\ MinCount \in Nat

VARIABLES memory,   \* block -> who took it, and what for
          session,  \* the structures of the sessions
          given,    \* the blocks an instance of the VPU works with
          locked    \* the session whose frame the VPU is at

vpuVars == <<memory, session, given, locked>>

Closed == [kind |-> "closed", bitstream |-> NoBlock, ps |-> NoBlock, fb |-> {}, busy |-> FALSE]
IsOpen(s) == session[s].kind # "closed"
Unused == <<"nobody", "free">>
FreeBlocks == {b \in Blocks : memory[b] = Unused}
Idle(s) == IsOpen(s) /\ ~session[s].busy

\* IOGetPhyMem, n times: which blocks the driver gives is its own affair.
CanTake(n) == Cardinality(FreeBlocks) >= n
Take(n) == CHOOSE A \in SUBSET FreeBlocks : Cardinality(A) = n
Taken(A, who, what) == [b \in Blocks |-> IF b \in A THEN <<who, what>> ELSE memory[b]]
Released(A) == [b \in Blocks |-> IF b \in A THEN Unused ELSE memory[b]]
OneOf(A) == CHOOSE b \in A : TRUE

-----------------------------------------------------------------------------
(* Opening.  A failure to get memory undoes what was done; a failure of the   *)
(* VPU to open an instance does not always.                                   *)

Opened(s, kind, bs, ps) ==
  /\ session' = [session EXCEPT ![s] = [Closed EXCEPT !.kind = kind, !.bitstream = bs, !.ps = ps]]
  /\ given' = [given EXCEPT ![s] = {bs, ps} \ {NoBlock}]
  /\ UNCHANGED locked

OpenSmall(s, kind) ==
  LET bs == OneOf(FreeBlocks)
  IN  /\ ~IsOpen(s) /\ CanTake(1)
      /\ memory' = Taken({bs}, kind, "bitstream")
      /\ Opened(s, kind, bs, NoBlock)

OpenJpegDec(s) == OpenSmall(s, "JPEGDec")
OpenH264Enc(s) == OpenSmall(s, "H264Enc")
OpenJpegEnc(s) == OpenSmall(s, "JPEGEnc")

OpenH264Dec(s) ==
  LET bs == OneOf(FreeBlocks)
      ps == OneOf(FreeBlocks \ {bs})
  IN  /\ ~IsOpen(s) /\ CanTake(2)
      /\ memory' = [Taken({bs}, "H264Dec", "bitstream") EXCEPT ![ps] = <<"H264Dec", "ps">>]
      /\ Opened(s, "H264Dec", bs, ps)

\* The VPU refuses: the H.264 decoder frees the bit stream first, so that the
\* PS buffer, freed under the name of the bit stream, is not.
OpenH264DecFails(s) ==
  /\ ~IsOpen(s) /\ CanTake(2)
  /\ memory' = Taken(Take(1), "H264Dec", "ps")
  /\ UNCHANGED <<session, given, locked>>

\* The JPEG encoder frees nothing.
OpenJpegEncFails(s) ==
  /\ ~IsOpen(s) /\ CanTake(1)
  /\ memory' = Taken(Take(1), "JPEGEnc", "bitstream")
  /\ UNCHANGED <<session, given, locked>>

-----------------------------------------------------------------------------
(* A frame.  The frame buffers are allocated when the first is decoded or     *)
(* encoded, as many as the VPU asks for and some more.                        *)

DecFrameBuffers == MinCount + 2
EncFrameBuffers(kind) == MinCount + (IF kind = "JPEGEnc" THEN 0 ELSE 2) + 1

\* The frame buffers of a session that has none: taken together or not at all.
FbAlloc(s, n) ==
  /\ session[s].fb = {} /\ CanTake(n)
  /\ memory' = Taken(Take(n), session[s].kind, "fb")

\* The VPU does not take the buffers of a decoder: the session keeps them, and
\* does not register them again.
DecRegisterFails(s) ==
  /\ Idle(s) /\ session[s].kind \in Decoders
  /\ FbAlloc(s, DecFrameBuffers)
  /\ session' = [session EXCEPT ![s].fb = Take(DecFrameBuffers)]
  /\ UNCHANGED <<given, locked>>

\* StartOneFrame waits until the VPU is free, and fails without buffers.
StartFrame(s, fbs) ==
  /\ locked = NoHandle /\ locked' = s
  /\ session' = [session EXCEPT ![s].fb = fbs, ![s].busy = TRUE]
  /\ given' = [given EXCEPT ![s] = @ \cup fbs]

AllocAndStart(s, n) ==
  /\ Idle(s)
  /\ FbAlloc(s, n)
  /\ StartFrame(s, Take(n))

StartAgain(s) ==
  /\ Idle(s) /\ session[s].fb # {} /\ session[s].fb \subseteq given[s]
  /\ StartFrame(s, session[s].fb)
  /\ UNCHANGED memory

Decode(s) ==
  /\ session[s].kind \in Decoders
  /\ AllocAndStart(s, DecFrameBuffers) \/ StartAgain(s)

Encode(s) ==
  /\ session[s].kind \in Encoders
  /\ AllocAndStart(s, EncFrameBuffers(session[s].kind)) \/ StartAgain(s)

FrameEnds(s, lock) ==
  /\ session[s].busy
  /\ session' = [session EXCEPT ![s].busy = FALSE]
  /\ locked' = lock
  /\ UNCHANGED <<memory, given>>

\* A mutant of GetOutput: after a timeout the call returns at once.
GetOutputOfWhole(s) == session[s].kind \in Decoders /\ \E h \in {NoHandle, s} : FrameEnds(s, h)
\* The output of a decoder is asked for whether the VPU has finished in time or not.
GetOutput(s) == session[s].kind \in Decoders /\ FrameEnds(s, NoHandle)
FillBody(s) == session[s].kind \in Encoders /\ FrameEnds(s, NoHandle)
\* The encoder returns at once, and the VPU stays locked.
EncodeTimeout(s) == session[s].kind \in Encoders /\ FrameEnds(s, locked)

-----------------------------------------------------------------------------
(* Closing.  A frame that is not complete is reset before the instance is     *)
(* closed; the memory is freed even if the VPU then fails to close it.        *)

CloseWith(s, blocks) ==
  /\ Idle(s)
  /\ memory' = Released(blocks \ {NoBlock})
  /\ session' = [session EXCEPT ![s] = Closed]
  /\ given' = [given EXCEPT ![s] = {}]
  /\ locked' = IF locked = s THEN NoHandle ELSE locked

\* ps_free frees the bit stream, then bs_free finds none; the frame buffers of a
\* decoder are not freed.
CloseH264Dec(s) == session[s].kind = "H264Dec" /\ CloseWith(s, {session[s].bitstream})
CloseJpegDec(s) == session[s].kind = "JPEGDec" /\ CloseWith(s, {session[s].bitstream})
FbFree(s) == session[s].fb
CloseH264Enc(s) == session[s].kind = "H264Enc" /\ CloseWith(s, FbFree(s) \cup {session[s].bitstream})
CloseJpegEnc(s) == session[s].kind = "JPEGEnc" /\ CloseWith(s, FbFree(s) \cup {session[s].bitstream})

VpuInit ==
  /\ memory = [b \in Blocks |-> Unused]
  /\ session = [s \in Sessions |-> Closed]
  /\ given = [s \in Sessions |-> {}]
  /\ locked = NoHandle

VpuNext == \E s \in Sessions :
  \/ OpenJpegDec(s) \/ OpenH264Enc(s) \/ OpenJpegEnc(s) \/ OpenH264Dec(s)
  \/ OpenH264DecFails(s) \/ OpenJpegEncFails(s)
  \/ Decode(s) \/ DecRegisterFails(s) \/ GetOutput(s)
  \/ Encode(s) \/ EncodeTimeout(s) \/ FillBody(s)
  \/ CloseH264Dec(s) \/ CloseJpegDec(s) \/ CloseH264Enc(s) \/ CloseJpegEnc(s)

VpuSpec == VpuInit /\ [][VpuNext]_vpuVars

-----------------------------------------------------------------------------

Named(s) == ({session[s].bitstream, session[s].ps} \ {NoBlock}) \cup session[s].fb
Lost == {b \in Blocks : memory[b] # Unused /\ \A s \in Sessions : b \notin Named(s)}

\* Whatever fails, a session holds only blocks that it took and no other session
\* has, and the VPU works with nothing else (vpu_fb.cpp:49, vpu_enc.cpp:116).
HeldOnce ==
  /\ \A s \in Sessions, b \in Blocks : b \in Named(s) => memory[b] # Unused /\ memory[b][1] = session[s].kind
  /\ \A s, t \in Sessions : s # t => Named(s) \cap Named(t) = {}
  /\ \A s \in Sessions : given[s] \subseteq Named(s)

\* The blocks nobody holds are those of closed decoders, and the bit stream of a
\* JPEG encoder that was not opened: an encoder that was closed has returned all
\* it had, retries and failures in between notwithstanding (vpu_enc_h264.cpp:104).
LostByDecoders ==
  \A b \in Lost : memory[b] \in {<<"H264Dec", "ps">>, <<"H264Dec", "fb">>, <<"JPEGDec", "fb">>, <<"JPEGEnc", "bitstream">>}

\* The VPU is locked without a frame being waited for only by an encoder that
\* timed out (vpu_dec.cpp:268: "must be called ... (even if failed)").
LockedByEncoders ==
  \A s \in Sessions :
    /\ session[s].busy => locked = s
    /\ locked = s /\ ~session[s].busy => session[s].kind \in Encoders

VpuIsKept == HeldOnce /\ LostByDecoders /\ LockedByEncoders
=============================================================================
