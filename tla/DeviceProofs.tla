----------------------------- MODULE DeviceProofs -----------------------------
(* Proofs about the smaller programs and drivers, one after another: the slots *)
(* of the framebuffer, the vertical blank, the child process, the file server, *)
(* the camera and the library of the VPU.                                      *)
EXTENDS FramebufferSlots, VSync, ChildProcess, FileServer, V4L2Capture, VpuCodec,
        FiniteSetTheorems, SequenceTheorems, TLAPS

-----------------------------------------------------------------------------
(* FramebufferSlots, for any threads, slots and displays.                      *)

Pcs == {"idle", "choose", "load", "store", "freeLoad", "freeStore"}

SlotsType ==
  /\ mask \subseteq Slots /\ used \subseteq Slots
  /\ lock \in Threads \cup {NoThread}
  /\ pc \in [Threads -> Pcs]
  /\ snapshot \in [Threads -> SUBSET Slots] /\ loaded \in [Threads -> SUBSET Slots]
  /\ slot \in [Threads -> Slots \cup {NoSlot}]
  /\ \A t \in Threads : pc[t] \in {"load", "store"} => slot[t] \in Slots
  /\ twice \in BOOLEAN /\ overlapped \in BOOLEAN

\* The lock is held by the thread that allocates.
LockHeld == \A t \in Threads : pc[t] \in {"choose", "load", "store"} <=> lock = t

Returning == {slot[t] : t \in {u \in Threads : Freeing(u)}}

\* The slot a thread gives back has no handle, and no other thread gives it back.
ReturnedOnce ==
  \A t \in Threads : Freeing(t) =>
    /\ slot[t] \in Slots \ used
    /\ \A u \in Threads : Freeing(u) /\ slot[u] = slot[t] => u = t

\* What an allocation has seen free is free until it takes it; what an update has
\* loaded is the mask until it stores.
ViewsAreCurrent ==
  \A t \in Threads :
    /\ pc[t] = "choose" => mask \subseteq snapshot[t]
    /\ pc[t] \in {"load", "store"} => slot[t] \in Slots \ mask
    /\ Between(t) => loaded[t] = mask

Current == ~twice /\ mask = used \cup Returning /\ ReturnedOnce /\ ViewsAreCurrent

SlotsInv ==
  /\ SlotsType
  /\ LockHeld
  /\ ~overlapped => Current

-----------------------------------------------------------------------------

\* Nobody has begun.
LEMMA SlotsInitInv == SlotsInit => SlotsInv
  BY SlotsAssumption DEF SlotsInit, SlotsInv, Current, SlotsType, Pcs, LockHeld, Returning, ReturnedOnce, ViewsAreCurrent, Freeing, Between

LEMMA AllocateInv == ASSUME NEW t \in Threads, SlotsInv, Allocate(t) PROVE SlotsInv'
<1> USE SlotsAssumption DEF SlotsInv, Current, Allocate, Freeing, Between
<1>1. SlotsType' BY DEF SlotsType, Pcs
<1>2. LockHeld' BY DEF SlotsType, LockHeld
<1>3. ASSUME ~overlapped PROVE Current'
  <2>1. \A u \in Threads : Freeing(u)' <=> Freeing(u) BY DEF SlotsType
  <2>2. Returning' = Returning BY <2>1 DEF Returning, SlotsType
  <2>3. ReturnedOnce' BY <1>3, <2>1 DEF ReturnedOnce
  <2>4. ViewsAreCurrent' BY <1>3 DEF ViewsAreCurrent, SlotsType
  <2> QED BY <1>3, <2>2, <2>3, <2>4
<1> QED BY <1>1, <1>2, <1>3

LEMMA ChooseInv == ASSUME NEW t \in Threads, NEW d \in Displays, SlotsInv, Choose(t, d) PROVE SlotsInv'
<1> USE SlotsAssumption DEF SlotsInv, Current, Choose, Freeing, Between
<1>1. SlotsType' BY DEF SlotsType, Pcs
<1>2. LockHeld' BY DEF SlotsType, LockHeld
<1>3. ASSUME ~overlapped PROVE Current'
  <2>1. PICK i \in Slots : Fits(i, d, snapshot[t]) /\ slot' = [slot EXCEPT ![t] = i]
    OBVIOUS
  <2>2. i \notin mask BY <1>3, <2>1 DEF Fits, ViewsAreCurrent
  <2>3. \A u \in Threads : (Freeing(u)' <=> Freeing(u)) /\ (Freeing(u) => slot'[u] = slot[u]) BY <2>1 DEF SlotsType
  <2>4. Returning' = Returning BY <2>3 DEF Returning
  <2>5. ReturnedOnce' BY <1>3, <2>3 DEF ReturnedOnce
  <2>6. ViewsAreCurrent' BY <1>3, <2>1, <2>2 DEF ViewsAreCurrent, SlotsType
  <2> QED BY <1>3, <2>4, <2>5, <2>6
<1> QED BY <1>1, <1>2, <1>3

LEMMA NoSlotFitsInv == ASSUME NEW t \in Threads, NEW d \in Displays, SlotsInv, NoSlotFits(t, d) PROVE SlotsInv'
<1> USE SlotsAssumption DEF SlotsInv, Current, NoSlotFits, Freeing, Between
<1>1. SlotsType' BY DEF SlotsType, Pcs
<1>2. LockHeld' BY DEF SlotsType, LockHeld
<1>3. ASSUME ~overlapped PROVE Current'
  <2>1. \A u \in Threads : Freeing(u)' <=> Freeing(u) BY DEF SlotsType
  <2>2. Returning' = Returning BY <2>1 DEF Returning, SlotsType
  <2>3. ReturnedOnce' BY <1>3, <2>1 DEF ReturnedOnce
  <2>4. ViewsAreCurrent' BY <1>3 DEF ViewsAreCurrent, SlotsType
  <2> QED BY <1>3, <2>2, <2>3, <2>4
<1> QED BY <1>1, <1>2, <1>3

LEMMA LoadInv == ASSUME NEW t \in Threads, SlotsInv, Load(t) PROVE SlotsInv'
<1> USE SlotsAssumption DEF SlotsInv, Current, Load, Freeing, Between
<1>1. SlotsType' BY DEF SlotsType, Pcs
<1>2. LockHeld' BY DEF SlotsType, LockHeld
<1>3. ASSUME ~overlapped PROVE Current'
  <2>1. \A u \in Threads : Freeing(u)' <=> Freeing(u) BY DEF SlotsType
  <2>2. Returning' = Returning BY <2>1 DEF Returning, SlotsType
  <2>3. ReturnedOnce' BY <1>3, <2>1 DEF ReturnedOnce
  <2>4. ViewsAreCurrent' BY <1>3 DEF ViewsAreCurrent, SlotsType
  <2> QED BY <1>3, <2>2, <2>3, <2>4
<1> QED BY <1>1, <1>2, <1>3

\* A store that nobody else has loaded before.
LEMMA StoreInv == ASSUME NEW t \in Threads, SlotsInv, Store(t) PROVE SlotsInv'
<1> USE SlotsAssumption DEF SlotsInv, Current, Store, LetGo, Freeing, Between
<1>1. SlotsType' BY DEF SlotsType, Pcs
<1>2. LockHeld' BY DEF SlotsType, LockHeld
<1>3. ASSUME ~overlapped' PROVE Current'
  <2>1. ~overlapped /\ \A u \in Threads \ {t} : ~Between(u) BY <1>3 DEF SlotsType
  <2>2. slot[t] \in Slots \ mask /\ loaded[t] = mask BY <2>1 DEF ViewsAreCurrent
  <2>3. \A u \in Threads : (Freeing(u)' <=> Freeing(u)) /\ (Freeing(u) => slot'[u] = slot[u]) BY DEF SlotsType
  <2>4. Returning' = Returning BY <2>3 DEF Returning
  <2>5. ~twice' /\ mask' = used' \cup Returning' BY <2>1, <2>2, <2>4 DEF SlotsType
  <2>6. \A u \in Threads : Freeing(u) => slot[u] \in mask BY <2>1 DEF Returning
  <2>7. ReturnedOnce' BY <2>1, <2>2, <2>3, <2>6 DEF ReturnedOnce
  <2>8. \A u \in Threads \ {t} : pc[u] \notin {"choose", "load", "store"} BY DEF LockHeld
  <2>9. ViewsAreCurrent' BY <2>1, <2>8 DEF ViewsAreCurrent, SlotsType
  <2> QED BY <2>5, <2>7, <2>9
<1> QED BY <1>1, <1>2, <1>3

LEMMA FreeInv == ASSUME NEW t \in Threads, SlotsInv, Free(t) PROVE SlotsInv'
<1> USE SlotsAssumption DEF SlotsInv, Current, Free, Freeing, Between
<1>1. SlotsType' BY DEF SlotsType, Pcs
<1>2. LockHeld' BY DEF SlotsType, LockHeld
<1>3. ASSUME ~overlapped PROVE Current'
  <2>1. PICK i \in used : used' = used \ {i} /\ slot' = [slot EXCEPT ![t] = i]
    OBVIOUS
  <2>2. i \in Slots BY DEF SlotsType
  <2>3. \A u \in Threads \ {t} : (Freeing(u)' <=> Freeing(u)) /\ slot'[u] = slot[u] BY <2>1 DEF SlotsType
  <2>4. Freeing(t)' /\ ~Freeing(t) /\ slot'[t] = i BY <2>1 DEF SlotsType
  <2>5. Returning' = Returning \cup {i} BY <2>3, <2>4 DEF Returning
  <2>6. mask' = used' \cup Returning' BY <1>3, <2>1, <2>5
  <2>7. ReturnedOnce' BY <1>3, <2>1, <2>2, <2>3, <2>4 DEF ReturnedOnce
  <2>8. ViewsAreCurrent' BY <1>3, <2>1 DEF ViewsAreCurrent, SlotsType
  <2> QED BY <1>3, <2>6, <2>7, <2>8
<1> QED BY <1>1, <1>2, <1>3

LEMMA FreeStoreInv == ASSUME NEW t \in Threads, SlotsInv, FreeStore(t) PROVE SlotsInv'
<1> USE SlotsAssumption DEF SlotsInv, Current, FreeStore, LetGo, Freeing, Between
<1>1. SlotsType' BY DEF SlotsType, Pcs
<1>2. LockHeld' BY DEF SlotsType, LockHeld
<1>3. ASSUME ~overlapped' PROVE Current'
  <2>1. ~overlapped /\ \A u \in Threads \ {t} : ~Between(u) BY <1>3 DEF SlotsType
  <2>2. loaded[t] = mask /\ mask' = mask \ {slot[t]} BY <2>1 DEF ViewsAreCurrent
  <2>3. \A u \in Threads \ {t} : (Freeing(u)' <=> Freeing(u)) /\ slot'[u] = slot[u] BY DEF SlotsType
  <2>4. ~Freeing(t)' /\ Freeing(t) BY DEF SlotsType
  <2>5. \A u \in Threads \ {t} : Freeing(u) => slot[u] # slot[t] BY <2>1, <2>4 DEF ReturnedOnce
  <2>6. Returning' = Returning \ {slot[t]}
    <3>1. \A i \in Returning' : i \in Returning /\ i # slot[t] BY <2>3, <2>4, <2>5 DEF Returning
    <3>2. \A i \in Returning : i # slot[t] => i \in Returning' BY <2>3 DEF Returning
    <3> QED BY <3>1, <3>2
  <2>7. slot[t] \notin used BY <2>1, <2>4 DEF ReturnedOnce
  <2>8. mask' = used' \cup Returning' BY <2>1, <2>2, <2>6, <2>7
  <2>9. ReturnedOnce' BY <2>1, <2>3, <2>4 DEF ReturnedOnce
  <2>10. ViewsAreCurrent' BY <2>1, <2>2 DEF ViewsAreCurrent, SlotsType
  <2> QED BY <2>1, <2>8, <2>9, <2>10
<1> QED BY <1>1, <1>2, <1>3

LEMMA SlotsStepInv == SlotsInv /\ [SlotsNext]_slotVars => SlotsInv'
<1> SUFFICES ASSUME SlotsInv, [SlotsNext]_slotVars PROVE SlotsInv'
  OBVIOUS
<1>1. ASSUME NEW t \in Threads, SlotStep(t) PROVE SlotsInv'
  BY <1>1, AllocateInv, ChooseInv, NoSlotFitsInv, LoadInv, StoreInv, FreeInv, FreeStoreInv DEF SlotStep
<1>2. CASE UNCHANGED slotVars
  BY <1>2 DEF slotVars, SlotsInv, Current, SlotsType, LockHeld, Returning, ReturnedOnce, ViewsAreCurrent, Freeing, Between
<1> QED BY <1>1, <1>2 DEF SlotsNext

\* The bit mask, the locks and the views of the threads stay consistent: what the
\* exclusiveness of the slots rests on.
THEOREM SlotsCorrect == SlotsSpec => []SlotsInv
<1> QED BY SlotsInitInv, SlotsStepInv, PTL DEF SlotsSpec

\* Unless a store falls between the load and the store of another thread
\* (gralloc_free takes no lock, gralloc.cpp:252), no slot of the framebuffer is
\* handed out twice and the mask is exact, for any number of slots and threads.
THEOREM SlotsExclusive == SlotsSpec => []SlotsAreExclusive
<1>1. SlotsInv => SlotsAreExclusive
  BY DEF SlotsInv, Current, SlotsAreExclusive, Returning
<1> QED BY <1>1, SlotsCorrect, PTL

-----------------------------------------------------------------------------
(* VSync, for any period.  That a time is a multiple of the period is kept as *)
(* the factor; two facts about division turn it into the remainder.           *)

LEMMA DivMod ==
  ASSUME NEW a \in Nat, NEW p \in Nat \ {0}
  PROVE  a \div p \in Nat /\ a % p \in 0..(p - 1) /\ a = p * (a \div p) + (a % p)
<1>1. a % p \in 0..(p - 1)
  OBVIOUS
<1>2. a = p * (a \div p) + (a % p)
  OBVIOUS
<1>3. a \div p \in Int
  OBVIOUS
<1>4. a \div p \in Nat
  BY <1>1, <1>2, <1>3
<1> QED
  BY <1>1, <1>2, <1>4

LEMMA MultipleMod == ASSUME NEW p \in Nat \ {0}, NEW q \in Nat PROVE (p * q) % p = 0
<1> DEFINE a == p * q
           d == q - (a \div p)
<1>1. a \in Nat
  OBVIOUS
<1>2. a \div p \in Nat /\ a % p \in 0..(p - 1) /\ a = p * (a \div p) + (a % p)
  BY <1>1, DivMod
<1>3. d \in Int /\ p * d = a % p
  BY <1>2
<1> HIDE DEF d
<1>4. ~(d >= 1)
  <2> SUFFICES ASSUME d >= 1 PROVE FALSE
    OBVIOUS
  <2>1. p * d >= p
    BY <1>3
  <2> QED
    BY <2>1, <1>2, <1>3
<1>5. ~(d <= -1)
  <2> SUFFICES ASSUME d <= -1 PROVE FALSE
    OBVIOUS
  <2>1. p * d <= -p
    BY <1>3
  <2> QED
    BY <2>1, <1>2, <1>3
<1> QED
  BY <1>3, <1>4, <1>5

Multiple(time) == \E q \in Nat : time = Period * q

LEMMA MultipleIsNat == ASSUME NEW time, Multiple(time) PROVE time \in Nat /\ time % Period = 0
  BY PeriodAssumption, MultipleMod DEF Multiple

LEMMA NextMultiple == ASSUME NEW time, Multiple(time) PROVE Multiple(time + Period)
<1>1. PICK q \in Nat : time = Period * q
  BY DEF Multiple
<1>2. time + Period = Period * (q + 1)
  BY <1>1, PeriodAssumption
<1> QED
  BY <1>2 DEF Multiple

VSyncType ==
  /\ now \in Nat \ {0} /\ enabled \in BOOLEAN /\ late \in {0, 1}
  /\ thread \in {"loop", "compute", "sleep"}
  /\ Multiple(next) /\ Multiple(target) /\ Multiple(fired)

\* A report is late once, and then the thread is not on its way to another one.
LateOnce ==
  /\ enabled => late = 0
  /\ late = 1 => thread = "loop"

Ahead ==
  /\ fired <= now
  /\ fired = 0 \/ fired < next
  /\ thread = "sleep" => fired < target /\ target < next

VSyncInv == VSyncType /\ LateOnce /\ Ahead

\* The report that is computed is a multiple, and after the last one.
LEMMA NextVSyncIsAhead ==
  ASSUME VSyncInv PROVE Multiple(NextVSync) /\ fired < NextVSync
<1>1. next \in Nat /\ fired \in Nat /\ now \in Nat \ {0}
  BY MultipleIsNat DEF VSyncInv, VSyncType
<1>2. CASE next >= now
  BY <1>1, <1>2 DEF NextVSync, VSyncInv, VSyncType, Ahead
<1>3. CASE ~(next >= now)
  <2> DEFINE a == now - next
  <2>1. a \in Nat
    BY <1>1, <1>3
  <2>2. a \div Period \in Nat /\ a % Period \in 0..(Period - 1) /\ a = Period * (a \div Period) + (a % Period)
    BY <2>1, DivMod, PeriodAssumption
  <2>3. NextVSync = now + Period - (a % Period)
    BY <1>3 DEF NextVSync
  <2>4. PICK q \in Nat : next = Period * q
    BY DEF VSyncInv, VSyncType, Multiple
  <2> HIDE DEF a
  <2>5. now = next + a
    BY <1>1 DEF a
  <2>6. NextVSync = next + Period * (a \div Period) + Period
    BY <1>1, <2>2, <2>3, <2>5, PeriodAssumption
  <2>7. NextVSync = Period * (q + (a \div Period) + 1)
    BY <2>2, <2>4, <2>6, PeriodAssumption
  <2>8. Multiple(NextVSync)
    BY <2>2, <2>7 DEF Multiple
  <2> QED
    BY <1>1, <2>2, <2>3, <2>8, PeriodAssumption DEF VSyncInv, Ahead
<1> QED
  BY <1>2, <1>3

LEMMA ComputeInv == VSyncInv /\ Compute => VSyncInv'
<1> SUFFICES ASSUME VSyncInv, Compute PROVE VSyncInv'
  OBVIOUS
<1>1. Multiple(target') /\ fired < target' /\ next' = target' + Period
  BY NextVSyncIsAhead DEF Compute
<1>2. Multiple(next') /\ target' \in Nat
  BY <1>1, NextMultiple, MultipleIsNat
<1>3. VSyncType'
  BY <1>1, <1>2 DEF VSyncInv, VSyncType, Compute, Multiple
<1>4. LateOnce'
  BY DEF VSyncInv, LateOnce, Compute, VSyncType
<1>5. fired \in Nat /\ now \in Nat
  BY MultipleIsNat DEF VSyncInv, VSyncType
<1>6. Ahead'
  BY <1>1, <1>2, <1>5, PeriodAssumption DEF VSyncInv, Ahead, Compute
<1> QED
  BY <1>3, <1>4, <1>6 DEF VSyncInv

LEMMA VSyncStepInv == VSyncInv /\ [VSyncNext]_vsyncVars => VSyncInv'
<1> SUFFICES ASSUME VSyncInv, [VSyncNext]_vsyncVars PROVE VSyncInv'
  OBVIOUS
<1>1. next \in Nat /\ fired \in Nat /\ now \in Nat \ {0} /\ target \in Nat
  BY MultipleIsNat DEF VSyncInv, VSyncType
<1> USE <1>1 DEF VSyncInv, VSyncType, LateOnce, Ahead, Multiple
<1>2. ASSUME NEW on \in BOOLEAN, SetEnabled(on) PROVE VSyncInv'
  BY <1>2 DEF SetEnabled
<1>3. CASE Awake
  BY <1>3 DEF Awake
<1>4. CASE Report
  BY <1>4 DEF Report
<1>5. CASE Interrupted
  BY <1>5 DEF Interrupted
<1>6. CASE Tick
  BY <1>6 DEF Tick
<1>7. CASE UNCHANGED vsyncVars
  BY <1>7 DEF vsyncVars
<1> QED
  BY <1>2, <1>3, <1>4, <1>5, <1>6, <1>7, ComputeInv DEF VSyncNext

\* Whatever signals and delays the thread meets, and however often it is switched on
\* and off, the reported times are multiples of the period, each once and in order
\* (vsync.cpp:33 to :61), for every period.
THEOREM VSyncCorrect == VSyncSpec => []VSyncIsRegular
<1>1. VSyncInit => VSyncInv
  <2>1. \E q \in Nat : q = 0 /\ 0 = Period * q
    BY PeriodAssumption
  <2>2. Multiple(0)
    BY <2>1 DEF Multiple
  <2> SUFFICES ASSUME VSyncInit PROVE VSyncInv
    OBVIOUS
  <2>3. Multiple(next) /\ Multiple(target) /\ Multiple(fired)
    BY <2>2, Zenon DEF VSyncInit
  <2>4. enabled \in BOOLEAN
    BY DEF VSyncInit
  <2>5. now \in Nat \ {0} /\ late \in {0, 1} /\ thread \in {"loop", "compute", "sleep"}
    BY DEF VSyncInit
  <2>6. VSyncType
    BY <2>3, <2>4, <2>5, Zenon DEF VSyncType
  <2> QED
    BY <2>6 DEF VSyncInit, VSyncInv, LateOnce, Ahead
<1>2. VSyncInv => VSyncIsRegular
  BY MultipleIsNat DEF VSyncInv, VSyncType, Ahead, VSyncIsRegular
<1> QED
  BY <1>1, <1>2, VSyncStepInv, PTL DEF VSyncSpec

-----------------------------------------------------------------------------
(* ChildProcess, for any pids and any number of calls.                        *)
ChildType ==
  /\ pid \in Pids \cup {NoPid}
  /\ procs \in [Pids -> {"free", "running", "zombie", "other"}]
  /\ again \in BOOLEAN

ChildInv == ChildType /\ ChildIsKept

LEMMA NoPidIsNone == NoPid \notin Pids
  BY ChildAssumption DEF NoPid

-----------------------------------------------------------------------------
(* What a call of create does, if it is the first since the end of the child. *)

\* There is nothing to write over.
LEMMA NothingOverwritten ==
  ASSUME ChildInv, Called, ~again', NEW S
  PROVE  ends = {} /\ pid = NoPid /\ Children = {} /\ Overwritten(S) = 0
<1>1. pid = NoPid /\ ends = {} /\ ~again
  BY DEF Called, ChildInv, ChildType
<1>2. dropped = 0 /\ Children \subseteq {NoPid}
  BY <1>1 DEF ChildInv, ChildIsKept
<1>3. Children = {}
  BY <1>2, NoPidIsNone DEF Children
<1>4. S \cap ends = {}
  BY <1>1
<1>5. Cardinality(S \cap ends) = 0
  BY <1>4, FS_EmptySet
<1> QED
  BY <1>1, <1>2, <1>3, <1>5 DEF Overwritten

\* A process of the system becomes the child of this one, and its pid the object's.
LEMMA ForkedChild ==
  ASSUME ChildType, NEW state \in {"running", "zombie"}, Forked(state)
  PROVE  /\ pid' \in Pids /\ pid' # NoPid
         /\ procs' \in [Pids -> {"free", "running", "zombie", "other"}]
         /\ Children' = Children \cup {pid'}
<1>1. PICK p \in Pids : pid' = p /\ procs' = [procs EXCEPT ![p] = state]
  BY DEF Forked
<1>2. procs' \in [Pids -> {"free", "running", "zombie", "other"}]
  BY <1>1 DEF ChildType
<1>3. Children' = Children \cup {p}
  BY <1>1 DEF Children, ChildType
<1> QED
  BY <1>1, <1>2, <1>3, NoPidIsNone

LEMMA InitFailsInv == ASSUME NEW streams \in SUBSET Streams, ChildInv, InitFails(streams) PROVE ChildInv'
<1>1. Called /\ ends' = {} /\ UNCHANGED <<pid, procs>>
  BY DEF InitFails, Release
<1>2. ChildType'
  BY <1>1 DEF ChildInv, ChildType, Called
<1>3. Children' = Children
  BY <1>1 DEF Children
<1>4. ASSUME ~again' PROVE dropped' = 0 /\ Children' \subseteq {pid'}
  <2>1. PICK n \in 1..3 : Release(Overwritten({i \in streams : i < n}))
    BY DEF InitFails
  <2>2. Overwritten({i \in streams : i < n}) = 0 /\ Children = {}
    BY <1>1, <1>4, NothingOverwritten
  <2> QED
    BY <1>3, <2>1, <2>2 DEF Release
<1> QED
  BY <1>1, <1>2, <1>3, <1>4 DEF ChildInv, ChildIsKept

LEMMA ForkFailsInv == ASSUME NEW streams \in SUBSET Streams, ChildInv, ForkFails(streams) PROVE ChildInv'
<1>1. Called /\ ends' = {} /\ dropped' = Overwritten(streams) /\ pid' = NoPid /\ procs' = procs
  BY DEF ForkFails, Release
<1>2. ChildType'
  BY <1>1 DEF ChildInv, ChildType, Called
<1>3. Children' = Children
  BY <1>1 DEF Children
<1>4. ASSUME ~again' PROVE dropped' = 0 /\ Children' \subseteq {pid'}
  BY <1>1, <1>3, <1>4, NothingOverwritten
<1> QED
  BY <1>1, <1>2, <1>4 DEF ChildInv, ChildIsKept

LEMMA ExecFailsInv == ASSUME NEW streams \in SUBSET Streams, ChildInv, ExecFails(streams) PROVE ChildInv'
<1>1. Called /\ dropped' = Overwritten(streams)
  BY DEF ExecFails, Release
<1>2. pid' \in Pids /\ pid' # NoPid /\ Children' = Children \cup {pid'} /\ ChildType'
  BY <1>1, ForkedChild DEF ExecFails, ChildInv, ChildType, Called
<1>3. ASSUME ~again' PROVE dropped' = 0 /\ Children' \subseteq {pid'}
  BY <1>1, <1>2, <1>3, NothingOverwritten
<1> QED
  BY <1>2, <1>3 DEF ChildInv, ChildIsKept

LEMMA CreatedInv ==
  ASSUME NEW streams \in SUBSET Streams, NEW fds, ChildInv, Created(streams, fds)
  PROVE  ChildInv'
<1>1. Called /\ dropped' = Overwritten(streams)
  BY DEF Created
<1>2. pid' \in Pids /\ pid' # NoPid /\ Children' = Children \cup {pid'} /\ ChildType'
  BY <1>1, ForkedChild DEF Created, ChildInv, ChildType, Called
<1>3. ASSUME ~again' PROVE dropped' = 0 /\ Children' \subseteq {pid'}
  BY <1>1, <1>2, <1>3, NothingOverwritten
<1> QED
  BY <1>2, <1>3 DEF ChildInv, ChildIsKept

-----------------------------------------------------------------------------
(* The other calls, and the system.                                           *)

LEMMA IsAliveInv == ChildInv /\ IsAlive => ChildInv'
<1> SUFFICES ASSUME ChildInv, IsAlive PROVE ChildInv'
  OBVIOUS
<1>1. pid' = NoPid /\ ends' = {} /\ dropped' = dropped /\ again' = again
  BY DEF IsAlive, Release
<1>2. ChildType'
  BY <1>1 DEF IsAlive, ChildInv, ChildType
<1>3. Children' = Children \ {pid}
  BY DEF IsAlive, Children, ChildInv, ChildType
<1> QED
  BY <1>1, <1>2, <1>3 DEF ChildInv, ChildIsKept

\* Signals and exits make zombies of children, and children of nobody else.
LEMMA SystemInv ==
  ASSUME ChildInv, Kill \/ \E p \in Pids : Runs(p)
  PROVE  ChildInv'
<1>1. UNCHANGED <<pid, ends, dropped, again>>
  BY DEF Kill, Runs
<1>2. procs' \in [Pids -> {"free", "running", "zombie", "other"}]
  BY DEF Kill, Runs, ChildInv, ChildType
<1>3. \A p \in Pids : procs'[p] \in {"running", "zombie"} <=> procs[p] \in {"running", "zombie"}
  BY DEF Kill, Runs, ChildInv, ChildType
<1>4. Children' = Children
  BY <1>3 DEF Children
<1> QED
  BY <1>1, <1>2, <1>4 DEF ChildInv, ChildType, ChildIsKept

LEMMA ChildStepInv == ChildInv /\ [ChildNext]_childVars => ChildInv'
<1> SUFFICES ASSUME ChildInv, [ChildNext]_childVars PROVE ChildInv'
  OBVIOUS
<1>1. CASE Create
  BY <1>1, InitFailsInv, ForkFailsInv, ExecFailsInv, CreatedInv DEF Create
<1>2. CASE UNCHANGED childVars
  BY <1>2 DEF childVars, ChildInv, ChildType, ChildIsKept, Children
<1> QED
  BY <1>1, <1>2, IsAliveInv, SystemInv DEF ChildNext

\* The pid of the object is a child's, never one that has been given back (so that
\* isAlive waits for, and kill reaches, no process of somebody else), and nothing of
\* a child is lost between two calls of create, whatever fails in them.
THEOREM ChildCorrect == ChildSpec => []ChildIsKept
<1>1. ChildInit => ChildInv
  <2> SUFFICES ASSUME ChildInit PROVE ChildInv
    OBVIOUS
  <2>1. Children = {}
    BY DEF ChildInit, Children
  <2> QED
    BY <2>1, NoPidIsNone DEF ChildInit, ChildInv, ChildType, ChildIsKept
<1>2. ChildInv => ChildIsKept
  BY DEF ChildInv
<1> QED
  BY <1>1, <1>2, ChildStepInv, PTL DEF ChildSpec

-----------------------------------------------------------------------------
(* FileServer, for any connections, names and lengths.                        *)

Part(c, n) == [k \in 1..n |-> <<c, k>>]
Pieces == (Connections \X Nat) \cup {Zeros}

ConnPcs == {"idle", "upload", "write", "download", "send", "sent", "done"}
Conn == [pc : ConnPcs, path : Paths \cup {<<>>}, got : Nat, at : Nat, size : Nat, sent : Seq(Pieces), whole : Seq(Pieces)]

ServerType ==
  /\ conn \in [Connections -> Conn]
  /\ files \in [DOMAIN files -> Seq(Pieces)]
  /\ \A c \in Those({"write", "send"}) : Name(conn[c].path) \in DOMAIN files
  /\ \A c \in Those({"upload", "download"}) : conn[c].at = 0 /\ conn[c].sent = <<>>

\* A file that was never open twice is the beginning of one upload; the one who
\* writes it has it alone and has written it all; who sends it has sent a beginning.
OneUpload == \A n \in DOMAIN files \ mixed : \E c \in Connections : files[n] = Part(c, Len(files[n]))

WritesAlone ==
  \A c \in Those({"write"}) : Name(conn[c].path) \notin mixed =>
    /\ files[Name(conn[c].path)] = Part(c, conn[c].at)
    /\ \A d \in Those({"write", "send"}) : Name(conn[d].path) = Name(conn[c].path) => d = c

Sends(r, file) == r.whole = file /\ r.size = Len(file) /\ r.at <= Len(file) /\ r.sent = SubSeq(file, 1, r.at)

SendsTheFile ==
  /\ \A c \in Those({"send"}) : Name(conn[c].path) \notin mixed => Sends(conn[c], files[Name(conn[c].path)])
  /\ \A c \in Those({"sent"}) : Name(conn[c].path) \notin mixed => conn[c].sent = conn[c].whole

ServerInv == ServerType /\ OneUpload /\ WritesAlone /\ SendsTheFile

LEMMA PartIsSeq ==
  ASSUME NEW c \in Connections, NEW n \in Nat
  PROVE  Part(c, n) \in Seq(Pieces) /\ Len(Part(c, n)) = n
  BY DEF Part, Pieces

LEMMA NothingIsPart == ASSUME NEW c \in Connections PROVE <<>> = Part(c, 0)
<1>1. Part(c, 0) \in Seq(Pieces) /\ Len(Part(c, 0)) = 0
  BY PartIsSeq
<1> QED
  BY <1>1, EmptySeq

\* The next piece behind a part makes the next part.
LEMMA WrittenPart ==
  ASSUME NEW c \in Connections, NEW n \in Nat
  PROVE  Written(Part(c, n), n + 1, <<c, n + 1>>) = Part(c, n + 1)
<1>1. Len(Part(c, n)) = n
  BY PartIsSeq
<1>2. Written(Part(c, n), n + 1, <<c, n + 1>>) =
        [i \in 1..n + 1 |-> IF i = n + 1 THEN <<c, n + 1>> ELSE IF i <= n THEN Part(c, n)[i] ELSE Zeros]
  BY <1>1 DEF Written
<1>3. \A i \in 1..n : Part(c, n)[i] = <<c, i>>
  BY DEF Part
<1>4. \A i \in 1..n + 1 : (IF i = n + 1 THEN <<c, n + 1>> ELSE IF i <= n THEN Part(c, n)[i] ELSE Zeros) = <<c, i>>
  BY <1>3
<1> QED
  BY <1>2, <1>4, Zenon DEF Part

LEMMA WrittenIsSeq ==
  ASSUME NEW s \in Seq(Pieces), NEW k \in Nat \ {0}, NEW piece \in Pieces
  PROVE  Written(s, k, piece) \in Seq(Pieces)
<1>1. Len(s) \in Nat /\ \A i \in 1..Len(s) : s[i] \in Pieces
  BY LenProperties, ElementOfSeq
<1> DEFINE n == IF k > Len(s) THEN k ELSE Len(s)
<1>2. n \in Nat
  BY <1>1
<1>3. \A i \in 1..n : (IF i = k THEN piece ELSE IF i <= Len(s) THEN s[i] ELSE Zeros) \in Pieces
  BY <1>1 DEF Pieces
<1>4. Written(s, k, piece) \in [1..n -> Pieces]
  BY <1>3 DEF Written
<1> QED
  BY <1>2, <1>4, SeqDef

LEMMA NoRequestIsConn == NoRequest \in Conn /\ Over \in Conn /\ Over.pc = "done"
  BY EmptySeq DEF NoRequest, Over, Conn, ConnPcs

LEMMA ServerInitInv == FileServerInit => ServerInv
<1> SUFFICES ASSUME FileServerInit PROVE ServerInv
  OBVIOUS
<1>1. \A c \in Connections : conn[c] \in Conn /\ conn[c].pc = "idle"
  BY NoRequestIsConn DEF FileServerInit, NoRequest
<1>2. DOMAIN files = {}
  BY DEF FileServerInit
<1>3. \A pcs : "idle" \notin pcs => Those(pcs) = {}
  BY <1>1 DEF Those
<1>4. conn \in [Connections -> Conn] /\ files \in [DOMAIN files -> Seq(Pieces)]
  BY <1>1, <1>2 DEF FileServerInit
<1> QED
  BY <1>2, <1>3, <1>4 DEF ServerInv, ServerType, OneUpload, WritesAlone, SendsTheFile

\* The steps that write no file: connection c becomes r.
Becomes(c, r) == conn' = [conn EXCEPT ![c] = r]

LEMMA OthersStay ==
  ASSUME ServerType, NEW c \in Connections, NEW r, Becomes(c, r)
  PROVE  conn'[c] = r /\ \A d \in Connections \ {c} : conn'[d] = conn[d]
  BY DEF ServerType, Becomes

LEMMA NotWritten ==
  ASSUME ServerInv, NEW c \in Connections, NEW r \in Conn, Becomes(c, r),
         UNCHANGED files, mixed \subseteq mixed', r.pc # "write",
         r.pc \in {"upload", "download"} => r.at = 0 /\ r.sent = <<>>,
         r.pc = "send" => /\ Name(r.path) \in DOMAIN files
                          /\ Name(r.path) \notin mixed' =>
                               Sends(r, files[Name(r.path)]) /\ ThoseAt(Name(r.path), {"write"}) \subseteq {c},
         r.pc = "sent" => (Name(r.path) \notin mixed' => r.sent = r.whole)
  PROVE  ServerInv'
<1>1. conn'[c] = r /\ \A d \in Connections \ {c} : conn'[d] = conn[d]
  BY OthersStay DEF ServerInv
<1>2. conn' \in [Connections -> Conn]
  BY DEF Becomes, ServerInv, ServerType
<1>3. ServerType'
  BY <1>1, <1>2 DEF ServerInv, ServerType, Those
<1>4. OneUpload'
  BY DEF ServerInv, OneUpload
<1>5. WritesAlone'
  BY <1>1 DEF ServerInv, WritesAlone, Those, ThoseAt
<1>6. SendsTheFile'
  <2>1. ASSUME NEW d \in Connections, conn'[d].pc = "send", Name(conn'[d].path) \notin mixed'
        PROVE  Sends(conn'[d], files'[Name(conn'[d].path)])
    BY <1>1, <2>1 DEF ServerInv, SendsTheFile, Those
  <2>2. ASSUME NEW d \in Connections, conn'[d].pc = "sent", Name(conn'[d].path) \notin mixed'
        PROVE  conn'[d].sent = conn'[d].whole
    BY <1>1, <2>2 DEF ServerInv, SendsTheFile, Those
  <2> QED
    BY <2>1, <2>2 DEF SendsTheFile, Those
<1> QED
  BY <1>3, <1>4, <1>5, <1>6 DEF ServerInv

LEMMA ReceiveInv == ASSUME ServerInv, NEW c \in Connections, Receive(c) \/ ReceiveNothing(c) PROVE ServerInv'
<1>1. CASE Receive(c)
  <2>1. PICK p \in Paths, n \in Nat, kind \in {"upload", "download"} :
          Becomes(c, [NoRequest EXCEPT !.pc = kind, !.path = p, !.got = n])
    <3>1. 0 \in Nat /\ 0..Length \subseteq Nat
      BY ServerAssumption
    <3> QED
      BY <1>1, <3>1 DEF Receive, Becomes
  <2> DEFINE r == [NoRequest EXCEPT !.pc = kind, !.path = p, !.got = n]
  <2>2. r \in Conn
    BY NoRequestIsConn DEF Conn, ConnPcs
  <2>3. r.pc = kind /\ r.at = 0 /\ r.sent = <<>>
    BY DEF NoRequest
  <2> QED
    BY <1>1, <2>1, <2>2, <2>3, NotWritten DEF Receive
<1>2. CASE ReceiveNothing(c)
  BY <1>2, NoRequestIsConn, NotWritten DEF ReceiveNothing, Becomes
<1> QED
  BY <1>1, <1>2

LEMMA EndsInv ==
  ASSUME ServerInv, NEW c \in Connections, CannotOpen(c) \/ CloseWritten(c) \/ SendFails(c)
  PROVE  ServerInv'
  BY NoRequestIsConn, NotWritten DEF CannotOpen, CloseWritten, SendFails, Becomes

LEMMA OpenToSendInv == ASSUME ServerInv, NEW c \in Connections, OpenToSend(c) PROVE ServerInv'
<1> DEFINE name == Name(conn[c].path)
           r == [conn[c] EXCEPT !.pc = "send", !.size = Len(files[name]), !.whole = files[name]]
<1>1. conn[c] \in Conn /\ conn \in [Connections -> Conn]
  BY DEF ServerInv, ServerType
<1>2. CASE name \notin DOMAIN files
  <2>1. Becomes(c, Over)
    BY <1>1, <1>2 DEF OpenToSend, Becomes
  <2> QED
    BY <1>2, <2>1, NoRequestIsConn, NotWritten DEF OpenToSend
<1>3. CASE name \in DOMAIN files
  <2>1. Becomes(c, r)
    BY <1>1, <1>3 DEF OpenToSend, Becomes
  <2>2. files[name] \in Seq(Pieces) /\ Len(files[name]) \in Nat
    BY <1>3 DEF ServerInv, ServerType
  <2>3. r \in Conn /\ r.pc = "send" /\ r.path = conn[c].path
    BY <1>1, <2>2 DEF Conn, ConnPcs
  <2>4. Sends(r, files[name])
    <3>1. conn[c].at = 0 /\ conn[c].sent = <<>>
      BY DEF OpenToSend, ServerInv, ServerType, Those
    <3>2. r.at = 0 /\ r.sent = <<>> /\ r.size = Len(files[name]) /\ r.whole = files[name]
      BY <1>1, <3>1 DEF Conn
    <3>3. SubSeq(files[name], 1, 0) = <<>>
      BY SubSeqEmpty
    <3> HIDE DEF r, name
    <3> QED
      BY <2>2, <3>2, <3>3 DEF Sends
  <2>5. name \notin mixed' => ThoseAt(name, {"write"}) = {}
    BY <1>3 DEF OpenToSend
  <2> QED
    BY <1>3, <2>1, <2>3, <2>4, <2>5, NotWritten DEF OpenToSend
<1> QED
  BY <1>2, <1>3

LEMMA SendBufferInv == ASSUME ServerInv, NEW c \in Connections, SendBuffer(c) PROVE ServerInv'
<1> DEFINE name == Name(conn[c].path)
           file == files[name]
           k == conn[c].at
           n == IF k + Buffer <= Len(file) THEN k + Buffer ELSE Len(file)
           r == [conn[c] EXCEPT !.at = n, !.sent = @ \o SubSeq(file, k + 1, n)]
<1>1. conn[c] \in Conn /\ conn[c].pc = "send" /\ k < n /\ name \in DOMAIN files
  BY DEF SendBuffer, ServerInv, ServerType, Those
<1>2. Becomes(c, r)
  BY <1>1 DEF SendBuffer, Becomes, ServerInv, ServerType
<1>3. file \in Seq(Pieces) /\ Len(file) \in Nat /\ k \in Nat /\ n \in Nat /\ n <= Len(file)
  BY <1>1, ServerAssumption DEF ServerInv, ServerType, Conn
<1>4. SubSeq(file, k + 1, n) \in Seq(Pieces)
  BY <1>3, ElementOfSeq, SubSeqProperties
<1>5. conn[c].sent \o SubSeq(file, k + 1, n) \in Seq(Pieces)
  BY <1>1, <1>4, ConcatProperties DEF Conn
<1>6. r \in Conn /\ r.pc = "send" /\ r.path = conn[c].path
  BY <1>1, <1>3, <1>5 DEF Conn
<1>7. ASSUME name \notin mixed PROVE Sends(r, file) /\ ThoseAt(name, {"write"}) \subseteq {c}
  <2>1. Sends(conn[c], file)
    BY <1>1, <1>7 DEF ServerInv, SendsTheFile, Those
  <2>2. SubSeq(file, 1, k) \o SubSeq(file, k + 1, n) = SubSeq(file, 1, n)
    <3>1. 1 \in 1..Len(file) + 1 /\ k \in 1 - 1..Len(file) /\ n \in k..Len(file)
      BY <1>1, <1>3
    <3> HIDE DEF file, n, k
    <3> QED
      BY <1>3, <3>1, ConcatAdjacentSubSeq
  <2>3. r.at = n /\ r.sent = conn[c].sent \o SubSeq(file, k + 1, n) /\ r.whole = conn[c].whole /\ r.size = conn[c].size
    BY <1>1 DEF Conn
  <2>4. Sends(r, file)
    <3> HIDE DEF r, n, k, file
    <3> QED
      BY <1>3, <2>1, <2>2, <2>3 DEF Sends, k
  <2>5. ThoseAt(name, {"write"}) \subseteq {c}
    BY <1>1, <1>7 DEF ServerInv, WritesAlone, ThoseAt, Those
  <2> QED
    BY <2>4, <2>5
<1> HIDE DEF r, file
<1> QED
  BY <1>1, <1>2, <1>6, <1>7, NotWritten DEF SendBuffer, file

LEMMA CloseSentInv == ASSUME ServerInv, NEW c \in Connections, CloseSent(c) PROVE ServerInv'
<1> DEFINE name == Name(conn[c].path)
           file == files[name]
           r == [conn[c] EXCEPT !.pc = "sent"]
<1>1. conn[c] \in Conn /\ conn[c].pc = "send" /\ name \in DOMAIN files
  BY DEF CloseSent, ServerInv, ServerType, Those
<1>2. Becomes(c, r)
  BY <1>1 DEF CloseSent, Becomes, ServerInv, ServerType
<1>3. r \in Conn /\ r.pc = "sent" /\ r.path = conn[c].path /\ r.sent = conn[c].sent /\ r.whole = conn[c].whole
  BY <1>1 DEF Conn, ConnPcs
<1>4. ASSUME name \notin mixed PROVE conn[c].sent = conn[c].whole
  <2>1. Sends(conn[c], file)
    BY <1>1, <1>4 DEF ServerInv, SendsTheFile, Those
  <2>2. file \in Seq(Pieces) /\ Len(file) \in Nat /\ conn[c].at \in Nat
    BY <1>1 DEF ServerInv, ServerType, Conn
  <2>3. conn[c].at = Len(file)
    BY <2>1, <2>2 DEF CloseSent, Sends
  <2> QED
    BY <2>1, <2>2, <2>3, SubSeqFull DEF Sends
<1> HIDE DEF r
<1> QED
  BY <1>2, <1>3, <1>4, NotWritten DEF CloseSent

\* The steps of a writer: the file of c becomes file, and c becomes r.
LEMMA FileWritten ==
  ASSUME ServerInv, NEW c \in Connections, NEW r \in Conn, NEW file \in Seq(Pieces), NEW name,
         Becomes(c, r), r.pc = "write", name = Name(r.path), conn[c].path = r.path,
         files' = [n \in DOMAIN files \cup {name} |-> IF n = name THEN file ELSE files[n]],
         mixed \subseteq mixed',
         name \notin mixed' => file = Part(c, r.at) /\ ThoseAt(name, {"write", "send"}) \subseteq {c}
  PROVE  ServerInv'
<1>1. conn'[c] = r /\ \A d \in Connections \ {c} : conn'[d] = conn[d]
  BY OthersStay DEF ServerInv
<1>2. conn' \in [Connections -> Conn]
  BY DEF Becomes, ServerInv, ServerType
<1>3. ServerType'
  BY <1>1, <1>2 DEF ServerInv, ServerType, Those
<1>4. name \notin mixed' => file = Part(c, Len(file))
  BY PartIsSeq DEF Conn
<1>5. OneUpload'
  BY <1>4 DEF ServerInv, OneUpload
<1>6. ASSUME NEW d \in Connections \ {c}, Name(conn[d].path) = name, name \notin mixed'
      PROVE  conn[d].pc \notin {"write", "send"}
  BY <1>6 DEF Those, ThoseAt
<1>7. ASSUME NEW d \in Those({"write", "send"}), d # c, Name(conn[d].path) \notin mixed'
      PROVE  Name(conn[d].path) # name /\ files'[Name(conn[d].path)] = files[Name(conn[d].path)]
  BY <1>6, <1>7 DEF ServerInv, ServerType, Those
<1>8. WritesAlone'
  <2>1. ASSUME NEW d \in Connections \ {c}, conn[d].pc = "write", Name(conn[d].path) \notin mixed',
               NEW e \in Connections, conn'[e].pc \in {"write", "send"}, Name(conn'[e].path) = Name(conn[d].path)
        PROVE  e = d
    <3>1. d \in Those({"write"}) /\ d \in Those({"write", "send"}) /\ Name(conn[d].path) # name
      BY <1>7, <2>1 DEF Those
    <3>2. e # c /\ conn'[e] = conn[e]
      BY <1>1, <2>1, <3>1
    <3> QED
      BY <2>1, <3>1, <3>2 DEF ServerInv, WritesAlone, Those
  <2>2. ASSUME NEW d \in Connections \ {c}, conn[d].pc = "write", Name(conn[d].path) \notin mixed'
        PROVE  files'[Name(conn[d].path)] = Part(d, conn[d].at)
    BY <1>7, <2>2 DEF ServerInv, WritesAlone, Those
  <2>3. ASSUME name \notin mixed'
        PROVE  files'[name] = Part(c, r.at) /\ \A e \in Connections : conn'[e].pc \in {"write", "send"} /\ Name(conn'[e].path) = name => e = c
    BY <1>1, <1>6, <2>3
  <2>4. ASSUME NEW d \in Connections, conn'[d].pc = "write", Name(conn'[d].path) \notin mixed'
        PROVE  /\ files'[Name(conn'[d].path)] = Part(d, conn'[d].at)
               /\ \A e \in Connections : conn'[e].pc \in {"write", "send"} /\ Name(conn'[e].path) = Name(conn'[d].path) => e = d
    <3>1. CASE d = c
      BY <1>1, <2>3, <2>4, <3>1
    <3>2. CASE d # c
      BY <1>1, <2>1, <2>2, <2>4, <3>2
    <3> QED
      BY <3>1, <3>2
  <2> QED
    BY <2>4 DEF WritesAlone, Those
<1>9. SendsTheFile'
  <2>1. ASSUME NEW d \in Connections, conn'[d].pc = "send", Name(conn'[d].path) \notin mixed'
        PROVE  Sends(conn'[d], files'[Name(conn'[d].path)])
    BY <1>1, <1>7, <2>1 DEF ServerInv, SendsTheFile, Those
  <2>2. ASSUME NEW d \in Connections, conn'[d].pc = "sent", Name(conn'[d].path) \notin mixed'
        PROVE  conn'[d].sent = conn'[d].whole
    BY <1>1, <2>2 DEF ServerInv, SendsTheFile, Those
  <2> QED
    BY <2>1, <2>2 DEF SendsTheFile, Those
<1> QED
  BY <1>3, <1>5, <1>8, <1>9 DEF ServerInv

LEMMA OpenToWriteInv == ASSUME ServerInv, NEW c \in Connections, OpenToWrite(c) PROVE ServerInv'
<1> DEFINE name == Name(conn[c].path)
           r == [conn[c] EXCEPT !.pc = "write"]
<1>1. conn[c] \in Conn /\ conn[c].pc = "upload" /\ conn[c].at = 0
  BY DEF OpenToWrite, ServerInv, ServerType, Those
<1>2. Becomes(c, r)
  BY <1>1 DEF OpenToWrite, Becomes, ServerInv, ServerType
<1>3. r \in Conn /\ r.pc = "write" /\ r.path = conn[c].path /\ r.at = 0
  BY <1>1 DEF Conn, ConnPcs
<1>4. <<>> \in Seq(Pieces) /\ <<>> = Part(c, 0)
  BY EmptySeq, NothingIsPart
<1>5. mixed \subseteq mixed' /\ (name \notin mixed' => ThoseAt(name, {"write", "send"}) = {})
  BY DEF OpenToWrite
<1>6. files' = [n \in DOMAIN files \cup {name} |-> IF n = name THEN <<>> ELSE files[n]]
  BY DEF OpenToWrite
<1> HIDE DEF r, name
<1> QED
  BY <1>1, <1>2, <1>3, <1>4, <1>5, <1>6, FileWritten DEF name

LEMMA WritePieceInv == ASSUME ServerInv, NEW c \in Connections, WritePiece(c) PROVE ServerInv'
<1> DEFINE name == Name(conn[c].path)
           k == conn[c].at + 1
           r == [conn[c] EXCEPT !.at = k]
           file == Written(files[name], k, <<c, k>>)
<1>1. conn[c] \in Conn /\ conn[c].pc = "write" /\ name \in DOMAIN files /\ files[name] \in Seq(Pieces)
  BY DEF WritePiece, ServerInv, ServerType, Those
<1>2. Becomes(c, r)
  BY <1>1 DEF WritePiece, Becomes, ServerInv, ServerType
<1>3. k \in Nat \ {0}
  BY <1>1 DEF Conn
<1>4. r \in Conn /\ r.pc = "write" /\ r.path = conn[c].path /\ r.at = k
  <2> HIDE DEF k
  <2> QED
    BY <1>1, <1>3 DEF Conn
<1>5. <<c, k>> \in Pieces
  BY <1>3 DEF Pieces
<1>6. file \in Seq(Pieces)
  BY <1>1, <1>3, <1>5, WrittenIsSeq
<1>7. name \notin mixed => file = Part(c, k) /\ ThoseAt(name, {"write", "send"}) \subseteq {c}
  <2>1. conn[c].at \in Nat
    BY <1>1 DEF Conn
  <2> QED
    BY <1>1, <2>1, WrittenPart DEF ServerInv, WritesAlone, Those, ThoseAt
<1>8. mixed' = mixed
  BY DEF WritePiece
<1>9. files' = [n \in DOMAIN files \cup {name} |-> IF n = name THEN file ELSE files[n]]
  BY <1>1 DEF WritePiece, ServerInv, ServerType
<1> HIDE DEF r, name, file, k
<1> QED
  BY <1>1, <1>2, <1>4, <1>6, <1>7, <1>8, <1>9, FileWritten DEF name

LEMMA ServerStepInv == ServerInv /\ [FileServerNext]_fileVars => ServerInv'
<1> SUFFICES ASSUME ServerInv, [FileServerNext]_fileVars PROVE ServerInv'
  OBVIOUS
<1>1. ASSUME NEW c \in Connections, ServerStep(c) PROVE ServerInv'
  BY <1>1, ReceiveInv, EndsInv, OpenToWriteInv, WritePieceInv, OpenToSendInv, SendBufferInv, CloseSentInv DEF ServerStep
<1>2. CASE UNCHANGED fileVars
  BY <1>2 DEF fileVars, ServerInv, ServerType, OneUpload, WritesAlone, SendsTheFile, Those, ThoseAt
<1> QED
  BY <1>1, <1>2 DEF FileServerNext

\* For any number of connections, lengths and names: unless two had a name open at a
\* time, one of them to write (utils.cpp:116), a file is the beginning of one upload
\* and a download that came to its end is the file that was announced.
THEOREM ServerCorrect == FileServerSpec => []FilesAreWhole
<1>1. ServerInv => FilesAreWhole
  BY DEF ServerInv, OneUpload, SendsTheFile, FilesAreWhole, Part
<1> QED
  BY <1>1, ServerInitInv, ServerStepInv, PTL DEF FileServerSpec

-----------------------------------------------------------------------------
(* V4L2Capture, for any driver and any settings.                              *)

Fields == {"handle", "over", "ok", "set", "half", "bufferSize", "request", "index", "count",
           "queued", "lost", "mapped", "streaming", "refused", "torn", "stuck"}

Shape(c) ==
  /\ DOMAIN c = Fields
  /\ c.bufferSize \in Nat /\ c.request \in Nat

\* Nothing is mapped, unless a mapping was torn.
Cleared(c) ==
  /\ ~c.torn => c.mapped = {}
  /\ ~c.refused => Indices(c.bufferSize) \subseteq c.mapped

\* Nothing is mapped and nothing is held: the camera can start, or it is stuck.
Prepared(c) == (c.streaming => c.stuck) /\ c.index = -1 /\ Cleared(c)

\* Each buffer is in the queue, held, or lost.
Running(c) ==
  /\ c.streaming /\ c.count = c.bufferSize /\ c.mapped = Indices(c.count)
  /\ c.queued \subseteq c.mapped
  /\ c.mapped \ (c.queued \cup {c.index}) \subseteq c.lost
  /\ c.index # -1 => c.index \in c.mapped \ c.queued

Rests(c) == Shape(c) /\ (Prepared(c) \/ Running(c) \/ (c.streaming /\ c.stuck /\ Cleared(c)))

CaptureInv ==
  /\ Rests(cam) /\ (cam.streaming => cam.handle)
  /\ SetIsTrue

LEMMA NoIndices == Indices(0) = {} /\ \A n \in Nat : Indices(n) \subseteq Nat /\ -1 \notin Indices(n)
  BY DEF Indices

-----------------------------------------------------------------------------
(* What the steps of init_capture lead to.  A step that fails leaves a camera *)
(* that can start, so that set can try again.                                 *)

LEMMA Negotiated ==
  ASSUME NEW c, Shape(c), Prepared(c), NEW d \in Negotiate(c)
  PROVE  Shape(d) /\ Prepared(d) /\ d.handle = c.handle
  BY DEF Negotiate, Shape, Prepared, Cleared, Fields

LEMMA Requested ==
  ASSUME NEW c, Shape(c), Prepared(c), c.ok, NEW d \in RequestBuffers(c)
  PROVE  /\ Shape(d) /\ d.index = -1 /\ d.handle = c.handle
         /\ ~d.ok => Prepared(d)
         /\ d.ok => ~d.streaming /\ d.mapped = {} /\ d.count = d.bufferSize
<1>1. CASE \E n \in 0..c.request : d = [c EXCEPT !.bufferSize = n, !.ok = FALSE, !.refused = TRUE]
  <2>1. PICK n \in 0..c.request : d = [c EXCEPT !.bufferSize = n, !.ok = FALSE, !.refused = TRUE]
    BY <1>1
  <2>2. n \in Nat
    BY DEF Shape
  <2>3. DOMAIN d = Fields /\ d.bufferSize = n /\ d.ok = FALSE /\ d.refused = TRUE /\ d.request = c.request
        /\ d.handle = c.handle /\ d.streaming = c.streaming /\ d.torn = c.torn /\ d.stuck = c.stuck /\ d.index = c.index /\ d.mapped = c.mapped
    BY <2>1 DEF Shape, Fields
  <2> QED
    BY <2>2, <2>3 DEF Shape, Prepared, Cleared
<1>2. CASE c.mapped = {} /\ ~c.streaming /\ \E n \in 1..MaxBuffers : d = [c EXCEPT !.bufferSize = n, !.count = n, !.ok = TRUE]
  <2>1. PICK n \in 1..MaxBuffers : d = [c EXCEPT !.bufferSize = n, !.count = n, !.ok = TRUE]
    BY <1>2
  <2>2. n \in Nat
    BY CaptureAssumption
  <2>3. DOMAIN d = Fields /\ d.bufferSize = n /\ d.count = n /\ d.ok = TRUE /\ d.refused = c.refused /\ d.request = c.request
        /\ d.handle = c.handle /\ d.streaming = c.streaming /\ d.torn = c.torn /\ d.stuck = c.stuck /\ d.index = c.index /\ d.mapped = c.mapped
    BY <2>1 DEF Shape, Fields
  <2> QED
    BY <1>2, <2>2, <2>3 DEF Shape, Prepared, Cleared
<1>3. \/ \E n \in 0..c.request : d = [c EXCEPT !.bufferSize = n, !.ok = FALSE, !.refused = TRUE]
      \/ c.mapped = {} /\ ~c.streaming /\ \E n \in 1..MaxBuffers : d = [c EXCEPT !.bufferSize = n, !.count = n, !.ok = TRUE]
  BY DEF RequestBuffers
<1> QED
  BY <1>1, <1>2, <1>3

LEMMA Freed ==
  ASSUME NEW c, Shape(c), c.index = -1, NEW d \in FreeBuffers(c)
  PROVE  /\ Shape(d) /\ (d.streaming => d.stuck /\ c.streaming) /\ d.index = -1
         /\ d.mapped = c.mapped /\ d.torn = c.torn /\ d.handle = c.handle
         /\ (~c.torn => c.mapped = {}) => Prepared(d)
<1>1. /\ DOMAIN d = Fields /\ d.bufferSize = 0 /\ d.refused = FALSE /\ d.request = c.request
      /\ d.handle = c.handle /\ d.torn = c.torn /\ d.index = c.index /\ d.mapped = c.mapped
      /\ (d.streaming = c.streaming /\ d.stuck = c.streaming) \/ d.streaming = FALSE
  BY DEF FreeBuffers, Shape, Fields
<1>2. Shape(d)
  BY <1>1 DEF Shape
<1>3. d.streaming => d.stuck /\ c.streaming
  BY <1>1
<1>4. ASSUME ~c.torn => c.mapped = {} PROVE Prepared(d)
  BY <1>1, <1>3, <1>4, NoIndices DEF Shape, Prepared, Cleared
<1> QED
  BY <1>1, <1>2, <1>3, <1>4

LEMMA CreatedBuffers ==
  ASSUME NEW c, Shape(c), ~c.streaming, c.index = -1, c.ok, c.mapped = {}, c.count = c.bufferSize,
         NEW d \in CreateBuffers(c)
  PROVE  /\ Shape(d) /\ d.index = -1 /\ d.handle = c.handle
         /\ ~d.ok => Prepared(d)
         /\ d.ok => ~d.streaming /\ d.mapped = Indices(d.count) /\ d.count = d.bufferSize
<1>1. CASE d = [c EXCEPT !.mapped = Indices(c.bufferSize)]
  BY <1>1 DEF Shape, Fields
<1>2. CASE \E n \in Indices(c.bufferSize) : \E e \in FreeBuffers([c EXCEPT !.mapped = Indices(n), !.torn = n > 0]) :
             d = [e EXCEPT !.ok = FALSE]
  <2>1. PICK n \in Indices(c.bufferSize) : \E e \in FreeBuffers([c EXCEPT !.mapped = Indices(n), !.torn = n > 0]) :
               d = [e EXCEPT !.ok = FALSE]
    BY <1>2
  <2> DEFINE b == [c EXCEPT !.mapped = Indices(n), !.torn = n > 0]
  <2>2. n \in Nat
    BY NoIndices DEF Shape
  <2>3. /\ DOMAIN b = Fields /\ b.mapped = Indices(n) /\ b.bufferSize = c.bufferSize
        /\ b.request = c.request /\ b.ok = c.ok /\ b.handle = c.handle /\ b.streaming = c.streaming
        /\ b.refused = c.refused /\ b.index = c.index
    BY DEF Shape, Fields
  <2>4. b.torn <=> n > 0
    BY DEF Shape, Fields
  <2> HIDE DEF b
  <2>5. ~b.torn => b.mapped = {}
    BY <2>2, <2>3, <2>4, NoIndices
  <2>6. Shape(b) /\ ~b.streaming /\ b.index = -1
    BY <2>3, <2>5 DEF Shape
  <2>7. PICK e \in FreeBuffers(b) : d = [e EXCEPT !.ok = FALSE]
    BY <2>1 DEF b
  <2>8. Shape(e) /\ (e.streaming => b.streaming) /\ e.index = -1 /\ Prepared(e) /\ e.handle = b.handle
    BY <2>5, <2>6, Freed
  <2>9. /\ DOMAIN d = Fields /\ d.ok = FALSE /\ d.bufferSize = e.bufferSize /\ d.request = e.request /\ d.handle = e.handle
        /\ d.streaming = e.streaming /\ d.refused = e.refused /\ d.index = e.index /\ d.mapped = e.mapped /\ d.torn = e.torn
        /\ d.stuck = e.stuck
    BY <2>7, <2>8 DEF Shape, Fields
  <2> QED
    BY <2>3, <2>8, <2>9 DEF Shape, Prepared, Cleared
<1>3. \/ d = [c EXCEPT !.mapped = Indices(c.bufferSize)]
      \/ d \in {[e EXCEPT !.ok = FALSE] : e \in UNION {FreeBuffers([c EXCEPT !.mapped = Indices(n), !.torn = n > 0]) : n \in Indices(c.bufferSize)}}
  BY Zenon DEF CreateBuffers
<1>4. CASE d \in {[e EXCEPT !.ok = FALSE] : e \in UNION {FreeBuffers([c EXCEPT !.mapped = Indices(n), !.torn = n > 0]) : n \in Indices(c.bufferSize)}}
  <2>1. PICK e \in UNION {FreeBuffers([c EXCEPT !.mapped = Indices(n), !.torn = n > 0]) : n \in Indices(c.bufferSize)} :
               d = [e EXCEPT !.ok = FALSE]
    BY <1>4, Zenon
  <2>2. PICK n \in Indices(c.bufferSize) : e \in FreeBuffers([c EXCEPT !.mapped = Indices(n), !.torn = n > 0])
    BY Zenon
  <2> QED
    BY <1>2, <2>1, <2>2, Zenon
<1> QED
  BY <1>1, <1>3, <1>4, Zenon

LEMMA ReleasedCamera ==
  ASSUME NEW c, Shape(c), ~c.torn => c.mapped \subseteq Indices(c.bufferSize),
         NEW d \in ReleaseBuffers(c)
  PROVE  Shape(d) /\ Prepared(d) /\ d.handle = c.handle
<1> DEFINE b == [c EXCEPT !.mapped = @ \ Indices(c.bufferSize), !.index = -1, !.lost = {}]
<1>1. /\ DOMAIN b = Fields /\ b.mapped = c.mapped \ Indices(c.bufferSize) /\ b.index = -1 /\ b.torn = c.torn
      /\ b.bufferSize = c.bufferSize /\ b.request = c.request /\ b.handle = c.handle
  BY DEF Shape, Fields
<1>2. d \in FreeBuffers(b)
  BY DEF ReleaseBuffers
<1> HIDE DEF b
<1>3. Shape(b) /\ b.index = -1
  BY <1>1 DEF Shape
<1>4. ~b.torn => b.mapped = {}
  BY <1>1
<1> QED
  BY <1>1, <1>2, <1>3, <1>4, Freed

LEMMA Streamed ==
  ASSUME NEW c, Shape(c), ~c.streaming, c.index = -1, c.ok, c.mapped = Indices(c.count), c.count = c.bufferSize,
         NEW d \in Stream(c)
  PROVE  /\ Shape(d) /\ d.handle = c.handle
         /\ ~d.ok => Prepared(d)
         /\ d.ok => Running(d)
<1>1. CASE \E L \in SUBSET Indices(c.bufferSize) :
             d = [c EXCEPT !.queued = Indices(c.bufferSize) \ L, !.lost = L, !.streaming = TRUE]
  <2>1. PICK L \in SUBSET Indices(c.bufferSize) :
             d = [c EXCEPT !.queued = Indices(c.bufferSize) \ L, !.lost = L, !.streaming = TRUE]
    BY <1>1
  <2>2. /\ DOMAIN d = Fields /\ d.queued = Indices(c.bufferSize) \ L /\ d.lost = L /\ d.streaming = TRUE
        /\ d.bufferSize = c.bufferSize /\ d.count = c.count /\ d.mapped = c.mapped /\ d.index = c.index
        /\ d.request = c.request /\ d.handle = c.handle /\ d.ok = c.ok
    BY <2>1 DEF Shape, Fields
  <2> QED
    BY <2>2 DEF Shape, Running
<1>2. CASE \E e \in ReleaseBuffers([c EXCEPT !.queued = Indices(c.bufferSize)]) : d = [e EXCEPT !.ok = FALSE]
  <2> DEFINE b == [c EXCEPT !.queued = Indices(c.bufferSize)]
  <2>1. PICK e \in ReleaseBuffers(b) : d = [e EXCEPT !.ok = FALSE]
    BY <1>2
  <2>2. /\ DOMAIN b = Fields /\ b.mapped = c.mapped /\ b.bufferSize = c.bufferSize /\ b.request = c.request
        /\ b.handle = c.handle
    BY DEF Shape, Fields
  <2> HIDE DEF b
  <2>3. Shape(b) /\ b.mapped = Indices(b.bufferSize)
    BY <2>2 DEF Shape
  <2>4. Shape(e) /\ Prepared(e) /\ e.handle = b.handle
    BY <2>3, ReleasedCamera
  <2>5. /\ DOMAIN d = Fields /\ d.ok = FALSE /\ d.bufferSize = e.bufferSize /\ d.request = e.request /\ d.handle = e.handle
        /\ d.streaming = e.streaming /\ d.refused = e.refused /\ d.index = e.index /\ d.mapped = e.mapped /\ d.torn = e.torn
        /\ d.stuck = e.stuck
    BY <2>1, <2>4 DEF Shape, Fields
  <2> QED
    BY <2>2, <2>4, <2>5 DEF Shape, Prepared, Cleared
<1> QED
  BY <1>1, <1>2 DEF Stream

\* What init_capture leads to: frames come, or the camera can start.
Started(c, d) == Shape(d) /\ d.handle = c.handle /\ (d.ok => Running(d)) /\ (~d.ok => Prepared(d))

LEMMA InitCaptured ==
  ASSUME NEW c, Shape(c), Prepared(c), NEW d \in InitCapture(c)
  PROVE  Started(c, d)
<1> DEFINE N == Negotiate(c)
           R == Then(N, RequestBuffers)
           B == Then(R, CreateBuffers)
<1>1. \A x \in N : Shape(x) /\ Prepared(x) /\ x.handle = c.handle
  BY Negotiated
<1>2. ASSUME NEW x \in R
      PROVE  /\ Shape(x) /\ x.index = -1 /\ x.handle = c.handle
             /\ ~x.ok => Prepared(x)
             /\ x.ok => ~x.streaming /\ x.mapped = {} /\ x.count = x.bufferSize
  <2>1. (x \in N /\ ~x.ok) \/ \E y \in N : y.ok /\ x \in RequestBuffers(y)
    BY <1>2, Zenon DEF Then
  <2>2. CASE x \in N /\ ~x.ok
    BY <1>1, <2>2 DEF Prepared
  <2>3. CASE \E y \in N : y.ok /\ x \in RequestBuffers(y)
    BY <1>1, <2>3, Requested
  <2> QED
    BY <2>1, <2>2, <2>3
<1>3. ASSUME NEW x \in B
      PROVE  /\ Shape(x) /\ x.index = -1 /\ x.handle = c.handle
             /\ ~x.ok => Prepared(x)
             /\ x.ok => ~x.streaming /\ x.mapped = Indices(x.count) /\ x.count = x.bufferSize
  <2>1. (x \in R /\ ~x.ok) \/ \E y \in R : y.ok /\ x \in CreateBuffers(y)
    BY <1>3, Zenon DEF Then
  <2>2. CASE x \in R /\ ~x.ok
    BY <1>2, <2>2
  <2>3. CASE \E y \in R : y.ok /\ x \in CreateBuffers(y)
    BY <1>2, <2>3, CreatedBuffers
  <2> QED
    BY <2>1, <2>2, <2>3
<1>4. (d \in B /\ ~d.ok) \/ \E y \in B : y.ok /\ d \in Stream(y)
  <2>1. d \in Then(B, Stream)
    BY DEF InitCapture
  <2> HIDE DEF B
  <2> QED
    BY <2>1, Zenon DEF Then
<1>5. CASE d \in B /\ ~d.ok
  BY <1>3, <1>5 DEF Started
<1>6. CASE \E y \in B : y.ok /\ d \in Stream(y)
  BY <1>3, <1>6, Streamed DEF Started
<1> QED
  BY <1>4, <1>5, <1>6

-----------------------------------------------------------------------------
(* The calls.                                                                 *)

LEMMA StreamedOff ==
  ASSUME NEW c, Rests(c), NEW d \in StopAndRelease(c)
  PROVE  Shape(d) /\ Prepared(d) /\ d.handle = c.handle
<1>1. PICK b \in StreamOff(c) : d \in ReleaseBuffers(b)
  BY Zenon DEF StopAndRelease
<1>2. /\ DOMAIN b = Fields /\ b.mapped = c.mapped /\ b.torn = c.torn
      /\ b.bufferSize = c.bufferSize /\ b.request = c.request /\ b.handle = c.handle
  BY DEF StreamOff, Rests, Shape, Fields
<1>3. ~c.torn => c.mapped \subseteq Indices(c.bufferSize)
  BY DEF Rests, Prepared, Cleared, Running
<1>4. Shape(b)
  BY <1>2 DEF Rests, Shape
<1> QED
  BY <1>1, <1>2, <1>3, <1>4, ReleasedCamera

LEMMA StartedAgain ==
  ASSUME NEW c, Rests(c), NEW d \in ResetCapture(c)
  PROVE  Started(c, d)
<1>1. PICK e \in StopAndRelease(c) : d \in InitCapture(e)
  BY Zenon DEF ResetCapture
<1> QED
  BY <1>1, StreamedOff, InitCaptured DEF Started

\* Neither what is asked for nor the answer changes how the camera stands.
LEMMA SameStand ==
  ASSUME NEW c, NEW d, Rests(c), DOMAIN d = Fields, d.request \in Nat,
         d.handle = c.handle, d.bufferSize = c.bufferSize, d.index = c.index, d.count = c.count,
         d.queued = c.queued, d.lost = c.lost, d.mapped = c.mapped, d.streaming = c.streaming,
         d.refused = c.refused, d.torn = c.torn, d.stuck = c.stuck
  PROVE  Rests(d)
  BY DEF Rests, Shape, Prepared, Cleared, Running

LEMMA AskedAgain ==
  ASSUME NEW c, Rests(c), NEW n \in Nat, NEW d \in ResetCapture([c EXCEPT !.request = n])
  PROVE  Started(c, d)
<1> DEFINE b == [c EXCEPT !.request = n]
<1>1. /\ DOMAIN b = Fields /\ b.request = n /\ b.handle = c.handle /\ b.bufferSize = c.bufferSize
      /\ b.index = c.index /\ b.count = c.count /\ b.queued = c.queued /\ b.lost = c.lost /\ b.mapped = c.mapped
      /\ b.streaming = c.streaming /\ b.refused = c.refused /\ b.torn = c.torn /\ b.stuck = c.stuck
  BY DEF Rests, Shape, Fields
<1>2. d \in ResetCapture(b)
  OBVIOUS
<1> HIDE DEF b
<1>3. Rests(b)
  BY <1>1, SameStand
<1> QED
  BY <1>1, <1>2, <1>3, StartedAgain DEF Started

LEMMA AnsweredInv ==
  ASSUME NEW c, NEW d, NEW p, NEW v, NEW ok \in BOOLEAN, Started(c, d), c.handle,
         ok => p \notin Props \/ (d.ok /\ d.set[p] = v), Answered(p, v, ok, d)
  PROVE  CaptureInv'
<1>1. /\ cam' = [d EXCEPT !.ok = TRUE]
      /\ call' = IF ok THEN <<p, v>> ELSE Unasked
  BY DEF Answered
<1>2. Shape(d) /\ Rests(d) /\ d.handle
  BY DEF Started, Rests
<1>3. /\ DOMAIN cam' = Fields /\ cam'.request = d.request /\ cam'.set = d.set
      /\ cam'.handle = d.handle /\ cam'.bufferSize = d.bufferSize /\ cam'.index = d.index /\ cam'.count = d.count
      /\ cam'.queued = d.queued /\ cam'.lost = d.lost /\ cam'.mapped = d.mapped /\ cam'.streaming = d.streaming
      /\ cam'.refused = d.refused /\ cam'.torn = d.torn /\ cam'.stuck = d.stuck
  BY <1>1, <1>2 DEF Shape, Fields
<1>4. Rests(cam')
  <2>1. d.request \in Nat
    BY <1>2 DEF Shape
  <2> QED
    BY <1>2, <1>3, <2>1, SameStand
<1>5. "none" \notin Props
  BY DEF Props
<1>6. SetIsTrue'
  <2>1. CASE ok /\ p \in Props
    BY <1>1, <1>3, <2>1 DEF SetIsTrue, Started, Running
  <2>2. CASE ~(ok /\ p \in Props)
    BY <1>1, <1>5, <2>2 DEF SetIsTrue, Unasked
  <2> QED
    BY <2>1, <2>2
<1> QED
  BY <1>2, <1>3, <1>4, <1>6 DEF CaptureInv

LEMMA SetStoredInv ==
  ASSUME NEW c, NEW p, NEW v, Rests(c), c.handle, SetStored(p, v, c)
  PROVE  CaptureInv'
<1> DEFINE b == [c EXCEPT !.set[p] = v]
<1>1. Rests(b) /\ b.handle = c.handle
  <2>1. /\ DOMAIN b = Fields /\ b.request = c.request /\ b.handle = c.handle /\ b.bufferSize = c.bufferSize
        /\ b.index = c.index /\ b.count = c.count /\ b.queued = c.queued /\ b.lost = c.lost /\ b.mapped = c.mapped
        /\ b.streaming = c.streaming /\ b.refused = c.refused /\ b.torn = c.torn /\ b.stuck = c.stuck
    BY DEF Rests, Shape, Fields
  <2> HIDE DEF b
  <2>2. c.request \in Nat
    BY DEF Rests, Shape
  <2> QED
    BY <2>1, <2>2, SameStand
<1>2. PICK d \in ResetCapture(b) :
         \/ d.ok /\ d.set[p] = v /\ Answered(p, v, TRUE, d)
         \/ ~(d.ok /\ d.set[p] = v) /\ d.set[p] = c.set[p] /\ Answered(p, v, FALSE, d)
         \/ ~(d.ok /\ d.set[p] = v) /\ d.set[p] # c.set[p]
            /\ \E e \in ResetCapture([d EXCEPT !.set[p] = c.set[p]]) : Answered(p, v, FALSE, e)
  BY DEF SetStored
<1> HIDE DEF b
<1>3. Started(b, d)
  BY <1>1, StartedAgain
<1>4. CASE d.ok /\ d.set[p] = v /\ Answered(p, v, TRUE, d)
  BY <1>1, <1>3, <1>4, AnsweredInv
<1>5. CASE Answered(p, v, FALSE, d)
  BY <1>1, <1>3, <1>5, AnsweredInv
<1>6. ASSUME NEW e \in ResetCapture([d EXCEPT !.set[p] = c.set[p]]), Answered(p, v, FALSE, e)
      PROVE  CaptureInv'
  <2> DEFINE a == [d EXCEPT !.set[p] = c.set[p]]
  <2>1. Rests(d)
    BY <1>3 DEF Started, Rests
  <2>2. /\ DOMAIN a = Fields /\ a.request = d.request /\ a.handle = d.handle /\ a.bufferSize = d.bufferSize
        /\ a.index = d.index /\ a.count = d.count /\ a.queued = d.queued /\ a.lost = d.lost /\ a.mapped = d.mapped
        /\ a.streaming = d.streaming /\ a.refused = d.refused /\ a.torn = d.torn /\ a.stuck = d.stuck
    BY <2>1 DEF Rests, Shape, Fields
  <2>3. e \in ResetCapture(a) /\ d.request \in Nat
    BY <1>6, <2>1 DEF Rests, Shape
  <2> HIDE DEF a
  <2>4. Rests(a)
    BY <2>1, <2>2, <2>3, SameStand
  <2>5. Started(a, e) /\ a.handle
    BY <1>1, <1>3, <2>2, <2>3, <2>4, StartedAgain DEF Started
  <2> QED
    BY <1>6, <2>5, AnsweredInv
<1> QED
  BY <1>2, <1>4, <1>5, <1>6

LEMMA OpenInv ==
  ASSUME CaptureInv, Open
  PROVE  CaptureInv'
<1>1. ~cam.handle /\ call' = Unasked
  BY DEF Open
<1>2. PICK d \in InitCapture(cam) : cam' = IF d.ok THEN [d EXCEPT !.handle = TRUE] ELSE [CloseDevice(d) EXCEPT !.ok = TRUE]
  BY DEF Open
<1>3. Started(cam, d)
  <2>1. Shape(cam) /\ Prepared(cam)
    BY <1>1 DEF CaptureInv, Rests, Running
  <2> QED
    BY <2>1, InitCaptured
<1>4. SetIsTrue'
  BY <1>1 DEF SetIsTrue, Unasked, Props
<1>5. CASE d.ok
  <2>1. Rests(d)
    BY <1>3, <1>5 DEF Started, Rests
  <2>2. /\ DOMAIN cam' = Fields /\ cam'.request = d.request /\ cam'.handle = TRUE
        /\ cam'.bufferSize = d.bufferSize /\ cam'.index = d.index /\ cam'.count = d.count
        /\ cam'.queued = d.queued /\ cam'.lost = d.lost /\ cam'.mapped = d.mapped /\ cam'.streaming = d.streaming
        /\ cam'.refused = d.refused /\ cam'.torn = d.torn /\ cam'.stuck = d.stuck
    BY <1>2, <1>5, <2>1 DEF Rests, Shape, Fields
  <2>3. Rests(cam')
    BY <2>1, <2>2 DEF Rests, Shape, Prepared, Cleared, Running
  <2> QED
    BY <1>4, <2>2, <2>3 DEF CaptureInv
<1>6. CASE ~d.ok
  <2>1. Shape(d) /\ Prepared(d)
    BY <1>3, <1>6 DEF Started
  <2>2. /\ DOMAIN cam' = Fields /\ cam'.request = d.request
        /\ cam'.bufferSize = d.bufferSize /\ cam'.index = d.index /\ cam'.mapped = d.mapped /\ cam'.streaming = FALSE
        /\ cam'.refused = d.refused /\ cam'.torn = d.torn
    BY <1>2, <1>6, <2>1 DEF CloseDevice, Shape, Fields
  <2>3. Rests(cam')
    BY <2>1, <2>2 DEF Rests, Shape, Prepared, Cleared
  <2> QED
    BY <1>4, <2>2, <2>3 DEF CaptureInv
<1> QED
  BY <1>5, <1>6

LEMMA DestructInv ==
  ASSUME CaptureInv, Destruct
  PROVE  CaptureInv'
<1>1. PICK d \in StopAndRelease(cam) : cam' = [CloseDevice(d) EXCEPT !.over = TRUE, !.ok = TRUE]
  BY DEF Destruct
<1>2. Shape(d) /\ Prepared(d)
  BY StreamedOff DEF CaptureInv
<1>3. /\ DOMAIN cam' = Fields /\ cam'.request = d.request
      /\ cam'.bufferSize = d.bufferSize /\ cam'.index = d.index /\ cam'.mapped = d.mapped /\ cam'.streaming = FALSE
      /\ cam'.refused = d.refused /\ cam'.torn = d.torn
  BY <1>1, <1>2 DEF CloseDevice, Shape, Fields
<1>4. Rests(cam')
  BY <1>2, <1>3 DEF Rests, Shape, Prepared, Cleared
<1>5. SetIsTrue'
  BY DEF Destruct, SetIsTrue, Unasked, Props
<1> QED
  BY <1>3, <1>4, <1>5 DEF CaptureInv

\* The frame that was read is in the queue again, or lost.
LEMMA ReadBack ==
  ASSUME NEW c, Shape(c), Running(c), NEW d \in Reverted(c)
  PROVE  Shape(d) /\ Running(d) /\ d.handle = c.handle /\ (d.queued # c.queued => d.index = -1)
<1>1. CASE c.index = -1
  BY <1>1 DEF Reverted
<1>2. CASE c.index # -1 /\ d = [c EXCEPT !.queued = @ \cup {c.index}, !.index = -1]
  <2>1. /\ DOMAIN d = Fields /\ d.queued = c.queued \cup {c.index} /\ d.index = -1 /\ d.request = c.request
        /\ d.handle = c.handle /\ d.bufferSize = c.bufferSize /\ d.count = c.count
        /\ d.lost = c.lost /\ d.mapped = c.mapped /\ d.streaming = c.streaming
    BY <1>2 DEF Shape, Fields
  <2> QED
    BY <1>2, <2>1 DEF Shape, Running
<1>3. CASE c.index # -1 /\ d = [c EXCEPT !.lost = @ \cup {c.index}]
  <2>1. /\ DOMAIN d = Fields /\ d.queued = c.queued /\ d.index = c.index /\ d.request = c.request
        /\ d.handle = c.handle /\ d.bufferSize = c.bufferSize /\ d.count = c.count
        /\ d.lost = c.lost \cup {c.index} /\ d.mapped = c.mapped /\ d.streaming = c.streaming
    BY <1>3 DEF Shape, Fields
  <2> QED
    BY <1>3, <2>1 DEF Shape, Running
<1> QED
  BY <1>1, <1>2, <1>3 DEF Reverted

\* A driver that is stuck may hand out anything.
LEMMA StuckRead ==
  ASSUME CaptureInv, Read, cam.stuck, Cleared(cam)
  PROVE  CaptureInv'
<1>1. cam.handle /\ cam.streaming /\ call' = Unasked /\ Shape(cam)
  BY DEF Read, CaptureInv, Rests
<1>2. PICK d \in Reverted(cam) :
         cam' = d \/ \E i \in d.queued \cap Indices(d.bufferSize) : cam' = [d EXCEPT !.queued = @ \ {i}, !.index = i]
  BY DEF Read
<1>3. /\ DOMAIN d = Fields /\ d.request = cam.request /\ d.handle = cam.handle /\ d.bufferSize = cam.bufferSize
      /\ d.mapped = cam.mapped /\ d.streaming = cam.streaming /\ d.refused = cam.refused /\ d.torn = cam.torn /\ d.stuck = cam.stuck
  BY <1>1 DEF Reverted, Shape, Fields
<1> DEFINE Stands == /\ DOMAIN cam' = Fields /\ cam'.request = d.request /\ cam'.handle = d.handle
                     /\ cam'.bufferSize = d.bufferSize /\ cam'.mapped = d.mapped /\ cam'.streaming = d.streaming
                     /\ cam'.refused = d.refused /\ cam'.torn = d.torn /\ cam'.stuck = d.stuck
<1>4. Stands
  <2>1. CASE cam' = d
    BY <1>3, <2>1
  <2>2. ASSUME NEW i \in d.queued, cam' = [d EXCEPT !.queued = @ \ {i}, !.index = i]
        PROVE  Stands
    BY <1>3, <2>2 DEF Fields
  <2> QED
    BY <1>2, <2>1, <2>2
<1>5. Rests(cam')
  BY <1>1, <1>3, <1>4 DEF Rests, Shape, Cleared
<1>6. SetIsTrue'
  BY <1>1 DEF SetIsTrue, Unasked, Props
<1> QED
  BY <1>1, <1>3, <1>4, <1>5, <1>6 DEF CaptureInv

LEMMA FrameRead ==
  ASSUME CaptureInv, Read, Running(cam)
  PROVE  CaptureInv'
<1>1. cam.handle /\ cam.streaming /\ call' = Unasked
  BY DEF Read
<1>2. PICK d \in Reverted(cam) :
         cam' = d \/ \E i \in d.queued \cap Indices(d.bufferSize) : cam' = [d EXCEPT !.queued = @ \ {i}, !.index = i]
  BY DEF Read
<1>3. Shape(cam)
  BY DEF CaptureInv, Rests
<1>4. Shape(d) /\ Running(d) /\ d.handle
  BY <1>1, <1>3, ReadBack
<1>5. SetIsTrue'
  BY <1>1 DEF SetIsTrue, Unasked, Props
<1>6. CASE cam' = d
  BY <1>4, <1>5, <1>6 DEF CaptureInv, Rests
<1>7. ASSUME NEW i \in d.queued, cam' = [d EXCEPT !.queued = @ \ {i}, !.index = i]
      PROVE  CaptureInv'
  <2>1. /\ DOMAIN cam' = Fields /\ cam'.queued = d.queued \ {i} /\ cam'.index = i /\ cam'.request = d.request
        /\ cam'.handle = d.handle /\ cam'.bufferSize = d.bufferSize /\ cam'.count = d.count
        /\ cam'.lost = d.lost /\ cam'.mapped = d.mapped /\ cam'.streaming = d.streaming
    BY <1>4, <1>7 DEF Shape, Fields
  <2>2. d.index = -1 \/ d.index \in d.lost
    BY <1>1, <1>2, <1>3, <1>4 DEF Reverted, Running, Shape, Fields
  <2>3. Running(cam')
    BY <1>4, <1>7, <2>1, <2>2, NoIndices DEF Running, Shape
  <2> QED
    BY <1>4, <1>5, <2>1, <2>3 DEF CaptureInv, Rests, Shape
<1> QED
  BY <1>2, <1>6, <1>7

LEMMA ReadInv ==
  ASSUME CaptureInv, Read
  PROVE  CaptureInv'
<1>1. Running(cam) \/ (cam.stuck /\ Cleared(cam))
  BY DEF Read, CaptureInv, Rests, Prepared
<1> QED
  BY <1>1, FrameRead, StuckRead

\* Neither half of a size changes how the camera stands.
LEMMA HalfRests ==
  ASSUME NEW c, NEW b, Rests(c), NEW h \in BOOLEAN, b = [c EXCEPT !.half = h]
  PROVE  Rests(b) /\ b.handle = c.handle /\ b.streaming = c.streaming /\ b.set = c.set
<1>1. /\ DOMAIN b = Fields /\ b.request = c.request /\ b.handle = c.handle /\ b.bufferSize = c.bufferSize
      /\ b.index = c.index /\ b.count = c.count /\ b.queued = c.queued /\ b.lost = c.lost /\ b.mapped = c.mapped
      /\ b.streaming = c.streaming /\ b.refused = c.refused /\ b.torn = c.torn /\ b.stuck = c.stuck /\ b.set = c.set
  BY DEF Rests, Shape, Fields
<1>2. c.request \in Nat
  BY DEF Rests, Shape
<1> QED
  BY <1>1, <1>2, SameStand

LEMMA SetHalfInv ==
  ASSUME CaptureInv, SetHalf
  PROVE  CaptureInv'
<1>1. cam' = [cam EXCEPT !.half = TRUE] /\ call' = Unasked
  BY DEF SetHalf
<1>2. Rests(cam') /\ cam'.handle = cam.handle /\ cam'.streaming = cam.streaming
  BY <1>1, HalfRests DEF CaptureInv
<1> QED
  BY <1>1, <1>2 DEF CaptureInv, SetIsTrue, Unasked, Props

LEMMA SetInv ==
  ASSUME CaptureInv, NEW p, NEW v, Set(p, v)
  PROVE  CaptureInv'
<1>1. CASE v = cam.set[p]
  BY <1>1 DEF Set, CaptureInv, SetIsTrue, Unasked, Props
<1>2. CASE v # cam.set[p]
  BY <1>2, SetStoredInv DEF Set, CaptureInv
<1> QED
  BY <1>1, <1>2

LEMMA SetSizeInv ==
  ASSUME CaptureInv, NEW v, SetSize(v)
  PROVE  CaptureInv'
<1> DEFINE c == [cam EXCEPT !.half = FALSE]
<1>1. Rests(c) /\ c.handle = cam.handle /\ c.streaming = cam.streaming
  BY HalfRests DEF CaptureInv
<1>2. cam.handle /\ IF v = c.set.size THEN cam' = c /\ call' = Unasked ELSE SetStored("size", v, c)
  BY DEF SetSize
<1> HIDE DEF c
<1>3. CASE cam' = c /\ call' = Unasked
  BY <1>1, <1>2, <1>3 DEF CaptureInv, SetIsTrue, Unasked, Props
<1>4. CASE SetStored("size", v, c)
  BY <1>1, <1>2, <1>4, SetStoredInv
<1> QED
  BY <1>2, <1>3, <1>4

LEMMA SetBufferSizeInv ==
  ASSUME CaptureInv, NEW n \in 1..MaxBuffers, SetBufferSize(n)
  PROVE  CaptureInv'
<1>1. Rests(cam) /\ cam.handle /\ n \in Nat /\ cam.bufferSize \in Nat /\ "buffers" \notin Props
  BY CaptureAssumption DEF CaptureInv, SetBufferSize, Rests, Shape, Props
<1>2. CASE n = cam.bufferSize
  BY <1>2 DEF SetBufferSize, CaptureInv, SetIsTrue, Unasked, Props
<1>3. CASE n # cam.bufferSize
  <2>1. PICK d \in ResetCapture([cam EXCEPT !.request = n]) :
           \/ d.ok /\ d.bufferSize = n /\ Answered("buffers", n, TRUE, d)
           \/ ~(d.ok /\ d.bufferSize = n) /\ d.bufferSize = cam.bufferSize /\ Answered("buffers", n, FALSE, d)
           \/ ~(d.ok /\ d.bufferSize = n) /\ d.bufferSize # cam.bufferSize
              /\ \E e \in ResetCapture([d EXCEPT !.request = cam.bufferSize]) : Answered("buffers", n, FALSE, e)
    BY <1>3 DEF SetBufferSize
  <2>2. Started(cam, d)
    BY <1>1, AskedAgain
  <2>3. CASE Answered("buffers", n, TRUE, d)
    BY <1>1, <2>2, <2>3, AnsweredInv
  <2>4. CASE Answered("buffers", n, FALSE, d)
    BY <1>1, <2>2, <2>4, AnsweredInv
  <2>5. ASSUME NEW e \in ResetCapture([d EXCEPT !.request = cam.bufferSize]), Answered("buffers", n, FALSE, e)
        PROVE  CaptureInv'
    <3>1. Rests(d) /\ d.handle
      BY <1>1, <2>2 DEF Started, Rests
    <3>2. Started(d, e)
      BY <1>1, <2>5, <3>1, AskedAgain
    <3> QED
      BY <2>5, <3>1, <3>2, AnsweredInv
  <2> QED
    BY <2>1, <2>3, <2>4, <2>5
<1> QED
  BY <1>2, <1>3

LEMMA CaptureStart == CaptureInit => CaptureInv
<1> SUFFICES ASSUME CaptureInit PROVE CaptureInv
  OBVIOUS
<1>1. /\ DOMAIN cam = Fields /\ cam.handle = FALSE /\ cam.bufferSize = 0 /\ cam.request = DefaultBuffers /\ cam.index = -1
      /\ cam.mapped = {} /\ cam.streaming = FALSE
  BY DEF CaptureInit, Fields
<1>2. Rests(cam)
  BY <1>1, CaptureAssumption, NoIndices DEF Rests, Shape, Prepared, Cleared
<1> QED
  BY <1>1, <1>2 DEF CaptureInit, CaptureInv, SetIsTrue, Unasked, Props

LEMMA CaptureStep == CaptureInv /\ [CaptureNext]_capVars => CaptureInv'
<1> SUFFICES ASSUME CaptureInv, [CaptureNext]_capVars PROVE CaptureInv'
  OBVIOUS
<1>1. CASE Open
  BY <1>1, OpenInv
<1>2. CASE Destruct
  BY <1>2, DestructInv
<1>3. CASE Read
  BY <1>3, ReadInv
<1>4. CASE SetHalf
  BY <1>4, SetHalfInv
<1>5. CASE \E p \in Props \ {"size"} : \E v \in Asked[p] : Set(p, v)
  BY <1>5, SetInv
<1>6. CASE \E v \in Asked.size : SetSize(v)
  BY <1>6, SetSizeInv
<1>7. CASE \E n \in 1..MaxBuffers : SetBufferSize(n)
  BY <1>7, SetBufferSizeInv
<1>8. CASE UNCHANGED capVars
  BY <1>8 DEF capVars, CaptureInv, SetIsTrue
<1> QED
  BY <1>1, <1>2, <1>3, <1>4, <1>5, <1>6, <1>7, <1>8 DEF CaptureNext

LEMMA CaptureInvImplies == CaptureInv => CaptureIsSound
<1> SUFFICES ASSUME CaptureInv PROVE CaptureIsSound
  OBVIOUS
<1>1. HeldIsSafe
  BY DEF CaptureInv, Rests, Prepared, Running, HeldIsSafe
<1>2. BuffersAreKnown
  BY DEF CaptureInv, Rests, Prepared, Running, BuffersAreKnown
<1>3. MappingsEnd
  BY DEF CaptureInv, Rests, Prepared, Cleared, Running, MappingsEnd
<1> QED
  BY <1>1, <1>2, <1>3 DEF CaptureInv, CaptureIsSound

\* V4L2Capture: whatever the driver grants, refuses or allocates and however the
\* calls follow on each other, the frame read last is mapped and not the driver's
\* to write (unless the driver refuses both to stop and to free the buffers), while it streams each buffer is queued, held or lost, nothing stays
\* mapped after a close unless a mapping had failed half-way, and set answers with
\* true only when the value is in force and frames come.
THEOREM CaptureCorrect == CaptureSpec => []CaptureIsSound
<1>1. CaptureInit => CaptureInv
  BY CaptureStart
<1>2. CaptureInv /\ [CaptureNext]_capVars => CaptureInv'
  BY CaptureStep
<1>3. CaptureInv => CaptureIsSound
  BY CaptureInvImplies
<1> QED
  BY <1>1, <1>2, <1>3, PTL DEF CaptureSpec

-----------------------------------------------------------------------------
(* VpuCodec, for any sessions and any finite set of blocks.                    *)

SessionType ==
    [kind : Kinds \cup {"closed"}, bitstream : Blocks \cup {NoBlock},
     ps : Blocks \cup {NoBlock}, fb : SUBSET Blocks, busy : BOOLEAN]

VpuTypeOK ==
    /\ memory \in [Blocks -> (Kinds \cup {"nobody"}) \X (Parts \cup {"free"})]
    /\ session \in [Sessions -> SessionType]
    /\ given \in [Sessions -> SUBSET Blocks]
    /\ locked \in Sessions \cup {NoHandle}

\* The driver remembers each block of a session as what the session has it for.
Recorded(s) ==
    /\ session[s].bitstream # NoBlock =>
           memory[session[s].bitstream] = <<session[s].kind, "bitstream">>
    /\ session[s].ps # NoBlock =>
           session[s].kind = "H264Dec" /\ memory[session[s].ps] = <<"H264Dec", "ps">>
    /\ \A b \in session[s].fb : memory[b] = <<session[s].kind, "fb">>

ClosedIsEmpty(s) == ~ IsOpen(s) => session[s] = Closed /\ given[s] = {}

Waits(s) ==
    /\ session[s].busy => locked = s
    /\ locked = s => IsOpen(s) /\ (session[s].busy \/ session[s].kind \in Encoders)

Keeps(s) == Recorded(s) /\ ClosedIsEmpty(s) /\ Waits(s) /\ given[s] \subseteq Named(s)

Disjoint == \A s, t \in Sessions : s # t => Named(s) \cap Named(t) = {}

VpuInv == VpuTypeOK /\ (\A s \in Sessions : Keeps(s)) /\ Disjoint /\ LostByDecoders

(***************************************************************************)
(* What the driver gives.                                                  *)
(***************************************************************************)
LEMMA FreeIsFinite == IsFiniteSet(FreeBlocks) /\ Cardinality(FreeBlocks) \in Nat
<1>1. FreeBlocks \in SUBSET Blocks
  BY DEF FreeBlocks
<1> QED
  BY <1>1, VpuAssumption, FS_Subset, FS_CardinalityType

\* There are n free blocks to choose if there are at least n.
LEMMA TakeFacts ==
    ASSUME NEW n \in Nat, CanTake(n)
    PROVE  Take(n) \in SUBSET FreeBlocks /\ Cardinality(Take(n)) = n
<1> DEFINE c == Cardinality(FreeBlocks)
<1>1. PICK f \in Bijection(1 .. c, FreeBlocks) : TRUE
  BY FreeIsFinite, FS_CardinalityType DEF ExistsBijection
<1> DEFINE A == {f[i] : i \in 1 .. n}
           g == [i \in 1 .. n |-> f[i]]
<1>2. 1 .. n \subseteq 1 .. c /\ n <= c
  BY FreeIsFinite DEF CanTake
<1> HIDE DEF c
<1>3. A \in SUBSET FreeBlocks
  BY <1>1, <1>2 DEF Bijection, Injection, IsInjective
<1>4. g \in Bijection(1 .. n, A)
  <2>1. g \in [1 .. n -> A] /\ \A t \in A : \E i \in 1 .. n : g[i] = t
    OBVIOUS
  <2>2. \A i, j \in 1 .. n : g[i] = g[j] => i = j
    BY <1>1, <1>2 DEF Bijection, Injection, IsInjective
  <2> HIDE DEF g, A
  <2> QED
    BY <2>1, <2>2 DEF Bijection, Injection, Surjection, IsInjective
<1>5. Cardinality(A) = n
  BY <1>4, FS_CountingElements DEF ExistsBijection
<1> QED
  BY <1>3, <1>5 DEF Take

LEMMA OneFree == CanTake(1) => OneOf(FreeBlocks) \in FreeBlocks
  BY FreeIsFinite, FS_EmptySet DEF CanTake, OneOf

LEMMA TwoFree ==
    ASSUME CanTake(2)
    PROVE  /\ OneOf(FreeBlocks) \in FreeBlocks
           /\ OneOf(FreeBlocks \ {OneOf(FreeBlocks)}) \in FreeBlocks \ {OneOf(FreeBlocks)}
<1>1. OneOf(FreeBlocks) \in FreeBlocks
  BY FreeIsFinite, FS_EmptySet DEF CanTake, OneOf
<1>2. FreeBlocks # {OneOf(FreeBlocks)}
  BY FreeIsFinite, FS_Singleton DEF CanTake
<1> QED
  BY <1>1, <1>2 DEF OneOf

\* A free block is no session's.
LEMMA FreeIsNobodys ==
    ASSUME VpuInv, NEW s \in Sessions, NEW b \in FreeBlocks PROVE b \notin Named(s)
  BY DEF VpuInv, VpuTypeOK, Keeps, Recorded, Named, FreeBlocks, Unused, SessionType, Kinds, Decoders, Encoders

(***************************************************************************)
(* What steps do to the sessions.                                          *)
(***************************************************************************)
OnlyOf(s) == \A t \in Sessions \ {s} : session'[t] = session[t] /\ given'[t] = given[t]

LEMMA NamedSame == ASSUME NEW t, session'[t] = session[t] PROVE Named(t)' = Named(t)
  BY DEF Named

LEMMA NamedBlocks == ASSUME VpuInv, NEW t \in Sessions PROVE Named(t) \subseteq Blocks
  BY DEF VpuInv, VpuTypeOK, SessionType, Named

\* The other sessions, while s takes free blocks or gives back its own.
LEMMA OthersKeep ==
    ASSUME VpuInv, NEW s \in Sessions, OnlyOf(s),
           Named(s)' \subseteq Named(s) \cup FreeBlocks,
           \A t \in Sessions \ {s} : \A b \in Named(t) : memory'[b] = memory[b]
    PROVE  /\ \A t \in Sessions \ {s} : /\ Recorded(t)' /\ ClosedIsEmpty(t)'
                                       /\ given'[t] \subseteq Named(t)'
           /\ Disjoint'
<1>1. \A t \in Sessions \ {s} : Named(t)' = Named(t)
  BY NamedSame DEF OnlyOf
<1>2. ASSUME NEW t \in Sessions \ {s} PROVE Recorded(t)' /\ ClosedIsEmpty(t)' /\ given'[t] \subseteq Named(t)'
  <2>1. Keeps(t) /\ session'[t] = session[t] /\ given'[t] = given[t] /\ Named(t)' = Named(t)
    BY <1>1 DEF VpuInv, OnlyOf
  <2>2. Recorded(t)'
    BY <2>1 DEF Keeps, Recorded, Named
  <2> QED
    BY <2>1, <2>2 DEF Keeps, ClosedIsEmpty, IsOpen
<1>3. \A t \in Sessions : Named(t) \cap FreeBlocks = {}
  BY FreeIsNobodys
<1>4. Disjoint'
  BY <1>1, <1>3 DEF VpuInv, Disjoint
<1> QED
  BY <1>2, <1>4

\* Session s takes blocks A and works with what it has.
LEMMA GrantInv ==
    ASSUME VpuInv, VpuTypeOK', NEW s \in Sessions, NEW A \in SUBSET FreeBlocks, OnlyOf(s),
           \A b \in Blocks \ A : memory'[b] = memory[b],
           Named(s)' = Named(s) \cup A,
           IsOpen(s)', Recorded(s)', given'[s] \subseteq Named(s)',
           \A t \in Sessions : Waits(t)'
    PROVE  VpuInv'
<1>1. \A t \in Sessions : \A b \in Named(t) : memory'[b] = memory[b]
  BY FreeIsNobodys, NamedBlocks
<1>2. /\ \A t \in Sessions \ {s} : Recorded(t)' /\ ClosedIsEmpty(t)' /\ given'[t] \subseteq Named(t)'
      /\ Disjoint'
  BY <1>1, OthersKeep
<1>3. \A t \in Sessions : Keeps(t)'
  BY <1>2 DEF Keeps, ClosedIsEmpty
<1>4. LostByDecoders'
  <2> SUFFICES ASSUME NEW b \in Lost'
               PROVE  b \in Lost /\ memory'[b] = memory[b]
    BY DEF VpuInv, LostByDecoders
  <2>1. b \in Blocks /\ memory'[b] # Unused /\ \A t \in Sessions : b \notin Named(t)'
    BY DEF Lost, Unused
  <2>2. b \notin A
    BY <2>1
  <2>3. \A t \in Sessions : b \notin Named(t)
    BY <2>1, NamedSame DEF OnlyOf
  <2> QED
    BY <2>1, <2>2, <2>3 DEF Lost
<1> QED
  BY <1>2, <1>3, <1>4 DEF VpuInv

LEMMA SessionFacts ==
    ASSUME VpuInv, NEW s \in Sessions
    PROVE  /\ session[s] \in SessionType /\ Keeps(s)
           /\ given[s] \subseteq Named(s) /\ Named(s) \subseteq Blocks
  BY NamedBlocks DEF VpuInv, VpuTypeOK, Keeps

\* The VPU is not at a frame of a session that has just been opened.
LEMMA NewSessionWaits ==
    ASSUME VpuInv, NEW s \in Sessions, ~ IsOpen(s), OnlyOf(s), locked' = locked,
           session'[s].busy = FALSE
    PROVE  \A t \in Sessions : Waits(t)'
<1>1. ASSUME NEW t \in Sessions \ {s} PROVE Waits(t)'
  BY <1>1 DEF VpuInv, Keeps, Waits, IsOpen, OnlyOf
<1>2. Waits(s)'
  BY DEF VpuInv, Keeps, Waits
<1> QED
  BY <1>1, <1>2

\* A session that is opened, with the block for a bit stream.
LEMMA OpenSmallInv ==
    ASSUME VpuInv, NEW s \in Sessions, NEW kind \in Kinds \ {"H264Dec"}, OpenSmall(s, kind)
    PROVE  VpuInv'
<1>0. PICK bs : bs = OneOf(FreeBlocks)
  OBVIOUS
<1>1. bs \in FreeBlocks /\ bs \in Blocks /\ bs # NoBlock
  BY <1>0, OneFree, VpuAssumption DEF OpenSmall, FreeBlocks
<1>2. /\ memory' = [b \in Blocks |-> IF b = bs THEN <<kind, "bitstream">> ELSE memory[b]]
      /\ session' = [session EXCEPT ![s] = [Closed EXCEPT !.kind = kind, !.bitstream = bs, !.ps = NoBlock]]
      /\ given' = [given EXCEPT ![s] = {bs}] /\ locked' = locked
      /\ ~ IsOpen(s)
  <2>1. {bs, NoBlock} \ {NoBlock} = {bs}
    BY <1>1
  <2>2. /\ memory' = Taken({bs}, kind, "bitstream") /\ Opened(s, kind, bs, NoBlock) /\ ~ IsOpen(s)
    BY <1>0 DEF OpenSmall
  <2> QED
    BY <2>1, <2>2 DEF Opened, Taken
<1>3. /\ session'[s] = [kind |-> kind, bitstream |-> bs, ps |-> NoBlock, fb |-> {}, busy |-> FALSE]
      /\ given'[s] = {bs} /\ OnlyOf(s) /\ kind # "closed"
  BY <1>2 DEF VpuInv, VpuTypeOK, Closed, OnlyOf, Kinds, Decoders, Encoders
<1>4. VpuTypeOK'
  BY <1>1, <1>2 DEF VpuInv, VpuTypeOK, SessionType, Closed, Parts
<1>5. Named(s) = {} /\ Named(s)' = {bs}
  BY <1>1, <1>2, <1>3 DEF VpuInv, Keeps, ClosedIsEmpty, Named, Closed
<1>6. Recorded(s)' /\ IsOpen(s)'
  <2>1. memory'[bs] = <<kind, "bitstream">>
    BY <1>1, <1>2
  <2> QED
    BY <1>3, <2>1 DEF Recorded, IsOpen
<1>7. \A t \in Sessions : Waits(t)'
  <2>1. session'[s].busy = FALSE
    BY <1>3
  <2> QED
    BY <1>2, <1>3, <2>1, NewSessionWaits
<1> QED
  BY <1>1, <1>2, <1>3, <1>4, <1>5, <1>6, <1>7, GrantInv

LEMMA OpenH264DecInv ==
    ASSUME VpuInv, NEW s \in Sessions, OpenH264Dec(s) PROVE VpuInv'
<1>0. PICK bs, ps : bs = OneOf(FreeBlocks) /\ ps = OneOf(FreeBlocks \ {OneOf(FreeBlocks)})
  OBVIOUS
<1>1. /\ bs \in FreeBlocks /\ ps \in FreeBlocks /\ ps # bs
      /\ bs \in Blocks /\ ps \in Blocks /\ bs # NoBlock /\ ps # NoBlock
  BY <1>0, TwoFree, VpuAssumption DEF OpenH264Dec, FreeBlocks
<1>2. /\ memory' = [b \in Blocks |-> IF b = ps THEN <<"H264Dec", "ps">>
                                     ELSE IF b = bs THEN <<"H264Dec", "bitstream">> ELSE memory[b]]
      /\ session' = [session EXCEPT ![s] = [Closed EXCEPT !.kind = "H264Dec", !.bitstream = bs, !.ps = ps]]
      /\ given' = [given EXCEPT ![s] = {bs, ps}] /\ locked' = locked
      /\ ~ IsOpen(s)
  BY <1>0, <1>1 DEF OpenH264Dec, Opened, Taken
<1>3. /\ session'[s] = [kind |-> "H264Dec", bitstream |-> bs, ps |-> ps, fb |-> {}, busy |-> FALSE]
      /\ given'[s] = {bs, ps} /\ OnlyOf(s)
  BY <1>2 DEF VpuInv, VpuTypeOK, Closed, OnlyOf
<1>4. VpuTypeOK'
  BY <1>1, <1>2 DEF VpuInv, VpuTypeOK, SessionType, Closed, Parts, Kinds, Decoders
<1>5. Named(s) = {} /\ Named(s)' = {bs, ps}
  BY <1>1, <1>2, <1>3 DEF VpuInv, Keeps, ClosedIsEmpty, Named, Closed
<1>6. Recorded(s)' /\ IsOpen(s)'
  <2>1. memory'[bs] = <<"H264Dec", "bitstream">> /\ memory'[ps] = <<"H264Dec", "ps">>
    BY <1>1, <1>2
  <2> QED
    BY <1>3, <2>1 DEF Recorded, IsOpen
<1>7. \A t \in Sessions : Waits(t)'
  <2>1. session'[s].busy = FALSE
    BY <1>3
  <2> QED
    BY <1>2, <1>3, <2>1, NewSessionWaits
<1>8. {bs, ps} \in SUBSET FreeBlocks /\ \A b \in Blocks \ {bs, ps} : memory'[b] = memory[b]
  BY <1>1, <1>2
<1> QED
  BY <1>3, <1>4, <1>5, <1>6, <1>7, <1>8, GrantInv

\* An instance that is not opened costs a block.
LEMMA OpenFailsInv ==
    ASSUME VpuInv, NEW s \in Sessions, OpenH264DecFails(s) \/ OpenJpegEncFails(s)
    PROVE  VpuInv'
<1>1. CanTake(1)
  BY FreeIsFinite DEF OpenH264DecFails, OpenJpegEncFails, CanTake
<1>2. Take(1) \in SUBSET FreeBlocks
  BY <1>1, TakeFacts
<1>3. PICK m \in {<<"H264Dec", "ps">>, <<"JPEGEnc", "bitstream">>} :
          /\ memory' = [b \in Blocks |-> IF b \in Take(1) THEN m ELSE memory[b]]
          /\ UNCHANGED <<session, given, locked>>
  BY DEF OpenH264DecFails, OpenJpegEncFails, Taken
<1>4. VpuTypeOK'
  BY <1>3 DEF VpuInv, VpuTypeOK, Kinds, Decoders, Encoders, Parts
<1>5. \A t \in Sessions : Named(t)' = Named(t)
  BY <1>3 DEF Named
<1>6. \A t \in Sessions : \A b \in Named(t) : memory'[b] = memory[b]
  BY <1>2, <1>3, FreeIsNobodys, NamedBlocks
<1>7. Disjoint' /\ \A t \in Sessions : Keeps(t)'
  <2>1. OnlyOf(s)
    BY <1>3 DEF OnlyOf
  <2>2. /\ \A t \in Sessions \ {s} : /\ Recorded(t)' /\ ClosedIsEmpty(t)'
                                   /\ given'[t] \subseteq Named(t)'
        /\ Disjoint'
    BY <1>5, <1>6, <2>1, OthersKeep
  <2>3. Recorded(s)'
    BY <1>3, <1>6 DEF VpuInv, Keeps, Recorded, Named
  <2>4. \A t \in Sessions : Waits(t)'
    BY <1>3 DEF VpuInv, Keeps, Waits, IsOpen
  <2>5. ClosedIsEmpty(s)' /\ given'[s] \subseteq Named(s)'
    BY <1>3, <1>5 DEF VpuInv, Keeps, ClosedIsEmpty, IsOpen
  <2> QED
    BY <2>2, <2>3, <2>4, <2>5 DEF Keeps
<1>8. LostByDecoders'
  BY <1>3, <1>5 DEF VpuInv, LostByDecoders, Lost, Unused
<1> QED
  BY <1>4, <1>7, <1>8 DEF VpuInv

(***************************************************************************)
(* Frames.                                                                 *)
(***************************************************************************)
LEMMA FrameFields ==
    ASSUME NEW r \in SessionType, NEW A, NEW go \in BOOLEAN
    PROVE  LET q == [r EXCEPT !.fb = A, !.busy = go]
           IN  /\ q.kind = r.kind /\ q.bitstream = r.bitstream /\ q.ps = r.ps
               /\ q.fb = A /\ (q.busy <=> go)
  BY DEF SessionType

\* The frame buffers are allocated; whether the VPU gets them, and starts, is
\* for the caller.
LEMMA AllocInv ==
    ASSUME VpuInv, NEW s \in Sessions, Idle(s), NEW n \in Nat, FbAlloc(s, n), NEW go \in BOOLEAN,
           session' = [session EXCEPT ![s].fb = Take(n), ![s].busy = go],
           given' \in {given, [given EXCEPT ![s] = @ \cup Take(n)]},
           go => locked = NoHandle /\ locked' = s, ~ go => locked' = locked
    PROVE  VpuInv'
<1>1. Take(n) \in SUBSET FreeBlocks
  BY TakeFacts DEF FbAlloc
<1>2. PICK A \in SUBSET FreeBlocks : A = Take(n)
  BY <1>1
<1>3. PICK k : k = session[s].kind
  OBVIOUS
<1>4. /\ memory' = [b \in Blocks |-> IF b \in A THEN <<k, "fb">> ELSE memory[b]]
      /\ session[s].fb = {} /\ A \subseteq Blocks /\ NoBlock \notin A
  BY <1>2, <1>3, VpuAssumption DEF FbAlloc, Taken, FreeBlocks
<1>5. /\ session[s] \in SessionType /\ k \in Kinds /\ k # "closed" /\ ~ session[s].busy
      /\ Keeps(s)
  BY <1>3, SessionFacts DEF Idle, IsOpen, SessionType, Kinds, Decoders, Encoders
<1>6. /\ session'[s] = [session[s] EXCEPT !.fb = A, !.busy = go]
      /\ session'[s] \in SessionType /\ OnlyOf(s)
  BY <1>2, <1>4, <1>5 DEF VpuInv, VpuTypeOK, SessionType, OnlyOf
<1>f. /\ session'[s].kind = k /\ session'[s].bitstream = session[s].bitstream
      /\ session'[s].ps = session[s].ps /\ session'[s].fb = A /\ (session'[s].busy <=> go)
  <2>1. session[s] \in SessionType /\ session'[s] = [session[s] EXCEPT !.fb = A, !.busy = go]
    BY <1>5, <1>6
  <2> QED
    BY ONLY <2>1, <1>3, FrameFields
<1>7. VpuTypeOK'
  BY <1>2, <1>4, <1>5, <1>6 DEF VpuInv, VpuTypeOK, Parts
<1>8. Named(s)' = Named(s) \cup A
  BY <1>4, <1>f DEF Named
<1>9. Recorded(s)' /\ IsOpen(s)'
  <2>1. \A b \in Named(s) : memory'[b] = memory[b]
    BY <1>4, FreeIsNobodys, NamedBlocks
  <2> QED
    <3>1. /\ session[s].bitstream # NoBlock => memory'[session[s].bitstream] = <<k, "bitstream">>
          /\ session[s].ps # NoBlock => k = "H264Dec" /\ memory'[session[s].ps] = <<"H264Dec", "ps">>
      BY <1>3, <1>5, <2>1 DEF Keeps, Recorded, Named
    <3> QED
      BY <1>4, <1>5, <1>f, <3>1 DEF Recorded, IsOpen
<1>10. given'[s] \subseteq Named(s)'
  BY <1>2, <1>5, <1>8 DEF Keeps, VpuInv, VpuTypeOK
<1>11. \A t \in Sessions : Waits(t)'
  <2>1. ASSUME NEW t \in Sessions \ {s} PROVE Waits(t)'
    <3>1. session'[t] = session[t] /\ Waits(t) /\ t # NoHandle /\ t # s
      BY <1>6, <2>1, VpuAssumption DEF VpuInv, Keeps, OnlyOf
    <3>2. locked' = t => locked = t
      BY <3>1
    <3>3. locked = t => locked' = t
      BY <3>1
    <3> QED
      BY <3>1, <3>2, <3>3 DEF Waits, IsOpen
  <2>2. Waits(s)'
    BY <1>3, <1>5, <1>f DEF Keeps, Waits, IsOpen
  <2> QED
    BY <2>1, <2>2
<1>12. \A b \in Blocks \ A : memory'[b] = memory[b]
  BY <1>4
<1> QED
  BY <1>6, <1>7, <1>8, <1>9, <1>10, <1>11, <1>12, GrantInv

\* A frame is started, or ends, with the buffers there are.
LEMMA FrameInv ==
    ASSUME VpuInv, NEW s \in Sessions, IsOpen(s), NEW go \in BOOLEAN,
           session' = [session EXCEPT ![s].fb = session[s].fb, ![s].busy = go],
           given' \in {given, [given EXCEPT ![s] = @ \cup session[s].fb]},
           memory' = memory, Waits(s)',
           \A t \in Sessions \ {s} : locked' = t <=> locked = t,
           locked' \in Sessions \cup {NoHandle}
    PROVE  VpuInv'
<1>1. session[s] \in SessionType /\ Keeps(s)
  BY SessionFacts
<1>2. /\ session'[s] = [session[s] EXCEPT !.fb = session[s].fb, !.busy = go]
      /\ session'[s] \in SessionType /\ OnlyOf(s)
  BY <1>1 DEF VpuInv, VpuTypeOK, SessionType, OnlyOf
<1>3. /\ session'[s].kind = session[s].kind /\ session'[s].bitstream = session[s].bitstream
      /\ session'[s].ps = session[s].ps /\ session'[s].fb = session[s].fb
  <2>1. /\ session[s] \in SessionType
        /\ session'[s] = [session[s] EXCEPT !.fb = session[s].fb, !.busy = go]
    BY <1>1, <1>2
  <2> QED
    BY ONLY <2>1, FrameFields
<1>4. VpuTypeOK'
  BY <1>1, <1>2 DEF VpuInv, VpuTypeOK, SessionType
<1>5. Named(s)' = Named(s)
  BY <1>3 DEF Named
<1>6. Recorded(s)' /\ IsOpen(s)'
  BY <1>1, <1>3 DEF Keeps, Recorded, IsOpen
<1>7. given'[s] \subseteq Named(s)'
  BY <1>1, <1>5 DEF Keeps, Named, VpuInv, VpuTypeOK
<1>8. \A t \in Sessions \ {s} : Waits(t)'
  BY <1>2 DEF VpuInv, Keeps, Waits, IsOpen, OnlyOf
<1>9. {} \in SUBSET FreeBlocks
  OBVIOUS
<1> QED
  BY <1>2, <1>4, <1>5, <1>6, <1>7, <1>8, <1>9, GrantInv

LEMMA CountType == \A kind : DecFrameBuffers \in Nat /\ EncFrameBuffers(kind) \in Nat
  BY VpuAssumption DEF DecFrameBuffers, EncFrameBuffers

LEMMA StartInv ==
    ASSUME VpuInv, NEW s \in Sessions, NEW n \in Nat, AllocAndStart(s, n) \/ StartAgain(s)
    PROVE  VpuInv'
<1>1. CASE AllocAndStart(s, n)
  BY <1>1, AllocInv DEF AllocAndStart, StartFrame
<1>2. CASE StartAgain(s)
  <2>1. /\ session' = [session EXCEPT ![s].fb = session[s].fb, ![s].busy = TRUE]
        /\ given' = [given EXCEPT ![s] = @ \cup session[s].fb]
        /\ memory' = memory /\ IsOpen(s) /\ locked = NoHandle /\ locked' = s
    BY <1>2 DEF StartAgain, StartFrame, Idle
  <2>2. Waits(s)'
    <3>1. session[s] \in SessionType
      BY SessionFacts
    <3>2. session'[s] = [session[s] EXCEPT !.fb = session[s].fb, !.busy = TRUE]
      BY <2>1 DEF VpuInv, VpuTypeOK
    <3>3. session'[s].kind = session[s].kind /\ session'[s].busy
      BY <3>1, <3>2, FrameFields
    <3> QED
      BY <2>1, <3>3 DEF Waits, IsOpen
  <2> QED
    BY <2>1, <2>2, FrameInv, VpuAssumption
<1> QED
  BY <1>1, <1>2

LEMMA DecRegisterFailsInv ==
    ASSUME VpuInv, NEW s \in Sessions, DecRegisterFails(s) PROVE VpuInv'
<1>1. session[s] \in SessionType /\ Idle(s)
  BY SessionFacts DEF DecRegisterFails
<1>2. session' = [session EXCEPT ![s].fb = Take(DecFrameBuffers), ![s].busy = FALSE]
  <2>1. [session[s] EXCEPT !.fb = Take(DecFrameBuffers), !.busy = FALSE]
           = [session[s] EXCEPT !.fb = Take(DecFrameBuffers)]
    BY <1>1 DEF Idle, SessionType
  <2> QED
    BY <2>1 DEF DecRegisterFails
<1> QED
  BY <1>1, <1>2, AllocInv, CountType DEF DecRegisterFails

\* GetOutput, FillBody and the timeout of an encoder.
LEMMA FrameEndsInv ==
    ASSUME VpuInv, NEW s \in Sessions, IsOpen(s), NEW left, FrameEnds(s, left),
           left = NoHandle \/ (left = locked /\ session[s].kind \in Encoders)
    PROVE  VpuInv'
<1>1. session[s] \in SessionType /\ locked = s
  BY SessionFacts DEF FrameEnds, Keeps, Waits
<1>2. session' = [session EXCEPT ![s].fb = session[s].fb, ![s].busy = FALSE]
  <2>1. [session[s] EXCEPT !.fb = session[s].fb, !.busy = FALSE] = [session[s] EXCEPT !.busy = FALSE]
    BY <1>1 DEF SessionType
  <2> QED
    BY <2>1 DEF FrameEnds
<1>3. Waits(s)'
  <2>1. session'[s] = [session[s] EXCEPT !.fb = session[s].fb, !.busy = FALSE]
    BY <1>2 DEF VpuInv, VpuTypeOK
  <2>2. session'[s].kind = session[s].kind /\ ~ session'[s].busy
    BY <1>1, <2>1, FrameFields
  <2> QED
    BY <1>1, <2>2, VpuAssumption DEF Waits, IsOpen, FrameEnds
<1>4. /\ \A t \in Sessions \ {s} : locked' = t <=> locked = t
      /\ locked' \in Sessions \cup {NoHandle} /\ UNCHANGED <<memory, given>>
  BY <1>1, VpuAssumption DEF FrameEnds
<1> QED
  BY <1>2, <1>3, <1>4, FrameInv

(***************************************************************************)
(* Closing.                                                                *)
(***************************************************************************)
\* What is given back is the session's; what is not is a decoder's.
LEMMA CloseInv ==
    ASSUME VpuInv, NEW s \in Sessions, NEW B, CloseWith(s, B),
           B \subseteq Named(s) \cup {NoBlock},
           \A b \in Named(s) \ B : memory[b] \in {<<"H264Dec", "ps">>, <<"H264Dec", "fb">>, <<"JPEGDec", "fb">>}
    PROVE  VpuInv'
<1>1. /\ memory' = [b \in Blocks |-> IF b \in B \ {NoBlock} THEN Unused ELSE memory[b]]
      /\ session'[s] = Closed /\ given'[s] = {} /\ OnlyOf(s)
  BY DEF CloseWith, Released, VpuInv, VpuTypeOK, OnlyOf
<1>2. VpuTypeOK'
  <2>1. memory' \in [Blocks -> (Kinds \cup {"nobody"}) \X (Parts \cup {"free"})]
    BY <1>1 DEF VpuInv, VpuTypeOK, Unused
  <2>2. Closed \in SessionType
    BY DEF Closed, SessionType
  <2>3. session' \in [Sessions -> SessionType] /\ given' \in [Sessions -> SUBSET Blocks]
    BY <2>2 DEF CloseWith, VpuInv, VpuTypeOK
  <2> QED
    BY <2>1, <2>3 DEF CloseWith, VpuInv, VpuTypeOK
<1>3. Named(s)' = {}
  BY <1>1 DEF Named, Closed
<1>4. ASSUME NEW t \in Sessions \ {s}, NEW b \in Named(t) PROVE memory'[b] = memory[b]
  <2>1. b \in Blocks /\ b \notin Named(s)
    BY NamedBlocks DEF VpuInv, Disjoint
  <2> QED
    BY <1>1, <2>1
<1>5. /\ \A t \in Sessions \ {s} : Recorded(t)' /\ ClosedIsEmpty(t)' /\ given'[t] \subseteq Named(t)'
      /\ Disjoint'
  BY <1>1, <1>3, <1>4, OthersKeep
<1>6. Recorded(s)' /\ ClosedIsEmpty(s)' /\ given'[s] \subseteq Named(s)'
  BY <1>1 DEF Recorded, ClosedIsEmpty, Closed
<1>7. \A t \in Sessions : Waits(t)'
  <2>1. ASSUME NEW t \in Sessions \ {s} PROVE Waits(t)'
    BY <1>1, VpuAssumption DEF CloseWith, VpuInv, Keeps, Waits, IsOpen, OnlyOf
  <2>2. Waits(s)'
    BY <1>1, VpuAssumption DEF CloseWith, Waits, Closed
  <2> QED
    BY <2>1, <2>2
<1>8. LostByDecoders'
  <2> SUFFICES ASSUME NEW b \in Lost'
               PROVE  memory'[b] \in {<<"H264Dec", "ps">>, <<"H264Dec", "fb">>, <<"JPEGDec", "fb">>, <<"JPEGEnc", "bitstream">>}
    BY DEF LostByDecoders
  <2>1. b \in Blocks /\ memory'[b] # Unused /\ \A t \in Sessions : b \notin Named(t)'
    BY DEF Lost, Unused
  <2>2. b \notin B \ {NoBlock} /\ memory'[b] = memory[b] /\ b # NoBlock
    BY <1>1, <2>1, VpuAssumption
  <2>3. \A t \in Sessions \ {s} : b \notin Named(t)
    BY <1>1, <2>1, NamedSame DEF OnlyOf
  <2>4. CASE b \in Named(s)
    BY <2>2, <2>4
  <2>5. CASE b \notin Named(s)
    BY <2>1, <2>2, <2>3, <2>5 DEF VpuInv, LostByDecoders, Lost
  <2> QED
    BY <2>4, <2>5
<1> QED
  BY <1>2, <1>5, <1>6, <1>7, <1>8 DEF VpuInv, Keeps

LEMMA EachCloseInv ==
    ASSUME VpuInv, NEW s \in Sessions,
           CloseH264Dec(s) \/ CloseJpegDec(s) \/ CloseH264Enc(s) \/ CloseJpegEnc(s)
    PROVE  VpuInv'
<1>1. session[s] \in SessionType /\ Recorded(s)
  BY SessionFacts DEF Keeps
<1>2. CASE CloseH264Dec(s) \/ CloseJpegDec(s)
  <2>1. {session[s].bitstream} \subseteq Named(s) \cup {NoBlock}
    BY DEF Named
  <2>2. \A b \in Named(s) \ {session[s].bitstream} :
           memory[b] \in {<<"H264Dec", "ps">>, <<"H264Dec", "fb">>, <<"JPEGDec", "fb">>}
    BY <1>1, <1>2 DEF Recorded, Named, CloseH264Dec, CloseJpegDec
  <2> QED
    BY <1>2, <2>1, <2>2, CloseInv DEF CloseH264Dec, CloseJpegDec
<1>3. CASE CloseH264Enc(s) \/ CloseJpegEnc(s)
  <2> DEFINE B == FbFree(s) \cup {session[s].bitstream}
  <2>1. B \subseteq Named(s) \cup {NoBlock}
    BY DEF Named, FbFree
  <2>2. Named(s) \ B = {}
    BY <1>1, <1>3 DEF Recorded, Named, FbFree, CloseH264Enc, CloseJpegEnc
  <2> QED
    BY <1>3, <2>1, <2>2, CloseInv DEF CloseH264Enc, CloseJpegEnc
<1> QED
  BY <1>2, <1>3

(***************************************************************************)
(* The theorems.                                                           *)
(***************************************************************************)
LEMMA VpuInitInv == VpuInit => VpuInv
<1> SUFFICES ASSUME VpuInit PROVE VpuInv
  OBVIOUS
<1>1. VpuTypeOK
  BY DEF VpuInit, VpuTypeOK, SessionType, Closed, Unused
<1>2. \A s \in Sessions : Keeps(s) /\ Named(s) = {}
  BY VpuAssumption DEF VpuInit, Keeps, Recorded, ClosedIsEmpty, Waits, IsOpen, Named, Closed
<1>3. Lost = {}
  BY DEF VpuInit, Lost
<1> QED
  BY <1>1, <1>2, <1>3 DEF VpuInv, Disjoint, LostByDecoders

LEMMA VpuStepInv == VpuInv /\ [VpuNext]_vpuVars => VpuInv'
<1> SUFFICES ASSUME VpuInv, [VpuNext]_vpuVars PROVE VpuInv'
  OBVIOUS
<1>1. ASSUME NEW s \in Sessions, OpenJpegDec(s) \/ OpenH264Enc(s) \/ OpenJpegEnc(s) PROVE VpuInv'
  BY <1>1, OpenSmallInv DEF OpenJpegDec, OpenH264Enc, OpenJpegEnc, Kinds, Decoders, Encoders
<1>2. ASSUME NEW s \in Sessions, OpenH264Dec(s) \/ OpenH264DecFails(s) \/ OpenJpegEncFails(s) PROVE VpuInv'
  BY <1>2, OpenH264DecInv, OpenFailsInv
<1>3. ASSUME NEW s \in Sessions, Decode(s) \/ Encode(s) \/ DecRegisterFails(s) PROVE VpuInv'
  BY <1>3, StartInv, DecRegisterFailsInv, CountType DEF Decode, Encode
<1>4. ASSUME NEW s \in Sessions, GetOutput(s) \/ FillBody(s) \/ EncodeTimeout(s) PROVE VpuInv'
  <2>1. IsOpen(s)
    BY <1>4 DEF GetOutput, FillBody, EncodeTimeout, IsOpen, Decoders, Encoders
  <2> QED
    BY <1>4, <2>1, FrameEndsInv DEF GetOutput, FillBody, EncodeTimeout
<1>5. ASSUME NEW s \in Sessions,
             CloseH264Dec(s) \/ CloseJpegDec(s) \/ CloseH264Enc(s) \/ CloseJpegEnc(s)
      PROVE  VpuInv'
  BY <1>5, EachCloseInv
<1>6. CASE UNCHANGED vpuVars
  BY <1>6 DEF vpuVars, VpuInv, VpuTypeOK, Keeps, Recorded, ClosedIsEmpty, Waits, IsOpen, Named,
     Disjoint, LostByDecoders, Lost
<1> QED
  BY <1>1, <1>2, <1>3, <1>4, <1>5, <1>6 DEF VpuNext

\* The blocks of sessions, of the driver and of the VPU agree in all steps.
THEOREM VpuInvariance == VpuSpec => []VpuInv
  BY VpuInitInv, VpuStepInv, PTL DEF VpuSpec

\* No block is another session's or the VPU's after it was given back; what is
\* never given back is a decoder's or of a failed open; and the VPU stays locked
\* only after the timeout of an encoder.
THEOREM MemoryIsKept == VpuSpec => []VpuIsKept
<1>1. VpuInv => VpuIsKept
  <2> SUFFICES ASSUME VpuInv PROVE HeldOnce /\ LostByDecoders /\ LockedByEncoders
    BY DEF VpuIsKept
  <2>1. LockedByEncoders
    BY DEF VpuInv, Keeps, Waits, LockedByEncoders
  <2>2. ASSUME NEW s \in Sessions, NEW b \in Blocks, b \in Named(s)
        PROVE  memory[b] # Unused /\ memory[b][1] = session[s].kind
    <3>1. session[s] \in SessionType /\ Recorded(s) /\ ClosedIsEmpty(s)
      BY SessionFacts DEF Keeps
    <3>2. \E part : memory[b] = <<session[s].kind, part>>
      BY <2>2, <3>1 DEF Recorded, Named
    <3>3. session[s].kind # "nobody"
      BY <3>1 DEF SessionType, Kinds, Decoders, Encoders
    <3> QED
      BY <3>2, <3>3 DEF Unused
  <2>3. /\ \A s, t \in Sessions : s # t => Named(s) \cap Named(t) = {}
        /\ \A s \in Sessions : given[s] \subseteq Named(s)
    BY DEF VpuInv, Keeps, Disjoint
  <2> QED
    BY <2>1, <2>2, <2>3 DEF VpuInv, HeldOnce
<1> QED
  BY <1>1, VpuInvariance, PTL
=============================================================================
