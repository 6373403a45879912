--------------------------- MODULE FramebufferSlots ---------------------------
(* The slots of the framebuffer that gralloc_wayland/gralloc.cpp hands out.  A  *)
(* set of slots stands for bufferMask.  An update of the mask is a load and a   *)
(* store; allocation makes it under the lock, freeing without.                  *)
EXTENDS Naturals

CONSTANTS Threads, NoThread,
          Slots,      \* 0..numBuffers - 1
          NoSlot,
          DisplayOf,  \* slot -> the display with its width, height and format
          Displays    \* what is asked for; one of them may have no slot

ASSUME SlotsAssumption == NoThread \notin Threads /\ Slots \subseteq Nat /\ NoSlot \notin Slots

VARIABLES mask,        \* bufferMask
          lock,        \* who has the lock
          pc,          \* idle, choose, load, store, freeLoad, freeStore
          snapshot,    \* the mask as allocation has read it
          slot,        \* the slot a thread is taking or giving back
          loaded,      \* the mask as an update has loaded it
          used,        \* slots with a handle
          twice,       \* has a slot been given out that had a handle?
          overlapped   \* has a store come between a load and a store?

slotVars == <<mask, lock, pc, snapshot, slot, loaded, used, twice, overlapped>>

\* The lock is taken and the mask read; when all slots are in it, that is all.
Allocate(t) ==
  /\ pc[t] = "idle" /\ lock = NoThread
  /\ mask # Slots
  /\ lock' = t
  /\ pc' = [pc EXCEPT ![t] = "choose"]
  /\ snapshot' = [snapshot EXCEPT ![t] = mask]
  /\ UNCHANGED <<mask, slot, loaded, used, twice, overlapped>>

\* A mutant of Fits: the bit of the slot is not looked at.
FitsBySize(i, d, taken) == DisplayOf[i] = d

Fits(i, d, taken) == i \notin taken /\ DisplayOf[i] = d

\* The first slot that is free and of the size.
Choose(t, d) ==
  /\ pc[t] = "choose"
  /\ \E i \in Slots :
       /\ Fits(i, d, snapshot[t]) /\ \A j \in Slots : Fits(j, d, snapshot[t]) => i <= j
       /\ slot' = [slot EXCEPT ![t] = i]
  /\ pc' = [pc EXCEPT ![t] = "load"]
  /\ snapshot' = [snapshot EXCEPT ![t] = {}]
  /\ UNCHANGED <<mask, lock, loaded, used, twice, overlapped>>

\* None fits: the handle and the descriptor made for it stay.
NoSlotFits(t, d) ==
  /\ pc[t] = "choose"
  /\ \A i \in Slots : ~Fits(i, d, snapshot[t])
  /\ pc' = [pc EXCEPT ![t] = "idle"]
  /\ lock' = NoThread
  /\ snapshot' = [snapshot EXCEPT ![t] = {}]
  /\ UNCHANGED <<mask, slot, loaded, used, twice, overlapped>>

Load(t) ==
  /\ pc[t] \in {"load", "freeLoad"}
  /\ loaded' = [loaded EXCEPT ![t] = mask]
  /\ pc' = [pc EXCEPT ![t] = IF @ = "load" THEN "store" ELSE "freeStore"]
  /\ UNCHANGED <<mask, lock, snapshot, slot, used, twice, overlapped>>

Between(t) == pc[t] \in {"store", "freeStore"}

LetGo(t) == slot' = [slot EXCEPT ![t] = NoSlot] /\ loaded' = [loaded EXCEPT ![t] = {}]

\* The bit is set, the lock released and the handle returned.
Store(t) ==
  /\ pc[t] = "store"
  /\ mask' = loaded[t] \cup {slot[t]}
  /\ used' = used \cup {slot[t]}
  /\ twice' = (twice \/ slot[t] \in used)
  /\ overlapped' = (overlapped \/ \E u \in Threads \ {t} : Between(u))
  /\ lock' = NoThread
  /\ pc' = [pc EXCEPT ![t] = "idle"]
  /\ LetGo(t)
  /\ UNCHANGED snapshot

\* gralloc_free: the handle is gone, then its bit.
Free(t) ==
  /\ pc[t] = "idle"
  /\ \E i \in used :
       /\ used' = used \ {i}
       /\ slot' = [slot EXCEPT ![t] = i]
  /\ pc' = [pc EXCEPT ![t] = "freeLoad"]
  /\ UNCHANGED <<mask, lock, snapshot, loaded, twice, overlapped>>

FreeStore(t) ==
  /\ pc[t] = "freeStore"
  /\ mask' = loaded[t] \ {slot[t]}
  /\ overlapped' = (overlapped \/ \E u \in Threads \ {t} : Between(u))
  /\ pc' = [pc EXCEPT ![t] = "idle"]
  /\ LetGo(t)
  /\ UNCHANGED <<lock, snapshot, used, twice>>

SlotsInit ==
  /\ mask = {} /\ lock = NoThread /\ pc = [t \in Threads |-> "idle"]
  /\ snapshot = [t \in Threads |-> {}] /\ loaded = [t \in Threads |-> {}]
  /\ slot = [t \in Threads |-> NoSlot]
  /\ used = {} /\ twice = FALSE /\ overlapped = FALSE

SlotStep(t) ==
  \/ Allocate(t) \/ (\E d \in Displays : Choose(t, d) \/ NoSlotFits(t, d))
  \/ Load(t) \/ Store(t) \/ Free(t) \/ FreeStore(t)

SlotsNext == \E t \in Threads : SlotStep(t)

SlotsSpec == SlotsInit /\ [][SlotsNext]_slotVars

-----------------------------------------------------------------------------

Freeing(t) == pc[t] \in {"freeLoad", "freeStore"}

\* As long as no store has come between the load and the store of another thread
\* (gralloc.cpp:137 is under the lock, :252 is not), no slot is given out twice,
\* and the mask is that of the slots with a handle and those on their way back.
SlotsAreExclusive ==
  ~overlapped =>
    /\ ~twice
    /\ mask = used \cup {slot[t] : t \in {u \in Threads : Freeing(u)}}
=============================================================================
