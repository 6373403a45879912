---------------------------- MODULE UserDictFile ----------------------------
(* Two UserDict objects on one file, each used by a thread of its own: the    *)
(* input method's (MatrixSearch) and the synchroniser's (Sync).  Reading and  *)
(* writing the file are under g_mutex_; checking it (validate), starting it   *)
(* anew (reset) and taking the time of a load (load_time_) are not.  An       *)
(* object writes back only if nobody has since it was loaded; otherwise it    *)
(* discards what is new in it.                                                *)
(* The content is a set of lemmas; its parts and tables are UserDict.         *)
EXTENDS Integers, FiniteSets

CONSTANTS Objects, Stored,
          MaxTime  \* bound of the model: readings of the clock

VARIABLES now,        \* the clock
          lastUpdate, \* g_last_update_
          mutex,      \* g_mutex_: its holder, or "free"
          disk,       \* the content of the file
          known,      \* history: the content that was last written as a whole,
          seen,       \* and what of it each object has loaded
          phase, held, dirty, loadTime  \* of each object

ufVars == <<now, lastUpdate, mutex, disk, known, seen, phase, held, dirty, loadTime>>

FileInit ==
  /\ now = 1 /\ lastUpdate = 0 /\ mutex = "free"
  /\ disk = {} /\ known = {} /\ seen = [o \in Objects |-> {}]
  /\ phase = [o \in Objects |-> "idle"]
  /\ held = [o \in Objects |-> {}]
  /\ dirty = [o \in Objects |-> FALSE]
  /\ loadTime = [o \in Objects |-> 1]

Goto(o, p) == phase' = [phase EXCEPT ![o] = p]

\* put_lemma and remove_lemma on a loaded object.
Edit(o) ==
  /\ phase[o] = "idle"
  /\ \E S \in SUBSET Stored : S # held[o] /\ held' = [held EXCEPT ![o] = S]
  /\ dirty' = [dirty EXCEPT ![o] = TRUE]
  /\ UNCHANGED <<now, lastUpdate, mutex, disk, known, seen, phase, loadTime>>

\* flush_cache, by the client, for want of room, or because a search has seen
\* that others have updated the file.  close_dict first: nothing to write back
\* when the object is not dirty.
Flush(o) ==
  /\ phase[o] = "idle" /\ now < MaxTime
  /\ Goto(o, IF dirty[o] THEN "lock" ELSE "check")
  /\ UNCHANGED <<now, lastUpdate, mutex, disk, known, seen, held, dirty, loadTime>>

Outdated(o) == loadTime[o] <= lastUpdate

\* A mutant of LockFile: who gives up keeps the mutex.
LockAndKeep(o) ==
  /\ phase[o] = "lock" /\ mutex = "free"
  /\ mutex' = o
  /\ Goto(o, IF Outdated(o) THEN "check" ELSE "write")
  /\ UNCHANGED <<now, lastUpdate, disk, known, seen, held, dirty, loadTime>>

LockFile(o) ==
  /\ phase[o] = "lock" /\ mutex = "free"
  /\ IF Outdated(o) THEN Goto(o, "check") /\ UNCHANGED mutex
     ELSE Goto(o, "write") /\ mutex' = o
  /\ UNCHANGED <<now, lastUpdate, disk, known, seen, held, dirty, loadTime>>

WriteBack(o) ==
  /\ phase[o] = "write"
  /\ disk' = held[o] /\ known' = held[o]
  /\ now' = now + 1 /\ lastUpdate' = now + 1
  /\ mutex' = "free"
  /\ Goto(o, "check")
  /\ UNCHANGED <<seen, held, dirty, loadTime>>

\* validate compares the size of the file with what its last part says; in the
\* midst of a write-back they need not agree.
Validate(o) ==
  /\ phase[o] = "check"
  /\ \/ Goto(o, "load")
     \/ mutex # "free" /\ Goto(o, "reset")
  /\ UNCHANGED <<now, lastUpdate, mutex, disk, known, seen, held, dirty, loadTime>>

\* reset empties the file.
Reset(o) ==
  /\ phase[o] = "reset"
  /\ disk' = {}
  /\ Goto(o, "load")
  /\ UNCHANGED <<now, lastUpdate, mutex, known, seen, held, dirty, loadTime>>

\* load gives up when the mutex is taken.
Load(o) ==
  /\ phase[o] = "load"
  /\ IF mutex = "free" THEN held' = [held EXCEPT ![o] = disk] /\ Goto(o, "stamp")
     ELSE held' = [held EXCEPT ![o] = {}] /\ Goto(o, "unloaded")
  /\ seen' = [seen EXCEPT ![o] = known]
  /\ dirty' = [dirty EXCEPT ![o] = FALSE]
  /\ UNCHANGED <<now, lastUpdate, mutex, disk, known, loadTime>>

\* load_dict takes the time when load has returned.
StampLoad(o) ==
  /\ phase[o] = "stamp"
  /\ now' = now + 1
  /\ loadTime' = [loadTime EXCEPT ![o] = now + 1]
  /\ Goto(o, "idle")
  /\ UNCHANGED <<lastUpdate, mutex, disk, known, seen, held, dirty>>

FileStep(o) == LockFile(o) \/ WriteBack(o) \/ Validate(o) \/ Reset(o) \/ Load(o) \/ StampLoad(o)

FileNext == \E o \in Objects : Edit(o) \/ Flush(o) \/ FileStep(o)

FileSpec == FileInit /\ [][FileNext]_ufVars /\ \A o \in Objects : WF_ufVars(FileStep(o))

-----------------------------------------------------------------------------
(* Properties.                                                                *)

\* "File load and write are thread-safe by g_mutex_" (userdict.cpp:57): who
\* writes the file has seen what the last write put there.  It does not hold: the
\* time of a load is taken when the mutex has been given back.
WritersHaveSeenTheFile ==
  [][\A o \in Objects : WriteBack(o) => seen[o] = known]_ufVars

\* And nothing but a write-back takes anything out of it.  It does not hold: a
\* check in the midst of a write-back resets the file.
FileIsKept == disk = known

\* A flush comes to its end, with the object loaded or not.
FlushReturns == \A o \in Objects : phase[o] # "idle" ~> phase[o] \in {"idle", "unloaded"}
=============================================================================
