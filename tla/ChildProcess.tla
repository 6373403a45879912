----------------------------- MODULE ChildProcess -----------------------------
(* The class Process of processmanager/new-impl: one object, its child, and    *)
(* the descriptors of the child's standard streams that the parent keeps.  Of a *)
(* stream the parent keeps one end: 0 is stdin, 1 stdout, 2 stderr.            *)
EXTENDS Integers, FiniteSets

CONSTANTS Pids, MaxCreates  \* MaxCreates bounds the calls of create

ASSUME ChildAssumption == Pids \subseteq Nat

Streams == 0..2
NoPid == -1

VARIABLES pid,       \* of the object
          ends,      \* streams of which the object has a descriptor
          procs,     \* pid -> free, running, zombie (children), other
          dropped,   \* descriptors that are open and that nothing names
          creates,   \* calls of create
          again      \* was one made before isAlive has seen the last child end?

childVars == <<pid, ends, procs, dropped, creates, again>>

\* init opens the descriptors of the streams in S over what is there.
Overwritten(S) == dropped + Cardinality(S \cap ends)

Called ==
  /\ creates < MaxCreates /\ creates' = creates + 1
  /\ again' = (again \/ pid # NoPid \/ ends # {})

\* A mutant of Release: the ends of the object are forgotten, not closed.
Forget(overwritten) == ends' = {} /\ dropped' = overwritten + Cardinality(ends)

Release(overwritten) == ends' = {} /\ dropped' = overwritten

\* init fails at a stream, or the pipe for the result of exec cannot be made.
InitFails(used) ==
  /\ Called
  /\ \E n \in 1..3 : Release(Overwritten({i \in used : i < n}))
  /\ UNCHANGED <<pid, procs>>

ForkFails(used) ==
  /\ Called
  /\ Release(Overwritten(used))
  /\ pid' = NoPid
  /\ UNCHANGED procs

Forked(state) == \E p \in Pids : procs[p] = "free" /\ pid' = p /\ procs' = [procs EXCEPT ![p] = state]

\* exec fails, and the child ends; or a signal ends the wait for its result, and
\* the child runs.
ExecFails(used) ==
  /\ Called
  /\ \E state \in {"running", "zombie"} : Forked(state)
  /\ Release(Overwritten(used))

\* fork closes the child's ends; of a file the parent's may not have been opened.
\* A stream of no type keeps the descriptor it has.
Created(used, files) ==
  /\ Called
  /\ Forked("running")
  /\ \E open \in {used \ F : F \in SUBSET files} : ends' = (ends \ used) \cup open
  /\ dropped' = Overwritten(used)

Create ==
  \E used \in SUBSET Streams :
    \/ used # {} /\ InitFails(used)
    \/ ForkFails(used)
    \/ ExecFails(used)
    \/ \E files \in SUBSET used : Created(used, files)

\* isAlive: a child that has ended is waited for, and what belonged to it goes.
IsAlive ==
  /\ pid # NoPid /\ procs[pid] = "zombie"
  /\ procs' = [procs EXCEPT ![pid] = "free"]
  /\ Release(dropped)
  /\ pid' = NoPid
  /\ UNCHANGED <<creates, again>>

\* kill of the pid -1 reaches every process.
Kill ==
  /\ procs' = [p \in Pids |->
                 IF pid \notin {p, NoPid} THEN procs[p]
                 ELSE IF procs[p] = "running" THEN "zombie"
                 ELSE IF procs[p] = "other" THEN "free" ELSE procs[p]]
  /\ UNCHANGED <<pid, ends, dropped, creates, again>>

\* The system: a child ends, other processes come and go.
Runs(p) ==
  /\ procs' = [procs EXCEPT ![p] = CASE @ = "running" -> "zombie"
                                     [] @ = "free" -> "other"
                                     [] @ = "other" -> "free"
                                     [] @ = "zombie" -> "zombie"]
  /\ UNCHANGED <<pid, ends, dropped, creates, again>>

ChildInit ==
  /\ pid = NoPid /\ ends = {} /\ procs = [p \in Pids |-> "free"]
  /\ dropped = 0 /\ creates = 0 /\ again = FALSE

ChildNext == Create \/ IsAlive \/ Kill \/ \E p \in Pids : Runs(p)

ChildSpec == ChildInit /\ [][ChildNext]_childVars

-----------------------------------------------------------------------------

Children == {p \in Pids : procs[p] \in {"running", "zombie"}}

\* The pid of the object is that of a child of this process, so kill reaches no
\* other process (the note at process.cpp:244) while there is a pid; an object
\* without a child has no descriptor.  No child and no descriptor is out of the
\* object's reach, unless create is called again before isAlive has returned
\* false: a create that fails in exec (:92) still has a child to wait for.
ChildIsKept ==
  /\ pid # NoPid => pid \in Children
  /\ pid = NoPid => ends = {}
  /\ ~again => dropped = 0 /\ Children \subseteq {pid}
=============================================================================
