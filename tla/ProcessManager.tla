--------------------------- MODULE ProcessManager ---------------------------
(***************************************************************************)
(* processmanager/: a table of child processes shared by the threads that  *)
(* create them and talk to them, by a signal watcher that reaps children   *)
(* and by a descriptor watcher that polls their pipes.  processesMutex     *)
(* guards the table, but not what a thread does between two uses of it:    *)
(* an action is one critical section, or one system call outside of it.    *)
(*                                                                         *)
(* The three descriptors of a child are opened, watched and closed         *)
(* together and stand as one.  A pid is not used twice; a descriptor is.   *)
(***************************************************************************)
EXTENDS Naturals, FiniteSets

CONSTANTS
    Pids,        \* bound on the children ever created
    FDs,         \* the descriptor numbers of the manager
    Users,       \* threads that call create, kill, recvData, ...
    None,        \* no process, no descriptor: -1
    ForkMayFail  \* whether ::fork may fail

ASSUME ManagerAssumption == None \notin Pids \cup FDs

VARIABLES
    kernel,    \* what the kernel knows of each pid
    signal,    \* the strongest signal sent to it while it was running
    opened,    \* the child each descriptor number leads to
    processes, \* the table: the descriptor in the entry of each child
    watched,   \* the descriptors in the epoll set
    wake,      \* the signal handler has written to the socket pair
    user,      \* where each thread is between two critical sections
    sw, fw,    \* the signal watcher's and the descriptor watcher's threads
    phase,     \* how far start and stop are
    image      \* "child" once the manager itself runs the code of a child

table == <<opened, processes, watched>>
vars == <<kernel, signal, table, wake, user, sw, fw, phase, image>>

Idle  == [pc |-> "idle", pid |-> None, fd |-> None]
Alive(p)   == kernel[p] = "running"
Managed(p) == processes[p] # None
Zombies    == {p \in Pids : kernel[p] = "zombie"}
Inserting(p) == \E u \in Users : user[u].pc = "insert" /\ user[u].pid = p

Init ==
    /\ kernel = [p \in Pids |-> "unused"]
    /\ signal = [p \in Pids |-> "none"]
    /\ opened = [f \in FDs |-> None]
    /\ processes = [p \in Pids |-> None]
    /\ watched = {}
    /\ wake = FALSE
    /\ user = [u \in Users |-> Idle]
    /\ sw = [pc |-> "off", pid |-> None]
    /\ fw = [pc |-> "off", fd |-> None]
    /\ phase = "stopped"
    /\ image = "manager"

(***************************************************************************)
(* Critical sections.                                                      *)
(***************************************************************************)
Send(ps, s) ==
    signal' = [p \in Pids |-> IF p \in ps /\ Alive(p) /\ signal[p] # "kill"
                              THEN s ELSE signal[p]]

Reaped(p) == kernel' = [kernel EXCEPT ![p] = "reaped"]

\* Mutant of Recycle: the descriptor stays open.
RecycleUnclosed(p) ==
    /\ processes' = [processes EXCEPT ![p] = None]
    /\ UNCHANGED <<opened, watched>>

\* Closing a descriptor also takes it out of the epoll set.
Recycle(p) ==
    LET f == processes[p] IN
    /\ processes' = [processes EXCEPT ![p] = None]
    /\ opened' = [g \in FDs |-> IF g = f THEN None ELSE opened[g]]
    /\ watched' = watched \ {f}

Owner(f) == {p \in Pids : processes[p] = f}

\* Mutant of NotifyError: the owner is not probed.
NotifyUnprobed(f) ==
    IF Owner(f) = {}
    THEN UNCHANGED <<kernel, table>>
    ELSE \E p \in Owner(f) : Recycle(p) /\ UNCHANGED kernel

\* notify of a descriptor's error.  Without an owner, probeAlive calls
\* waitpid(-1), which reaps whatever child is dead.
NotifyError(f) ==
    IF Owner(f) = {}
    THEN /\ IF Zombies = {} THEN UNCHANGED kernel ELSE \E z \in Zombies : Reaped(z)
         /\ UNCHANGED table
    ELSE \E p \in Owner(f) :
            IF Alive(p)
            THEN UNCHANGED <<kernel, table>>
            ELSE Reaped(p) /\ Recycle(p)

(***************************************************************************)
(* The threads that use the manager.                                       *)
(***************************************************************************)
\* The child runs before it has an entry in the table.
CreateStart(u) ==
    /\ user[u] = Idle /\ phase # "stopped"
    /\ \E p \in Pids, f \in FDs :
          /\ kernel[p] = "unused" /\ opened[f] = None
          /\ kernel' = [kernel EXCEPT ![p] = "running"]
          /\ opened' = [opened EXCEPT ![f] = p]
          /\ user' = [user EXCEPT ![u] = [pc |-> "insert", pid |-> p, fd |-> f]]
    /\ UNCHANGED <<signal, processes, watched, wake, sw, fw, phase, image>>

\* execvp fails: the child reports it and exits, the parent closes everything.
ExecFails(u) ==
    /\ user[u] = Idle /\ phase # "stopped"
    /\ \E p \in Pids : /\ kernel[p] = "unused"
                       /\ kernel' = [kernel EXCEPT ![p] = "zombie"]
    /\ wake' = TRUE
    /\ UNCHANGED <<signal, table, user, sw, fw, phase, image>>

\* When ::fork fails Process::fork returns false, that is 0: start takes itself
\* for the child, closes all descriptors and replaces the program.
ForkFails(u) ==
    /\ ForkMayFail
    /\ user[u] = Idle /\ phase # "stopped"
    /\ image' = "child"
    /\ UNCHANGED <<kernel, signal, table, wake, user, sw, fw, phase>>

CreateInsert(u) ==
    /\ user[u].pc = "insert"
    /\ processes' = [processes EXCEPT ![user[u].pid] = user[u].fd]
    /\ watched' = watched \cup {user[u].fd}
    /\ user' = [user EXCEPT ![u] = Idle]
    /\ UNCHANGED <<kernel, signal, opened, wake, sw, fw, phase, image>>

\* A pid a caller may have: create returned it.
Returned(p) == kernel[p] # "unused" /\ ~ Inserting(p)

\* terminate and kill send a signal only to a pid that is not in the table.
SendSignal(u, p, s) ==
    /\ user[u] = Idle /\ phase # "stopped" /\ Returned(p)
    /\ IF Managed(p) THEN UNCHANGED signal ELSE Send({p}, s)
    /\ UNCHANGED <<kernel, table, wake, user, sw, fw, phase, image>>

\* isAlive reaps the child it finds dead, and leaves its entry.
IsAlive(u, p) ==
    /\ user[u] = Idle /\ phase # "stopped"
    /\ Managed(p) /\ kernel[p] = "zombie"
    /\ Reaped(p)
    /\ UNCHANGED <<signal, table, wake, user, sw, fw, phase, image>>

\* Mutant of LookUp: the pid need not be in the table.
LookUpUnchecked(u, p) ==
    /\ user[u] = Idle /\ phase # "stopped"
    /\ user' = [user EXCEPT ![u] = [pc |-> "io", pid |-> p, fd |-> processes[p]]]
    /\ UNCHANGED <<kernel, signal, table, wake, sw, fw, phase, image>>

\* recvData and sendData: the descriptor is looked up, then used without the lock.
LookUp(u, p) ==
    /\ user[u] = Idle /\ phase # "stopped"
    /\ Managed(p)
    /\ user' = [user EXCEPT ![u] = [pc |-> "io", pid |-> p, fd |-> processes[p]]]
    /\ UNCHANGED <<kernel, signal, table, wake, sw, fw, phase, image>>

\* The other end of a pipe is closed when the child is dead.
HungUp(f) == opened[f] # None /\ ~ Alive(opened[f])

Exchange(u) ==
    /\ user[u].pc = "io"
    /\ \/ /\ opened[user[u].fd] # None
          /\ user' = [user EXCEPT ![u] = Idle]
       \/ /\ opened[user[u].fd] = None \/ HungUp(user[u].fd)
          /\ user' = [user EXCEPT ![u].pc = "notify"]
    /\ UNCHANGED <<kernel, signal, table, wake, sw, fw, phase, image>>

ExchangeFailed(u) ==
    /\ user[u].pc = "notify"
    /\ NotifyError(user[u].fd)
    /\ user' = [user EXCEPT ![u] = Idle]
    /\ UNCHANGED <<signal, wake, sw, fw, phase, image>>

(***************************************************************************)
(* The children and the kernel.  SIGCHLDs merge; the handler writes a byte *)
(* that the signal watcher's epoll_wait reports until it is read.          *)
(***************************************************************************)
ChildExits(p) ==
    /\ Alive(p)
    /\ kernel' = [kernel EXCEPT ![p] = "zombie"]
    /\ wake' = TRUE
    /\ UNCHANGED <<signal, table, user, sw, fw, phase, image>>

(***************************************************************************)
(* The signal watcher.                                                     *)
(***************************************************************************)
SignalWatcherCheck ==
    /\ sw.pc = "check"
    /\ sw' = [sw EXCEPT !.pc = IF phase \in {"joinSignalWatcher", "stopped"}
                               THEN "off" ELSE "wait"]
    /\ UNCHANGED <<kernel, signal, table, wake, user, fw, phase, image>>

\* Mutant of SignalWatcherWait: epoll_wait without a timeout.
SignalWatcherWaitForever ==
    /\ sw.pc = "wait" /\ wake
    /\ sw' = [sw EXCEPT !.pc = "reap"]
    /\ wake' = FALSE
    /\ UNCHANGED <<kernel, signal, table, user, fw, phase, image>>

SignalWatcherWait ==
    /\ sw.pc = "wait"
    /\ sw' = [sw EXCEPT !.pc = IF wake THEN "reap" ELSE "check"]
    /\ wake' = FALSE
    /\ UNCHANGED <<kernel, signal, table, user, fw, phase, image>>

SignalWatcherReap ==
    /\ sw.pc = "reap"
    /\ \/ \E p \in Zombies : Reaped(p) /\ sw' = [pc |-> "notify", pid |-> p]
       \/ Zombies = {} /\ sw' = [sw EXCEPT !.pc = "check"] /\ UNCHANGED kernel
    /\ UNCHANGED <<signal, table, wake, user, fw, phase, image>>

\* Mutant of SignalWatcherNotify: one child per wake-up.
SignalWatcherNotifyOnce ==
    /\ sw.pc = "notify"
    /\ Recycle(sw.pid)
    /\ sw' = [pc |-> "check", pid |-> None]
    /\ UNCHANGED <<kernel, signal, wake, user, fw, phase, image>>

\* notify(SIG_CHLD_EXIT), then waitpid once more.
SignalWatcherNotify ==
    /\ sw.pc = "notify"
    /\ Recycle(sw.pid)
    /\ sw' = [pc |-> "reap", pid |-> None]
    /\ UNCHANGED <<kernel, signal, wake, user, fw, phase, image>>

SignalWatching == \/ SignalWatcherCheck \/ SignalWatcherWait
                  \/ SignalWatcherReap \/ SignalWatcherNotify

(***************************************************************************)
(* The descriptor watcher.                                                 *)
(***************************************************************************)
FDWatcherCheck ==
    /\ fw.pc = "check"
    /\ fw' = [fw EXCEPT !.pc =
                 IF phase \in {"joinFDWatcher", "joinSignalWatcher", "stopped"}
                 THEN "off" ELSE "wait"]
    /\ UNCHANGED <<kernel, signal, table, wake, user, sw, phase, image>>

\* A hang-up, or a timeout or output of another child, which is copied.
FDWatcherWait ==
    /\ fw.pc = "wait"
    /\ \/ \E f \in watched : HungUp(f) /\ fw' = [pc |-> "poll_error", fd |-> f]
       \/ fw' = [fw EXCEPT !.pc = "check"]
    /\ UNCHANGED <<kernel, signal, table, wake, user, sw, phase, image>>

\* The descriptor is taken out of the epoll set, if it is still there.
FDWatcherPollError ==
    /\ fw.pc = "poll_error"
    /\ IF fw.fd \in watched
       THEN fw' = [pc |-> "check", fd |-> None]
       ELSE fw' = [fw EXCEPT !.pc = "notify"]
    /\ watched' = watched \ {fw.fd}
    /\ UNCHANGED <<kernel, signal, opened, processes, wake, user, sw, phase, image>>

FDWatcherNotify ==
    /\ fw.pc = "notify"
    /\ NotifyError(fw.fd)
    /\ fw' = [pc |-> "check", fd |-> None]
    /\ UNCHANGED <<signal, wake, user, sw, phase, image>>

FDWatching == \/ FDWatcherCheck \/ FDWatcherWait
              \/ FDWatcherPollError \/ FDWatcherNotify

(***************************************************************************)
(* start and stop of the manager.                                          *)
(***************************************************************************)
Start ==
    /\ phase = "stopped"
    /\ phase' = "running"
    /\ sw' = [pc |-> "check", pid |-> None]
    /\ fw' = [pc |-> "check", fd |-> None]
    /\ UNCHANGED <<kernel, signal, table, wake, user, image>>

\* stop sends SIGTERM to all children, sleeps, and sends SIGTERM once more.
TerminateAll ==
    /\ \/ phase = "running" /\ phase' = "terminated"
       \/ phase = "terminated" /\ phase' = "joinFDWatcher"
    /\ Send({p \in Pids : Managed(p)}, "term")
    /\ UNCHANGED <<kernel, table, wake, user, sw, fw, image>>

JoinWatchers ==
    /\ \/ phase = "joinFDWatcher" /\ fw.pc = "off" /\ phase' = "joinSignalWatcher"
       \/ phase = "joinSignalWatcher" /\ sw.pc = "off" /\ phase' = "stopped"
    /\ UNCHANGED <<kernel, signal, table, wake, user, sw, fw, image>>

UserStep(u) ==
    \/ CreateStart(u) \/ ExecFails(u) \/ ForkFails(u)
    \/ \E p \in Pids : \/ \E s \in {"term", "kill"} : SendSignal(u, p, s)
                       \/ IsAlive(u, p)
                       \/ LookUp(u, p)

\* What a thread in the midst of a call does next.
UserContinues(u) == CreateInsert(u) \/ Exchange(u) \/ ExchangeFailed(u)

Next ==
    /\ image = "manager"
    /\ \/ \E u \in Users : UserStep(u) \/ UserContinues(u)
       \/ \E p \in Pids : ChildExits(p)
       \/ SignalWatching \/ FDWatching
       \/ Start \/ TerminateAll \/ JoinWatchers

\* The watchers keep running; a thread in a call goes on, and so does stop.
Fairness ==
    /\ WF_vars(image = "manager" /\ SignalWatching)
    /\ WF_vars(image = "manager" /\ FDWatching)
    /\ WF_vars(image = "manager" /\ (JoinWatchers \/ (phase = "terminated" /\ TerminateAll)))
    /\ \A u \in Users : WF_vars(image = "manager" /\ UserContinues(u))

Spec == Init /\ [][Next]_vars /\ Fairness
-----------------------------------------------------------------------------
ManagerTypeOK ==
    /\ kernel \in [Pids -> {"unused", "running", "zombie", "reaped"}]
    /\ signal \in [Pids -> {"none", "term", "kill"}]
    /\ opened \in [FDs -> Pids \cup {None}]
    /\ processes \in [Pids -> FDs \cup {None}]
    /\ watched \subseteq FDs
    /\ wake \in BOOLEAN
    /\ user \in [Users -> {Idle} \cup [pc : {"insert", "io", "notify"},
                                      pid : Pids, fd : FDs]]
    /\ sw \in [pc : {"off", "check", "wait", "reap"}, pid : {None}]
               \cup [pc : {"notify"}, pid : Pids]
    /\ fw \in [pc : {"off", "check", "wait"}, fd : {None}]
               \cup [pc : {"poll_error", "notify"}, fd : FDs]
    /\ phase \in {"stopped", "running", "terminated", "joinFDWatcher",
                  "joinSignalWatcher"}
    /\ image \in {"manager", "child"}

\* recycle closes the descriptors of its process and of no other: a descriptor
\* is open for a child exactly while the child has an entry with it, or is about
\* to get one.  None is closed twice, none is left open by an erased entry.
FDsAreAccountedFor ==
    \A f \in FDs, p \in Pids :
        opened[f] = p <=>
            \/ processes[p] = f
            \/ \E u \in Users : user[u] = [pc |-> "insert", pid |-> p, fd |-> f]

\* No entry of a running child is recycled, whatever errors arrive late for a
\* descriptor number that has become another child's.
LiveIsManaged == \A p \in Pids : Alive(p) => Managed(p) \/ Inserting(p)

\* Every dead child is reaped while the manager runs, although SIGCHLDs merge.
ZombiesAreReaped ==
    \A p \in Pids : kernel[p] = "zombie" /\ phase = "running"
                        ~> kernel[p] = "reaped" \/ phase # "running"

\* stop comes to its end: both watchers see that they have to.
StopReturns == phase = "terminated" ~> phase = "stopped"

\* process_manager.cpp:28 calls the table "all running sub processes": the entry
\* of a dead child goes away.
DeadAreRecycled ==
    \A p \in Pids : kernel[p] = "reaped" /\ Managed(p)
                        ~> ~ Managed(p) \/ phase # "running"

\* process_manager.h:137: recvData is given "the read data from the process'
\* stdout", not another's.
DataIsOfTheProcess ==
    \A u \in Users : user[u].pc = "io" => opened[user[u].fd] \in {user[u].pid, None}
=============================================================================
