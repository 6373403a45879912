---------------------------- MODULE ManagerProofs ----------------------------
(***************************************************************************)
(* Proofs about ProcessManager, for any number of children, descriptors    *)
(* and calling threads.                                                    *)
(***************************************************************************)
EXTENDS ProcessManager, TLAPS

(***************************************************************************)
(* The inductive invariant.  It adds to the properties that a child is     *)
(* being inserted by one thread only and has no entry then, that a pid     *)
(* not used yet has neither entry nor descriptor, and that the signal      *)
(* watcher recycles only what has been reaped.                             *)
(***************************************************************************)
InsertOnce ==
    \A u \in Users : user[u].pc = "insert" =>
        /\ kernel[user[u].pid] # "unused"
        /\ ~ Managed(user[u].pid)
        /\ \A v \in Users : v # u /\ user[v].pc = "insert"
                                => user[v].pid # user[u].pid

UnusedIsClean ==
    \A p \in Pids : kernel[p] = "unused" => ~ Managed(p)

RecyclesReaped == sw.pc = "notify" => kernel[sw.pid] = "reaped"

TableInv == FDsAreAccountedFor /\ LiveIsManaged /\ InsertOnce /\ UnusedIsClean

ManagerInv == ManagerTypeOK /\ TableInv /\ RecyclesReaped

\* The empty table.
LEMMA ManagerInitInv == Init => ManagerInv
<1> SUFFICES ASSUME Init PROVE ManagerInv
  OBVIOUS
<1> USE ManagerAssumption DEF Init, Idle
<1>1. ManagerTypeOK
  BY DEF ManagerTypeOK
<1>2. TableInv /\ RecyclesReaped
  BY DEF TableInv, FDsAreAccountedFor, LiveIsManaged, InsertOnce, UnusedIsClean,
         RecyclesReaped, Alive, Managed
<1> QED
  BY <1>1, <1>2 DEF ManagerInv

\* An entry with a descriptor has it to itself.
LEMMA OneEntry ==
    ASSUME ManagerInv, NEW p \in Pids, NEW q \in Pids,
           Managed(p), processes[p] = processes[q]
    PROVE  p = q
<1>1. processes[p] \in FDs
  BY DEF ManagerInv, ManagerTypeOK, Managed
<1>2. opened[processes[p]] = p
  BY <1>1 DEF ManagerInv, TableInv, FDsAreAccountedFor
<1>3. opened[processes[p]] = q
  BY <1>1 DEF ManagerInv, TableInv, FDsAreAccountedFor
<1> QED
  BY <1>2, <1>3

\* recycle of a child that is not running keeps the table consistent.
LEMMA RecycleInv ==
    ASSUME ManagerInv, NEW p \in Pids, Recycle(p),
           \A q \in Pids : q # p => kernel'[q] = kernel[q],
           kernel'[p] = "reaped", kernel' \in [Pids -> {"unused", "running", "zombie", "reaped"}],
           \A u \in Users : user'[u] = user[u] \/ (user'[u] = Idle /\ user[u].pc # "insert")
    PROVE  /\ TableInv'
           /\ processes' \in [Pids -> FDs \cup {None}]
           /\ opened' \in [FDs -> Pids \cup {None}]
           /\ watched' \subseteq FDs
<1> USE ManagerAssumption DEF ManagerInv, Recycle
<1>1. /\ processes' = [processes EXCEPT ![p] = None]
      /\ opened' \in [FDs -> Pids \cup {None}] /\ watched' \subseteq FDs
  BY DEF ManagerTypeOK
<1>2. processes' \in [Pids -> FDs \cup {None}]
  BY <1>1 DEF ManagerTypeOK
<1>i. \A u \in Users : /\ user'[u].pc = "insert" => user'[u] = user[u]
                       /\ user[u].pc = "insert" => user'[u] = user[u]
  BY DEF Idle
<1>3. FDsAreAccountedFor'
  <2> SUFFICES ASSUME NEW f \in FDs, NEW q \in Pids
               PROVE  opened'[f] = q <=>
                        \/ processes'[q] = f
                        \/ \E u \in Users : user'[u] = [pc |-> "insert", pid |-> q, fd |-> f]
    BY DEF FDsAreAccountedFor
  <2>1. (\E u \in Users : user'[u] = [pc |-> "insert", pid |-> q, fd |-> f])
          <=> (\E u \in Users : user[u] = [pc |-> "insert", pid |-> q, fd |-> f])
    BY <1>i
  <2>2. opened[f] = q <=>
             \/ processes[q] = f
             \/ \E u \in Users : user[u] = [pc |-> "insert", pid |-> q, fd |-> f]
    BY DEF TableInv, FDsAreAccountedFor
  <2>3. CASE f = processes[p]
    <3>1. opened'[f] = None /\ opened[f] = p
      BY <2>3 DEF ManagerTypeOK, TableInv, FDsAreAccountedFor
    <3>2. processes'[q] # f
      BY <1>1, <2>3, OneEntry DEF ManagerTypeOK, Managed
    <3>3. ~ \E u \in Users : user[u] = [pc |-> "insert", pid |-> q, fd |-> f]
      <4> SUFFICES ASSUME NEW u \in Users,
                          user[u] = [pc |-> "insert", pid |-> q, fd |-> f]
                   PROVE  FALSE
        OBVIOUS
      <4>1. q = p
        BY <2>2, <3>1
      <4>2. user[u].pc = "insert" /\ user[u].pid = p
        BY <4>1
      <4> QED
        BY <4>2, <2>3 DEF TableInv, InsertOnce, Managed
    <3> QED
      BY <2>1, <3>1, <3>2, <3>3
  <2>4. CASE f # processes[p]
    <3>1. opened'[f] = opened[f]
      BY <2>4 DEF ManagerTypeOK
    <3>2. processes'[q] = f <=> processes[q] = f
      BY <1>1, <2>4 DEF ManagerTypeOK
    <3> QED
      BY <2>1, <2>2, <3>1, <3>2
  <2> QED
    BY <2>3, <2>4
<1>4. LiveIsManaged'
  <2> SUFFICES ASSUME NEW q \in Pids, kernel'[q] = "running"
               PROVE  processes'[q] # None \/ Inserting(q)'
    BY DEF LiveIsManaged, Alive, Managed
  <2>1. q # p /\ kernel[q] = "running"
    BY DEF Alive
  <2>2. processes[q] # None \/ Inserting(q)
    BY <2>1 DEF TableInv, LiveIsManaged, Alive, Managed
  <2>3. Inserting(q) => Inserting(q)'
    BY <1>i DEF Inserting
  <2> QED
    BY <1>1, <2>1, <2>2, <2>3 DEF ManagerTypeOK
<1>5. InsertOnce'
  <2> SUFFICES ASSUME NEW u \in Users, user'[u].pc = "insert"
               PROVE  /\ kernel'[user'[u].pid] # "unused"
                      /\ processes'[user'[u].pid] = None
                      /\ \A v \in Users : v # u /\ user'[v].pc = "insert"
                                             => user'[v].pid # user'[u].pid
    BY DEF InsertOnce, Managed
  <2>1. user'[u] = user[u] /\ user[u].pc = "insert" /\ user[u].pid \in Pids
    BY <1>i DEF ManagerTypeOK, Idle
  <2>2. kernel[user[u].pid] # "unused" /\ processes[user[u].pid] = None
    BY <2>1 DEF TableInv, InsertOnce, Managed
  <2>3. \A v \in Users : v # u /\ user'[v].pc = "insert" => user'[v].pid # user[u].pid
    BY <1>i, <2>1 DEF TableInv, InsertOnce
  <2> QED
    BY <1>1, <2>1, <2>2, <2>3 DEF ManagerTypeOK
<1>6. UnusedIsClean'
  <2> SUFFICES ASSUME NEW q \in Pids, kernel'[q] = "unused" PROVE processes'[q] = None
    BY DEF UnusedIsClean, Managed
  <2>1. q # p /\ kernel[q] = "unused"
    OBVIOUS
  <2> QED
    BY <1>1, <2>1 DEF TableInv, UnusedIsClean, Managed, ManagerTypeOK
<1> QED
  BY <1>1, <1>2, <1>3, <1>4, <1>5, <1>6 DEF TableInv

\* A child that dies, or is reaped without being recycled, stays where it was.
LEMMA DeathKeepsTable ==
    ASSUME ManagerInv, NEW p \in Pids, NEW k \in {"zombie", "reaped"},
           kernel' = [kernel EXCEPT ![p] = k], UNCHANGED table,
           \A u \in Users : user'[u] = user[u] \/ (user'[u] = Idle /\ user[u].pc # "insert")
    PROVE  TableInv' /\ kernel' \in [Pids -> {"unused", "running", "zombie", "reaped"}]
<1> USE DEF ManagerInv, table
<1>1. \A q \in Pids : kernel'[q] = IF q = p THEN k ELSE kernel[q]
  BY DEF ManagerTypeOK
<1>i. \A u \in Users : /\ user'[u].pc = "insert" => user'[u] = user[u]
                       /\ user[u].pc = "insert" => user'[u] = user[u]
  BY DEF Idle
<1>3. FDsAreAccountedFor'
  <2>1. \A f \in FDs, q \in Pids :
           (\E u \in Users : user'[u] = [pc |-> "insert", pid |-> q, fd |-> f])
             <=> (\E u \in Users : user[u] = [pc |-> "insert", pid |-> q, fd |-> f])
    BY <1>i
  <2> QED
    BY <2>1 DEF TableInv, FDsAreAccountedFor
<1>4. LiveIsManaged'
  BY <1>1, <1>i DEF TableInv, LiveIsManaged, Alive, Managed, Inserting
<1>5. InsertOnce'
  <2> SUFFICES ASSUME NEW u \in Users, user'[u].pc = "insert"
               PROVE  /\ kernel'[user'[u].pid] # "unused"
                      /\ processes[user'[u].pid] = None
                      /\ \A v \in Users : v # u /\ user'[v].pc = "insert"
                                             => user'[v].pid # user'[u].pid
    BY DEF InsertOnce, Managed
  <2>1. user'[u] = user[u] /\ user[u].pc = "insert" /\ user[u].pid \in Pids
    BY <1>i DEF ManagerTypeOK, Idle
  <2>2. kernel[user[u].pid] # "unused" /\ processes[user[u].pid] = None
    BY <2>1 DEF TableInv, InsertOnce, Managed
  <2>3. \A v \in Users : v # u /\ user'[v].pc = "insert" => user'[v].pid # user[u].pid
    BY <1>i, <2>1 DEF TableInv, InsertOnce
  <2> QED
    BY <1>1, <2>1, <2>2, <2>3
<1>6. UnusedIsClean'
  BY <1>1 DEF TableInv, UnusedIsClean, Managed
<1> QED
  BY <1>3, <1>4, <1>5, <1>6 DEF TableInv, ManagerTypeOK

\* Steps that neither start, end nor record a child.
LEMMA SameTable ==
    ASSUME ManagerInv, UNCHANGED <<kernel, opened, processes>>,
           \A u \in Users : \/ user'[u] = user[u]
                            \/ user'[u].pc # "insert" /\ user[u].pc # "insert"
    PROVE  TableInv'
<1> USE DEF ManagerInv
<1>i. \A u \in Users : /\ user'[u].pc = "insert" => user'[u] = user[u]
                       /\ user[u].pc = "insert" => user'[u] = user[u]
  OBVIOUS
<1>3. FDsAreAccountedFor'
  <2>1. \A f \in FDs, q \in Pids :
           (\E u \in Users : user'[u] = [pc |-> "insert", pid |-> q, fd |-> f])
             <=> (\E u \in Users : user[u] = [pc |-> "insert", pid |-> q, fd |-> f])
    BY <1>i
  <2> QED
    BY <2>1 DEF TableInv, FDsAreAccountedFor
<1>4. LiveIsManaged' /\ InsertOnce' /\ UnusedIsClean'
  BY <1>i DEF TableInv, LiveIsManaged, InsertOnce, UnusedIsClean, Alive, Managed, Inserting
<1> QED
  BY <1>3, <1>4 DEF TableInv

\* A late error on a descriptor recycles its owner only if that is not running.
LEMMA NotifyErrorInv ==
    ASSUME ManagerInv, NEW f \in FDs, NotifyError(f),
           \A u \in Users : user'[u] = user[u] \/ (user'[u] = Idle /\ user[u].pc # "insert")
    PROVE  /\ TableInv'
           /\ kernel' \in [Pids -> {"unused", "running", "zombie", "reaped"}]
           /\ processes' \in [Pids -> FDs \cup {None}]
           /\ opened' \in [FDs -> Pids \cup {None}]
           /\ watched' \subseteq FDs
           /\ \A p \in Pids : kernel[p] = "reaped" => kernel'[p] = "reaped"
<1>s. \A u \in Users : \/ user'[u] = user[u]
                       \/ user'[u].pc # "insert" /\ user[u].pc # "insert"
  BY DEF Idle
<1>1. CASE Owner(f) = {}
  <2>1. UNCHANGED table
    BY <1>1 DEF NotifyError
  <2>2. CASE Zombies = {}
    <3>1. UNCHANGED kernel
      BY <1>1, <2>2 DEF NotifyError
    <3> QED
      BY <2>1, <3>1, <1>s, SameTable DEF table, ManagerInv, ManagerTypeOK
  <2>3. CASE Zombies # {}
    <3>1. PICK z \in Zombies : Reaped(z)
      BY <1>1, <2>3 DEF NotifyError
    <3>2. z \in Pids /\ kernel' = [kernel EXCEPT ![z] = "reaped"]
      BY <3>1 DEF Zombies, Reaped
    <3>3. TableInv' /\ kernel' \in [Pids -> {"unused", "running", "zombie", "reaped"}]
      BY <2>1, <3>2, DeathKeepsTable
    <3> QED
      BY <2>1, <3>2, <3>3 DEF table, ManagerInv, ManagerTypeOK
  <2> QED
    BY <2>2, <2>3
<1>2. CASE Owner(f) # {}
  <2>1. PICK p \in Owner(f) : IF Alive(p) THEN UNCHANGED <<kernel, table>>
                                         ELSE Reaped(p) /\ Recycle(p)
    BY <1>2 DEF NotifyError
  <2>2. p \in Pids
    BY DEF Owner
  <2>3. CASE Alive(p)
    BY <2>1, <2>3, <1>s, SameTable DEF table, ManagerInv, ManagerTypeOK
  <2>4. CASE ~ Alive(p)
    <3>1. /\ Recycle(p) /\ kernel' = [kernel EXCEPT ![p] = "reaped"]
      BY <2>1, <2>4 DEF Reaped
    <3>2. /\ \A q \in Pids : q # p => kernel'[q] = kernel[q]
          /\ kernel'[p] = "reaped"
          /\ kernel' \in [Pids -> {"unused", "running", "zombie", "reaped"}]
      BY <2>2, <3>1 DEF ManagerInv, ManagerTypeOK
    <3> QED
      BY <2>2, <3>1, <3>2, RecycleInv
  <2> QED
    BY <2>3, <2>4
<1> QED
  BY <1>1, <1>2

\* A child is started: it runs and has descriptors before it has an entry.
LEMMA CreateStartInv ==
    ASSUME ManagerInv, NEW u \in Users, CreateStart(u)
    PROVE  ManagerInv'
<1> USE ManagerAssumption DEF ManagerInv
<1>1. PICK p \in Pids, f \in FDs :
          /\ kernel[p] = "unused" /\ opened[f] = None
          /\ kernel' = [kernel EXCEPT ![p] = "running"]
          /\ opened' = [opened EXCEPT ![f] = p]
          /\ user' = [user EXCEPT ![u] = [pc |-> "insert", pid |-> p, fd |-> f]]
  BY DEF CreateStart
<1>u. /\ UNCHANGED <<signal, processes, watched, wake, sw, fw, phase, image>>
      /\ user[u].pc = "idle"
  BY DEF CreateStart, Idle
<1>c. /\ processes[p] = None
      /\ \A v \in Users : user[v].pc = "insert" => user[v].pid # p
  BY <1>1 DEF TableInv, UnusedIsClean, InsertOnce, Managed
<1>2. ManagerTypeOK'
  BY <1>1, <1>u DEF ManagerTypeOK
<1>3. FDsAreAccountedFor'
  <2> SUFFICES ASSUME NEW g \in FDs, NEW q \in Pids
               PROVE  opened'[g] = q <=>
                        \/ processes[q] = g
                        \/ \E v \in Users : user'[v] = [pc |-> "insert", pid |-> q, fd |-> g]
    BY <1>u DEF FDsAreAccountedFor
  <2>1. opened[g] = q <=>
             \/ processes[q] = g
             \/ \E v \in Users : user[v] = [pc |-> "insert", pid |-> q, fd |-> g]
    BY DEF TableInv, FDsAreAccountedFor
  <2>2. user'[u] = [pc |-> "insert", pid |-> p, fd |-> f] /\ user[u].pc # "insert"
    BY <1>1, <1>u DEF ManagerTypeOK
  <2>3. \A v \in Users : v # u => user'[v] = user[v]
    BY <1>1 DEF ManagerTypeOK
  <2>4. opened'[g] = IF g = f THEN p ELSE opened[g]
    BY <1>1 DEF ManagerTypeOK
  <2>5. CASE g = f /\ q = p
    BY <2>2, <2>4, <2>5
  <2>6. CASE ~ (g = f /\ q = p)
    <3>1. (\E v \in Users : user'[v] = [pc |-> "insert", pid |-> q, fd |-> g])
            <=> (\E v \in Users : user[v] = [pc |-> "insert", pid |-> q, fd |-> g])
      <4>1. user'[u] # [pc |-> "insert", pid |-> q, fd |-> g]
        BY <2>2, <2>6
      <4>2. user[u] # [pc |-> "insert", pid |-> q, fd |-> g]
        BY <2>2
      <4> QED
        BY <4>1, <4>2, <2>3
    <3>2. CASE g = f
      BY <3>1, <3>2, <2>1, <2>4, <2>6, <1>1
    <3>3. CASE g # f
      BY <3>1, <3>3, <2>1, <2>4
    <3> QED
      BY <3>2, <3>3
  <2> QED
    BY <2>5, <2>6
<1>4. LiveIsManaged'
  <2>1. \A v \in Users : user[v].pc = "insert" => user'[v] = user[v]
    BY <1>1, <1>u DEF ManagerTypeOK
  <2>2. \A q \in Pids : Inserting(q) => Inserting(q)'
    BY <2>1 DEF Inserting
  <2>3. Inserting(p)'
    BY <1>1 DEF Inserting, ManagerTypeOK
  <2> QED
    BY <1>1, <1>u, <2>2, <2>3
       DEF TableInv, LiveIsManaged, Alive, Managed, ManagerTypeOK
<1>5. InsertOnce'
  <2> SUFFICES ASSUME NEW w \in Users, user'[w].pc = "insert"
               PROVE  /\ kernel'[user'[w].pid] # "unused"
                      /\ processes[user'[w].pid] = None
                      /\ \A v \in Users : v # w /\ user'[v].pc = "insert"
                                             => user'[v].pid # user'[w].pid
    BY <1>u DEF InsertOnce, Managed
  <2>1. \A v \in Users : user'[v] = IF v = u THEN [pc |-> "insert", pid |-> p, fd |-> f]
                                            ELSE user[v]
    BY <1>1 DEF ManagerTypeOK
  <2>2. \A q \in Pids : kernel'[q] = IF q = p THEN "running" ELSE kernel[q]
    BY <1>1 DEF ManagerTypeOK
  <2>3. CASE w = u
    BY <2>1, <2>2, <2>3, <1>c
  <2>4. CASE w # u
    <3>1. user'[w] = user[w] /\ user[w].pc = "insert" /\ user[w].pid \in Pids
      BY <2>1, <2>4 DEF ManagerTypeOK, Idle
    <3>2. /\ kernel[user[w].pid] # "unused" /\ processes[user[w].pid] = None
          /\ \A v \in Users : v # w /\ user[v].pc = "insert" => user[v].pid # user[w].pid
      BY <3>1 DEF TableInv, InsertOnce, Managed
    <3> QED
      BY <3>1, <3>2, <2>1, <2>2, <1>c
  <2> QED
    BY <2>3, <2>4
<1>6. UnusedIsClean' /\ RecyclesReaped'
  BY <1>1, <1>u DEF TableInv, UnusedIsClean, RecyclesReaped, Managed, ManagerTypeOK
<1> QED
  BY <1>2, <1>3, <1>4, <1>5, <1>6 DEF TableInv

\* The entry is added; the child may be dead, or even reaped, by then.
LEMMA CreateInsertInv ==
    ASSUME ManagerInv, NEW u \in Users, CreateInsert(u)
    PROVE  ManagerInv'
<1> USE ManagerAssumption DEF ManagerInv
<1> DEFINE p == user[u].pid
           f == user[u].fd
<1>1. /\ p \in Pids /\ f \in FDs /\ user[u] = [pc |-> "insert", pid |-> p, fd |-> f]
      /\ processes' = [processes EXCEPT ![p] = f]
      /\ watched' = watched \cup {f}
      /\ user' = [user EXCEPT ![u] = Idle]
      /\ UNCHANGED <<kernel, signal, opened, wake, sw, fw, phase, image>>
  BY DEF CreateInsert, ManagerTypeOK, Idle
<1>c. /\ kernel[p] # "unused" /\ processes[p] = None
      /\ \A v \in Users : v # u /\ user[v].pc = "insert" => user[v].pid # p
  BY <1>1 DEF TableInv, InsertOnce, Managed
<1>v. \A v \in Users : user'[v] = IF v = u THEN Idle ELSE user[v]
  BY <1>1 DEF ManagerTypeOK
<1>q. \A q \in Pids : processes'[q] = IF q = p THEN f ELSE processes[q]
  BY <1>1 DEF ManagerTypeOK
<1>i. \A v \in Users : /\ user'[v].pc = "insert" => user'[v] = user[v] /\ v # u
                       /\ v # u => user'[v] = user[v]
  BY <1>v DEF Idle
<1>2. ManagerTypeOK'
  BY <1>1 DEF ManagerTypeOK
<1> HIDE DEF p, f
<1>3. FDsAreAccountedFor'
  <2> SUFFICES ASSUME NEW g \in FDs, NEW q \in Pids
               PROVE  opened[g] = q <=>
                        \/ processes'[q] = g
                        \/ \E v \in Users : user'[v] = [pc |-> "insert", pid |-> q, fd |-> g]
    BY <1>1 DEF FDsAreAccountedFor
  <2>1. opened[g] = q <=>
             \/ processes[q] = g
             \/ \E v \in Users : user[v] = [pc |-> "insert", pid |-> q, fd |-> g]
    BY DEF TableInv, FDsAreAccountedFor
  <2>2. \A v \in Users : user'[v] = [pc |-> "insert", pid |-> q, fd |-> g]
                            <=> v # u /\ user[v] = [pc |-> "insert", pid |-> q, fd |-> g]
    BY <1>i
  <2>3. CASE q = p
    <3>1. \A v \in Users : v # u => user[v] # [pc |-> "insert", pid |-> q, fd |-> g]
      BY <2>3, <1>c
    <3>2. opened[g] = q <=> g = f
      BY <2>1, <2>3, <3>1, <1>1, <1>c
    <3> QED
      BY <2>2, <2>3, <3>1, <3>2, <1>q
  <2>4. CASE q # p
    <3>1. user[u] # [pc |-> "insert", pid |-> q, fd |-> g]
      BY <2>4, <1>1
    <3> QED
      BY <2>1, <2>2, <2>4, <3>1, <1>q
  <2> QED
    BY <2>3, <2>4
<1>4. LiveIsManaged'
  <2> SUFFICES ASSUME NEW q \in Pids, kernel[q] = "running", processes'[q] = None
               PROVE  Inserting(q)'
    BY <1>1 DEF LiveIsManaged, Alive, Managed
  <2>1. q # p /\ processes[q] = None
    BY <1>1, <1>q
  <2>2. Inserting(q)
    BY <2>1 DEF TableInv, LiveIsManaged, Alive, Managed
  <2>3. PICK v \in Users : user[v].pc = "insert" /\ user[v].pid = q
    BY <2>2 DEF Inserting
  <2>4. v # u
    BY <2>1, <2>3, <1>1
  <2> QED
    BY <2>3, <2>4, <1>i DEF Inserting
<1>5. InsertOnce'
  <2> SUFFICES ASSUME NEW w \in Users, user'[w].pc = "insert"
               PROVE  /\ kernel[user'[w].pid] # "unused"
                      /\ processes'[user'[w].pid] = None
                      /\ \A v \in Users : v # w /\ user'[v].pc = "insert"
                                             => user'[v].pid # user'[w].pid
    BY <1>1 DEF InsertOnce, Managed
  <2>1. user'[w] = user[w] /\ user[w].pc = "insert" /\ w # u
    BY <1>i
  <2>2. user[w].pid \in Pids /\ user[w].pid # p
    BY <2>1, <1>c DEF ManagerTypeOK, Idle
  <2>3. /\ kernel[user[w].pid] # "unused" /\ processes[user[w].pid] = None
        /\ \A v \in Users : v # w /\ user[v].pc = "insert" => user[v].pid # user[w].pid
    BY <2>1 DEF TableInv, InsertOnce, Managed
  <2> QED
    BY <2>1, <2>2, <2>3, <1>i, <1>q
<1>6. UnusedIsClean' /\ RecyclesReaped'
  BY <1>1, <1>q, <1>c DEF TableInv, UnusedIsClean, RecyclesReaped, Managed
<1> QED
  BY <1>2, <1>3, <1>4, <1>5, <1>6 DEF TableInv

\* execvp fails: the child is dead and never gets an entry.
LEMMA ExecFailsInv ==
    ASSUME ManagerInv, NEW u \in Users, ExecFails(u)
    PROVE  ManagerInv'
<1>1. PICK p \in Pids : kernel[p] = "unused" /\ kernel' = [kernel EXCEPT ![p] = "zombie"]
  BY DEF ExecFails
<1>u. /\ wake' = TRUE
      /\ UNCHANGED <<signal, table, user, sw, fw, phase, image>>
  BY DEF ExecFails
<1>2. TableInv' /\ kernel' \in [Pids -> {"unused", "running", "zombie", "reaped"}]
  BY <1>1, <1>u, DeathKeepsTable
<1>3. RecyclesReaped'
  BY <1>1, <1>u DEF ManagerInv, ManagerTypeOK, RecyclesReaped
<1> QED
  BY <1>2, <1>3, <1>u DEF ManagerInv, ManagerTypeOK, table

\* A child exits.
LEMMA ChildExitsInv ==
    ASSUME ManagerInv, NEW p \in Pids, ChildExits(p)
    PROVE  ManagerInv'
<1>u. /\ kernel[p] = "running" /\ kernel' = [kernel EXCEPT ![p] = "zombie"]
      /\ wake' = TRUE
      /\ UNCHANGED <<signal, table, user, sw, fw, phase, image>>
  BY DEF ChildExits, Alive
<1>2. TableInv' /\ kernel' \in [Pids -> {"unused", "running", "zombie", "reaped"}]
  BY <1>u, DeathKeepsTable
<1>3. RecyclesReaped'
  BY <1>u DEF ManagerInv, ManagerTypeOK, RecyclesReaped
<1> QED
  BY <1>2, <1>3, <1>u DEF ManagerInv, ManagerTypeOK, table

\* isAlive reaps a dead child.
LEMMA IsAliveInv ==
    ASSUME ManagerInv, NEW u \in Users, NEW p \in Pids, IsAlive(u, p)
    PROVE  ManagerInv'
<1>u. /\ kernel' = [kernel EXCEPT ![p] = "reaped"]
      /\ UNCHANGED <<signal, table, wake, user, sw, fw, phase, image>>
  BY DEF IsAlive, Reaped
<1>2. TableInv' /\ kernel' \in [Pids -> {"unused", "running", "zombie", "reaped"}]
  BY <1>u, DeathKeepsTable
<1>3. RecyclesReaped'
  BY <1>u DEF ManagerInv, ManagerTypeOK, RecyclesReaped
<1> QED
  BY <1>2, <1>3, <1>u DEF ManagerInv, ManagerTypeOK, table

\* A signal changes nothing in the table.
LEMMA SendSignalInv ==
    ASSUME ManagerInv, NEW u \in Users, NEW p \in Pids, NEW s \in {"term", "kill"},
           SendSignal(u, p, s)
    PROVE  ManagerInv'
<1>u. UNCHANGED <<kernel, table, wake, user, sw, fw, phase, image>>
  BY DEF SendSignal
<1>1. signal' \in [Pids -> {"none", "term", "kill"}]
  BY DEF SendSignal, Send, ManagerInv, ManagerTypeOK
<1>2. TableInv'
  BY <1>u, SameTable DEF table
<1> QED
  BY <1>u, <1>1, <1>2 DEF ManagerInv, ManagerTypeOK, RecyclesReaped, table

\* recvData and sendData up to their error do not change the table.
LEMMA ExchangeInv ==
    ASSUME ManagerInv, NEW u \in Users,
           Exchange(u) \/ \E p \in Pids : LookUp(u, p)
    PROVE  ManagerInv'
<1> USE DEF ManagerInv
<1>u. UNCHANGED <<kernel, signal, table, wake, sw, fw, phase, image>>
  BY DEF Exchange, LookUp
<1>1. \E r \in {Idle} \cup [pc : {"io", "notify"}, pid : Pids, fd : FDs] :
         user' = [user EXCEPT ![u] = r] /\ user[u].pc # "insert"
  <2>1. CASE Exchange(u)
    <3>1. user[u] \in [pc : {"insert", "io", "notify"}, pid : Pids, fd : FDs]
      BY <2>1 DEF Exchange, ManagerTypeOK, Idle
    <3>2. [user[u] EXCEPT !.pc = "notify"]
              \in [pc : {"io", "notify"}, pid : Pids, fd : FDs]
      BY <3>1
    <3>3. \/ user' = [user EXCEPT ![u] = Idle]
          \/ user' = [user EXCEPT ![u] = [user[u] EXCEPT !.pc = "notify"]]
      BY <2>1 DEF Exchange
    <3>4. user[u].pc # "insert"
      BY <2>1 DEF Exchange
    <3> QED
      BY <3>2, <3>3, <3>4
  <2>2. ASSUME NEW p \in Pids, LookUp(u, p)
        PROVE  \E r \in {Idle} \cup [pc : {"io", "notify"}, pid : Pids, fd : FDs] :
                  user' = [user EXCEPT ![u] = r] /\ user[u].pc # "insert"
    <3>1. /\ user' = [user EXCEPT ![u] = [pc |-> "io", pid |-> p, fd |-> processes[p]]]
          /\ processes[p] \in FDs /\ user[u].pc # "insert"
      BY <2>2 DEF LookUp, Managed, ManagerTypeOK, Idle
    <3>2. [pc |-> "io", pid |-> p, fd |-> processes[p]]
              \in [pc : {"io", "notify"}, pid : Pids, fd : FDs]
      BY <3>1
    <3> QED
      BY <3>1, <3>2
  <2> QED
    BY <2>1, <2>2
<1>3. PICK r \in {Idle} \cup [pc : {"io", "notify"}, pid : Pids, fd : FDs] :
         user' = [user EXCEPT ![u] = r] /\ user[u].pc # "insert"
  BY <1>1
<1>4. r.pc # "insert" /\ r \in {Idle} \cup [pc : {"insert", "io", "notify"},
                                            pid : Pids, fd : FDs]
  BY <1>3 DEF Idle
<1>5. user' \in [Users -> {Idle} \cup [pc : {"insert", "io", "notify"},
                                        pid : Pids, fd : FDs]]
  BY <1>3, <1>4 DEF ManagerTypeOK
<1>6. \A v \in Users : \/ user'[v] = user[v]
                       \/ user'[v].pc # "insert" /\ user[v].pc # "insert"
  BY <1>3, <1>4 DEF ManagerTypeOK
<1>2. TableInv'
  BY <1>u, <1>6, SameTable DEF table
<1> QED
  BY <1>u, <1>2, <1>5 DEF ManagerTypeOK, RecyclesReaped, table

\* A failed read or write is notified.
LEMMA ExchangeFailedInv ==
    ASSUME ManagerInv, NEW u \in Users, ExchangeFailed(u)
    PROVE  ManagerInv'
<1>u. /\ user[u].pc = "notify" /\ NotifyError(user[u].fd)
      /\ user' = [user EXCEPT ![u] = Idle]
      /\ UNCHANGED <<signal, wake, sw, fw, phase, image>>
  BY DEF ExchangeFailed
<1>f. user[u].fd \in FDs
  BY <1>u DEF ManagerInv, ManagerTypeOK, Idle
<1>v. /\ \A v \in Users : user'[v] = user[v] \/ (user'[v] = Idle /\ user[v].pc # "insert")
      /\ user' \in [Users -> {Idle} \cup [pc : {"insert", "io", "notify"},
                                          pid : Pids, fd : FDs]]
  BY <1>u DEF ManagerInv, ManagerTypeOK
<1>1. /\ TableInv'
      /\ kernel' \in [Pids -> {"unused", "running", "zombie", "reaped"}]
      /\ processes' \in [Pids -> FDs \cup {None}]
      /\ opened' \in [FDs -> Pids \cup {None}]
      /\ watched' \subseteq FDs
      /\ \A p \in Pids : kernel[p] = "reaped" => kernel'[p] = "reaped"
  BY <1>u, <1>f, <1>v, NotifyErrorInv
<1> QED
  BY <1>u, <1>v, <1>1 DEF ManagerInv, ManagerTypeOK, RecyclesReaped

\* The signal watcher recycles the child it has reaped.
LEMMA SignalWatchingInv ==
    ASSUME ManagerInv, SignalWatching
    PROVE  ManagerInv'
<1> USE DEF ManagerInv
<1>1. CASE SignalWatcherCheck \/ SignalWatcherWait
  <2>1. /\ UNCHANGED <<kernel, signal, table, user, fw, phase, image>>
        /\ wake' \in BOOLEAN
    BY <1>1 DEF SignalWatcherCheck, SignalWatcherWait, ManagerTypeOK
  <2>2. sw' \in [pc : {"off", "check", "wait", "reap"}, pid : {None}]
    BY <1>1 DEF SignalWatcherCheck, SignalWatcherWait, ManagerTypeOK
  <2>3. TableInv'
    BY <2>1, SameTable DEF table
  <2> QED
    BY <2>1, <2>2, <2>3 DEF ManagerTypeOK, RecyclesReaped, table
<1>2. CASE SignalWatcherReap
  <2>u. UNCHANGED <<signal, table, wake, user, fw, phase, image>> /\ sw.pc = "reap"
    BY <1>2 DEF SignalWatcherReap
  <2>1. ASSUME NEW p \in Zombies, Reaped(p), sw' = [pc |-> "notify", pid |-> p]
        PROVE  ManagerInv'
    <3>1. p \in Pids /\ kernel' = [kernel EXCEPT ![p] = "reaped"]
      BY <2>1 DEF Zombies, Reaped
    <3>2. TableInv' /\ kernel' \in [Pids -> {"unused", "running", "zombie", "reaped"}]
      BY <2>u, <3>1, DeathKeepsTable
    <3> QED
      BY <2>u, <2>1, <3>1, <3>2 DEF ManagerTypeOK, RecyclesReaped, table
  <2>2. CASE sw' = [sw EXCEPT !.pc = "check"] /\ UNCHANGED kernel
    <3>1. sw' \in [pc : {"off", "check", "wait", "reap"}, pid : {None}]
      BY <2>u, <2>2 DEF ManagerTypeOK
    <3>2. TableInv'
      BY <2>u, <2>2, SameTable DEF table
    <3> QED
      BY <2>u, <2>2, <3>1, <3>2 DEF ManagerTypeOK, RecyclesReaped, table
  <2> QED
    BY <1>2, <2>1, <2>2 DEF SignalWatcherReap
<1>3. CASE SignalWatcherNotify
  <2>u. /\ sw.pc = "notify" /\ Recycle(sw.pid) /\ sw' = [pc |-> "reap", pid |-> None]
        /\ UNCHANGED <<kernel, signal, wake, user, fw, phase, image>>
    BY <1>3 DEF SignalWatcherNotify
  <2>1. sw.pid \in Pids /\ kernel[sw.pid] = "reaped"
    BY <2>u DEF ManagerTypeOK, RecyclesReaped
  <2>2. /\ TableInv'
        /\ processes' \in [Pids -> FDs \cup {None}]
        /\ opened' \in [FDs -> Pids \cup {None}]
        /\ watched' \subseteq FDs
    BY <2>u, <2>1, RecycleInv DEF ManagerTypeOK
  <2> QED
    BY <2>u, <2>2 DEF ManagerTypeOK, RecyclesReaped
<1> QED
  BY <1>1, <1>2, <1>3 DEF SignalWatching

\* The descriptor watcher stops watching, or notifies an error that may be stale.
LEMMA FDWatchingInv ==
    ASSUME ManagerInv, FDWatching
    PROVE  ManagerInv'
<1> USE DEF ManagerInv
<1>1. CASE FDWatcherCheck \/ FDWatcherWait \/ FDWatcherPollError
  <2>1. /\ UNCHANGED <<kernel, signal, opened, processes, wake, user, sw, phase, image>>
        /\ watched' \subseteq FDs
    BY <1>1 DEF FDWatcherCheck, FDWatcherWait, FDWatcherPollError, ManagerTypeOK, table
  <2>2. fw' \in [pc : {"off", "check", "wait"}, fd : {None}]
                   \cup [pc : {"poll_error", "notify"}, fd : FDs]
    BY <1>1 DEF FDWatcherCheck, FDWatcherWait, FDWatcherPollError, ManagerTypeOK
  <2>3. TableInv'
    BY <2>1, SameTable
  <2> QED
    BY <2>1, <2>2, <2>3 DEF ManagerTypeOK, RecyclesReaped
<1>2. CASE FDWatcherNotify
  <2>u. /\ fw.pc = "notify" /\ NotifyError(fw.fd) /\ fw' = [pc |-> "check", fd |-> None]
        /\ UNCHANGED <<signal, wake, user, sw, phase, image>>
    BY <1>2 DEF FDWatcherNotify
  <2>f. fw.fd \in FDs
    BY <2>u DEF ManagerTypeOK
  <2>1. /\ TableInv'
        /\ kernel' \in [Pids -> {"unused", "running", "zombie", "reaped"}]
        /\ processes' \in [Pids -> FDs \cup {None}]
        /\ opened' \in [FDs -> Pids \cup {None}]
        /\ watched' \subseteq FDs
        /\ \A p \in Pids : kernel[p] = "reaped" => kernel'[p] = "reaped"
    BY <2>u, <2>f, NotifyErrorInv
  <2> QED
    BY <2>u, <2>1 DEF ManagerTypeOK, RecyclesReaped
<1> QED
  BY <1>1, <1>2 DEF FDWatching

\* start, stop and a failing fork do not change the table.
LEMMA ControlStepInv ==
    ASSUME ManagerInv,
           Start \/ TerminateAll \/ JoinWatchers \/ \E u \in Users : ForkFails(u)
    PROVE  ManagerInv'
<1> USE DEF ManagerInv
<1>u. UNCHANGED <<kernel, table, wake, user>>
  BY DEF Start, TerminateAll, JoinWatchers, ForkFails
<1>1. /\ signal' \in [Pids -> {"none", "term", "kill"}]
      /\ image' \in {"manager", "child"}
      /\ phase' \in {"stopped", "running", "terminated", "joinFDWatcher",
                     "joinSignalWatcher"}
      /\ sw' = sw \/ sw' = [pc |-> "check", pid |-> None]
      /\ fw' = fw \/ fw' = [pc |-> "check", fd |-> None]
  BY DEF Start, TerminateAll, JoinWatchers, ForkFails, Send, ManagerTypeOK
<1>2. TableInv'
  BY <1>u, SameTable DEF table
<1> QED
  BY <1>u, <1>1, <1>2 DEF ManagerTypeOK, RecyclesReaped, table

\* The invariant is inductive.
LEMMA ManagerStepInv == ManagerInv /\ [Next]_vars => ManagerInv'
<1> SUFFICES ASSUME ManagerInv, [Next]_vars PROVE ManagerInv'
  OBVIOUS
<1>1. ASSUME NEW u \in Users, UserStep(u)
      PROVE  ManagerInv'
  BY <1>1, CreateStartInv, ExecFailsInv, ControlStepInv, SendSignalInv, IsAliveInv,
     ExchangeInv DEF UserStep
<1>2. ASSUME NEW u \in Users, UserContinues(u)
      PROVE  ManagerInv'
  BY <1>2, CreateInsertInv, ExchangeInv, ExchangeFailedInv DEF UserContinues
<1>3. CASE UNCHANGED vars
  BY <1>3, SameTable DEF vars, table, ManagerInv, ManagerTypeOK, RecyclesReaped
<1> QED
  BY <1>1, <1>2, <1>3, ChildExitsInv, SignalWatchingInv, FDWatchingInv, ControlStepInv
     DEF Next

\* The inductive invariant holds in every state of the specification.
THEOREM ManagerInvariance == Spec => []ManagerInv
  BY ManagerInitInv, ManagerStepInv, PTL DEF Spec

\* Types; the watchers and the callers only ever go on with a pid or a
\* descriptor they have really got.
THEOREM ManagerTypeCorrect == Spec => []ManagerTypeOK
<1>1. ManagerInv => ManagerTypeOK
  BY DEF ManagerInv
<1> QED
  BY <1>1, ManagerInvariance, PTL

\* recycle closes each descriptor once, and the right one.
THEOREM DescriptorsAreClosedOnce == Spec => []FDsAreAccountedFor
<1>1. ManagerInv => FDsAreAccountedFor
  BY DEF ManagerInv, TableInv
<1> QED
  BY <1>1, ManagerInvariance, PTL

\* No running child loses its entry to a late error of another one.
THEOREM LiveChildrenKeepTheirEntry == Spec => []LiveIsManaged
<1>1. ManagerInv => LiveIsManaged
  BY DEF ManagerInv, TableInv
<1> QED
  BY <1>1, ManagerInvariance, PTL
=============================================================================
