------------------------- MODULE WriterLeaseProofs -------------------------
(***************************************************************************)
(* Every process that relies on a fence is the sole holder of the newest   *)
(* one, for any number of processes, workspaces and generations.           *)
(***************************************************************************)
EXTENDS WriterLease, TLAPS

-----------------------------------------------------------------------------
(* The inductive invariant.                                                *)

\* A lock is held for a lease, or for the entry being acquired.
LocksAreAccountedFor ==
    \A p \in Processes, w \in Workspaces :
        p \in lock[w] =>
            \/ lock[w] = {p} /\ fence[p][w] # 0
            \/ lock[w] = {p} /\ phase[p] = "locked" /\ w = Wanted(p)

\* What each phase knows of the process's own leases.
PhaseInv ==
    \A p \in Processes :
        /\ phase[p] = "locked" => lock[Wanted(p)] = {p}
        /\ phase[p] = "locked" => fence[p][Wanted(p)] = 0
        /\ phase[p] = "allocated" => fence[p][Wanted(p)] # 0
        /\ phase[p] \in {"locked", "allocated"} => Wanted(p) \in Workspaces
        /\ phase[p] = "stopped" => \A w \in Workspaces : fence[p][w] = 0
        /\ phase[p] # "serving" => writing[p] = {}
        /\ \A w \in writing[p] : fence[p][w] # 0

\* No write is newer than the newest generation.
WritesAreOld == \A w \in Workspaces : lastWriter[w] <= current[w]

LeaseInv ==
    TypeOK /\ HolderIsCurrent /\ LocksAreAccountedFor /\ PhaseInv /\ WritesAreOld

-----------------------------------------------------------------------------
\* The successor allocate_next may store.
LEMMA NextGenerationFacts ==
    ASSUME TypeOK, NEW w \in Workspaces, NEW g \in NextGeneration(w)
    PROVE  g \in 1..MaxGeneration /\ g = current[w] + 1
<1>. QED  BY LeaseAssumption DEF NextGeneration, TypeOK

\* The entry a process is acquiring is one of the workspaces.
LEMMA WantedIsAWorkspace ==
    ASSUME NEW p \in Processes, position[p] \in DOMAIN Registry[p]
    PROVE  Wanted(p) \in Workspaces
<1>. QED  BY LeaseAssumption DEF Wanted

-----------------------------------------------------------------------------
(* One lemma per action.                                                   *)

\* BeginStartup preserves the invariant.
LEMMA BeginStartupStep ==
    ASSUME LeaseInv, NEW p \in Processes, BeginStartup(p)
    PROVE  LeaseInv'
<1>b. \A q \in Processes : position'[q] = position[q] => Wanted(q)' = Wanted(q)
  BY DEF Wanted
<1>1. TypeOK'
  BY LeaseAssumption DEF LeaseInv, BeginStartup, TypeOK, Phases
<1>2. HolderIsCurrent'
  <2>. SUFFICES ASSUME NEW q \in Processes, NEW v \in Workspaces, fence'[q][v] # 0
                PROVE  lock'[v] = {q} /\ current'[v] = fence'[q][v]
    BY DEF HolderIsCurrent
  <2>. QED  BY LeaseAssumption
            DEF LeaseInv, BeginStartup, TypeOK, HolderIsCurrent, LocksAreAccountedFor, PhaseInv
<1>3. LocksAreAccountedFor'
  <2>. SUFFICES ASSUME NEW q \in Processes, NEW v \in Workspaces, q \in lock'[v]
                PROVE  /\ lock'[v] = {q}
                       /\ fence'[q][v] # 0 \/ (phase'[q] = "locked" /\ v = Wanted(q)')
    BY DEF LocksAreAccountedFor
  <2>. QED  BY <1>b, LeaseAssumption
            DEF LeaseInv, BeginStartup, TypeOK, LocksAreAccountedFor, HolderIsCurrent, PhaseInv
<1>4. PhaseInv'
  <2>. SUFFICES ASSUME NEW q \in Processes
                PROVE  /\ phase'[q] = "locked" => lock'[Wanted(q)'] = {q}
                       /\ phase'[q] = "locked" => fence'[q][Wanted(q)'] = 0
                       /\ phase'[q] = "allocated" => fence'[q][Wanted(q)'] # 0
                       /\ phase'[q] \in {"locked", "allocated"} => Wanted(q)' \in Workspaces
                       /\ phase'[q] = "stopped" => \A v \in Workspaces : fence'[q][v] = 0
                       /\ phase'[q] # "serving" => writing'[q] = {}
                       /\ \A v \in writing'[q] : fence'[q][v] # 0
    BY DEF PhaseInv
  <2>. QED  BY <1>b, LeaseAssumption
            DEF LeaseInv, BeginStartup, TypeOK, HolderIsCurrent, LocksAreAccountedFor, PhaseInv
<1>5. WritesAreOld'
  BY LeaseAssumption DEF LeaseInv, BeginStartup, TypeOK, WritesAreOld
<1>. QED  BY <1>1, <1>2, <1>3, <1>4, <1>5 DEF LeaseInv

\* TryLock preserves the invariant.
LEMMA TryLockStep ==
    ASSUME LeaseInv, NEW p \in Processes, TryLock(p)
    PROVE  LeaseInv'
<1>0. PICK w \in Workspaces : w = Wanted(p)
  BY WantedIsAWorkspace DEF TryLock, AtEntry
<1>a. /\ phase[p] = "acquiring" /\ lock[w] = {}
     /\ lock' = [lock EXCEPT ![w] = {p}]
     /\ phase' = [phase EXCEPT ![p] = "locked"]
     /\ UNCHANGED <<current, lastWriter, position, fence, writing, dropped, faults>>
  BY <1>0, LeaseAssumption DEF TryLock, AtEntry, LeaseInv, TypeOK
<1>b. \A q \in Processes : position'[q] = position[q] => Wanted(q)' = Wanted(q)
  BY DEF Wanted
<1>1. TypeOK'
  BY <1>0, <1>a, LeaseAssumption DEF LeaseInv, TypeOK, Phases
<1>2. HolderIsCurrent'
  <2>. SUFFICES ASSUME NEW q \in Processes, NEW v \in Workspaces, fence'[q][v] # 0
                PROVE  lock'[v] = {q} /\ current'[v] = fence'[q][v]
    BY DEF HolderIsCurrent
  <2>1. lock[v] = {q} /\ current[v] = fence[q][v]
    BY <1>a DEF LeaseInv, HolderIsCurrent
  <2>2. v # w
    BY <2>1, <1>a
  <2>. QED  BY <1>a, <2>1, <2>2 DEF LeaseInv, TypeOK
<1>3. LocksAreAccountedFor'
  <2>. SUFFICES ASSUME NEW q \in Processes, NEW v \in Workspaces, q \in lock'[v]
                PROVE  /\ lock'[v] = {q}
                       /\ fence'[q][v] # 0 \/ (phase'[q] = "locked" /\ v = Wanted(q)')
    BY DEF LocksAreAccountedFor
  <2>. QED  BY SMTT(40), Zenon, <1>0, <1>a, <1>b, LeaseAssumption
            DEF LeaseInv, TypeOK, LocksAreAccountedFor, HolderIsCurrent, PhaseInv
<1>4. PhaseInv'
  <2>. SUFFICES ASSUME NEW q \in Processes
                PROVE  /\ phase'[q] = "locked" => lock'[Wanted(q)'] = {q}
                       /\ phase'[q] = "locked" => fence'[q][Wanted(q)'] = 0
                       /\ phase'[q] = "allocated" => fence'[q][Wanted(q)'] # 0
                       /\ phase'[q] \in {"locked", "allocated"} => Wanted(q)' \in Workspaces
                       /\ phase'[q] = "stopped" => \A v \in Workspaces : fence'[q][v] = 0
                       /\ phase'[q] # "serving" => writing'[q] = {}
                       /\ \A v \in writing'[q] : fence'[q][v] # 0
    BY DEF PhaseInv
  <2>1. Wanted(q)' = Wanted(q) /\ fence'[q] = fence[q] /\ writing'[q] = writing[q]
    BY <1>a, <1>b
  <2>2. CASE q = p
    <3>1. phase'[p] = "locked" /\ lock'[w] = {p} /\ fence[p][w] = 0
      BY Zenon, <1>a DEF LeaseInv, TypeOK, HolderIsCurrent
    <3>. QED  BY <1>0, <1>a, <2>1, <2>2, <3>1 DEF LeaseInv, PhaseInv
  <2>3. CASE q # p
    <3>1. phase'[q] = phase[q]
      BY <1>a, <2>3 DEF LeaseInv, TypeOK
    <3>2. ASSUME phase[q] = "locked" PROVE lock'[Wanted(q)] = lock[Wanted(q)]
      <4>1. lock[Wanted(q)] = {q} /\ Wanted(q) \in Workspaces
        BY <3>2 DEF LeaseInv, PhaseInv
      <4>. QED  BY Zenon, <1>a, <4>1 DEF LeaseInv, TypeOK
    <3>. QED  BY <2>1, <3>1, <3>2 DEF LeaseInv, PhaseInv
  <2>. QED  BY <2>2, <2>3
<1>5. WritesAreOld'
  BY <1>0, <1>a, LeaseAssumption DEF LeaseInv, TypeOK, WritesAreOld
<1>. QED  BY <1>1, <1>2, <1>3, <1>4, <1>5 DEF LeaseInv

\* LockFails preserves the invariant.
LEMMA LockFailsStep ==
    ASSUME LeaseInv, NEW p \in Processes, LockFails(p)
    PROVE  LeaseInv'
<1>0. PICK w \in Workspaces : w = Wanted(p)
  BY WantedIsAWorkspace DEF LockFails, AtEntry
<1>f. faults' \in 0..MaxFaults
  BY LeaseAssumption DEF LockFails, Fault, LeaseInv, TypeOK
<1>a. /\ phase[p] = "acquiring"
     /\ phase' = [phase EXCEPT ![p] = "failed"]
     /\ faults' \in 0..MaxFaults
     /\ UNCHANGED <<lock, current, lastWriter, position, fence, writing, dropped>>
  BY <1>f DEF LockFails, AtEntry
<1>b. \A q \in Processes : position'[q] = position[q] => Wanted(q)' = Wanted(q)
  BY DEF Wanted
<1>1. TypeOK'
  BY <1>0, <1>a, LeaseAssumption DEF LeaseInv, TypeOK, Phases
<1>2. HolderIsCurrent'
  <2>. SUFFICES ASSUME NEW q \in Processes, NEW v \in Workspaces, fence'[q][v] # 0
                PROVE  lock'[v] = {q} /\ current'[v] = fence'[q][v]
    BY DEF HolderIsCurrent
  <2>. QED  BY <1>0, <1>a, LeaseAssumption
            DEF LeaseInv, TypeOK, HolderIsCurrent, LocksAreAccountedFor, PhaseInv
<1>3. LocksAreAccountedFor'
  <2>. SUFFICES ASSUME NEW q \in Processes, NEW v \in Workspaces, q \in lock'[v]
                PROVE  /\ lock'[v] = {q}
                       /\ fence'[q][v] # 0 \/ (phase'[q] = "locked" /\ v = Wanted(q)')
    BY DEF LocksAreAccountedFor
  <2>. QED  BY <1>0, <1>a, <1>b, LeaseAssumption
            DEF LeaseInv, TypeOK, LocksAreAccountedFor, HolderIsCurrent, PhaseInv
<1>4. PhaseInv'
  <2>. SUFFICES ASSUME NEW q \in Processes
                PROVE  /\ phase'[q] = "locked" => lock'[Wanted(q)'] = {q}
                       /\ phase'[q] = "locked" => fence'[q][Wanted(q)'] = 0
                       /\ phase'[q] = "allocated" => fence'[q][Wanted(q)'] # 0
                       /\ phase'[q] \in {"locked", "allocated"} => Wanted(q)' \in Workspaces
                       /\ phase'[q] = "stopped" => \A v \in Workspaces : fence'[q][v] = 0
                       /\ phase'[q] # "serving" => writing'[q] = {}
                       /\ \A v \in writing'[q] : fence'[q][v] # 0
    BY DEF PhaseInv
  <2>. QED  BY <1>0, <1>a, <1>b, LeaseAssumption
            DEF LeaseInv, TypeOK, HolderIsCurrent, LocksAreAccountedFor, PhaseInv
<1>5. WritesAreOld'
  BY <1>0, <1>a, LeaseAssumption DEF LeaseInv, TypeOK, WritesAreOld
<1>. QED  BY <1>1, <1>2, <1>3, <1>4, <1>5 DEF LeaseInv

\* AllocateNext preserves the invariant.
LEMMA AllocateNextStep ==
    ASSUME LeaseInv, NEW p \in Processes, AllocateNext(p)
    PROVE  LeaseInv'
<1>0. PICK w \in Workspaces : w = Wanted(p)
  BY WantedIsAWorkspace DEF AllocateNext, AtEntry
<1>a. /\ phase[p] = "locked"
     /\ \E g \in NextGeneration(w) :
          /\ current' = [current EXCEPT ![w] = g]
          /\ fence' = [fence EXCEPT ![p][w] = g]
     /\ phase' = [phase EXCEPT ![p] = "allocated"]
     /\ UNCHANGED <<lock, lastWriter, position, writing, dropped, faults>>
  BY Zenon, <1>0, LeaseAssumption DEF AllocateNext, AtEntry, LeaseInv, TypeOK
<1>b. \A q \in Processes : position'[q] = position[q] => Wanted(q)' = Wanted(q)
  BY DEF Wanted
<1>1. TypeOK'
  BY <1>0, <1>a, NextGenerationFacts, LeaseAssumption DEF LeaseInv, TypeOK, Phases
<1>2. HolderIsCurrent'
  <2>. SUFFICES ASSUME NEW q \in Processes, NEW v \in Workspaces, fence'[q][v] # 0
                PROVE  lock'[v] = {q} /\ current'[v] = fence'[q][v]
    BY DEF HolderIsCurrent
  <2>1. PICK g \in NextGeneration(w) : /\ current' = [current EXCEPT ![w] = g]
                                      /\ fence' = [fence EXCEPT ![p][w] = g]
    BY Zenon, <1>a
  <2>2. lock[w] = {p}
    BY <1>0, <1>a DEF LeaseInv, PhaseInv
  <2>3. CASE q = p /\ v = w
    BY <1>a, <2>1, <2>2, <2>3 DEF LeaseInv, TypeOK
  <2>4. CASE ~(q = p /\ v = w)
    <3>1. fence'[q][v] = fence[q][v]
      BY <2>1, <2>4 DEF LeaseInv, TypeOK
    <3>2. lock[v] = {q} /\ current[v] = fence[q][v]
      BY <3>1 DEF LeaseInv, HolderIsCurrent
    <3>3. v # w
      BY <2>2, <2>4, <3>2
    <3>. QED  BY <1>a, <2>1, <3>1, <3>2, <3>3 DEF LeaseInv, TypeOK
  <2>. QED  BY <2>3, <2>4
<1>3. LocksAreAccountedFor'
  <2>. SUFFICES ASSUME NEW q \in Processes, NEW v \in Workspaces, q \in lock'[v]
                PROVE  /\ lock'[v] = {q}
                       /\ fence'[q][v] # 0 \/ (phase'[q] = "locked" /\ v = Wanted(q)')
    BY DEF LocksAreAccountedFor
  <2>. QED  BY SMTT(40), Zenon, <1>0, <1>a, NextGenerationFacts, <1>b, LeaseAssumption
            DEF LeaseInv, TypeOK, LocksAreAccountedFor, HolderIsCurrent, PhaseInv
<1>4. PhaseInv'
  <2>. SUFFICES ASSUME NEW q \in Processes
                PROVE  /\ phase'[q] = "locked" => lock'[Wanted(q)'] = {q}
                       /\ phase'[q] = "locked" => fence'[q][Wanted(q)'] = 0
                       /\ phase'[q] = "allocated" => fence'[q][Wanted(q)'] # 0
                       /\ phase'[q] \in {"locked", "allocated"} => Wanted(q)' \in Workspaces
                       /\ phase'[q] = "stopped" => \A v \in Workspaces : fence'[q][v] = 0
                       /\ phase'[q] # "serving" => writing'[q] = {}
                       /\ \A v \in writing'[q] : fence'[q][v] # 0
    BY DEF PhaseInv
  <2>. QED  BY SMTT(40), Zenon, <1>0, <1>a, NextGenerationFacts, <1>b, LeaseAssumption
            DEF LeaseInv, TypeOK, HolderIsCurrent, LocksAreAccountedFor, PhaseInv
<1>5. WritesAreOld'
  BY <1>0, <1>a, NextGenerationFacts, LeaseAssumption DEF LeaseInv, TypeOK, WritesAreOld
<1>. QED  BY <1>1, <1>2, <1>3, <1>4, <1>5 DEF LeaseInv

\* AllocateFails preserves the invariant.
LEMMA AllocateFailsStep ==
    ASSUME LeaseInv, NEW p \in Processes, AllocateFails(p)
    PROVE  LeaseInv'
<1>0. PICK w \in Workspaces : w = Wanted(p)
  BY WantedIsAWorkspace DEF AllocateFails, AtEntry
<1>a. /\ phase[p] = "locked"
     /\ \/ UNCHANGED current
        \/ \E g \in NextGeneration(w) : current' = [current EXCEPT ![w] = g]
     /\ lock' = [lock EXCEPT ![w] = {}]
     /\ fence' = [fence EXCEPT ![p][w] = 0]
     /\ phase' = [phase EXCEPT ![p] = "failed"]
     /\ faults' \in 0..MaxFaults
     /\ UNCHANGED <<lastWriter, position, writing, dropped>>
  BY SMTT(40), Zenon, <1>0, LeaseAssumption DEF AllocateFails, AtEntry, Fault, GiveUpEntry, LeaseInv, TypeOK
<1>b. \A q \in Processes : position'[q] = position[q] => Wanted(q)' = Wanted(q)
  BY DEF Wanted
<1>c. current' \in [Workspaces -> 0..MaxGeneration] /\ current'[w] >= current[w]
      /\ \A v \in Workspaces : v # w => current'[v] = current[v]
  BY SMTT(40), Zenon, <1>a, NextGenerationFacts, LeaseAssumption DEF LeaseInv, TypeOK
<1>1. TypeOK'
  <2>1. fence' \in [Processes -> [Workspaces -> 0..MaxGeneration]]
    BY <1>a, LeaseAssumption DEF LeaseInv, TypeOK
  <2>2. lock' \in [Workspaces -> SUBSET Processes] /\ phase' \in [Processes -> Phases]
    BY <1>a DEF LeaseInv, TypeOK, Phases
  <2>. QED  BY <1>a, <1>c, <2>1, <2>2 DEF LeaseInv, TypeOK
<1>2. HolderIsCurrent'
  <2>. SUFFICES ASSUME NEW q \in Processes, NEW v \in Workspaces, fence'[q][v] # 0
                PROVE  lock'[v] = {q} /\ current'[v] = fence'[q][v]
    BY DEF HolderIsCurrent
  <2>1. lock[w] = {p}
    BY <1>0, <1>a DEF LeaseInv, PhaseInv
  <2>2. ~(q = p /\ v = w) /\ fence'[q][v] = fence[q][v]
    BY <1>a DEF LeaseInv, TypeOK
  <2>3. lock[v] = {q} /\ current[v] = fence[q][v]
    BY <2>2 DEF LeaseInv, HolderIsCurrent
  <2>4. v # w
    BY <2>1, <2>2, <2>3
  <2>. QED  BY <1>a, <1>c, <2>2, <2>3, <2>4 DEF LeaseInv, TypeOK
<1>3. LocksAreAccountedFor'
  <2>. SUFFICES ASSUME NEW q \in Processes, NEW v \in Workspaces, q \in lock'[v]
                PROVE  /\ lock'[v] = {q}
                       /\ fence'[q][v] # 0 \/ (phase'[q] = "locked" /\ v = Wanted(q)')
    BY DEF LocksAreAccountedFor
  <2>. QED  BY <1>0, <1>a, NextGenerationFacts, <1>b, LeaseAssumption
            DEF LeaseInv, TypeOK, LocksAreAccountedFor, HolderIsCurrent, PhaseInv
<1>4. PhaseInv'
  <2>. SUFFICES ASSUME NEW q \in Processes
                PROVE  /\ phase'[q] = "locked" => lock'[Wanted(q)'] = {q}
                       /\ phase'[q] = "locked" => fence'[q][Wanted(q)'] = 0
                       /\ phase'[q] = "allocated" => fence'[q][Wanted(q)'] # 0
                       /\ phase'[q] \in {"locked", "allocated"} => Wanted(q)' \in Workspaces
                       /\ phase'[q] = "stopped" => \A v \in Workspaces : fence'[q][v] = 0
                       /\ phase'[q] # "serving" => writing'[q] = {}
                       /\ \A v \in writing'[q] : fence'[q][v] # 0
    BY DEF PhaseInv
  <2>. QED  BY SMTT(40), Zenon, <1>0, <1>a, NextGenerationFacts, <1>b, LeaseAssumption
            DEF LeaseInv, TypeOK, HolderIsCurrent, LocksAreAccountedFor, PhaseInv
<1>5. WritesAreOld'
  <2>. SUFFICES ASSUME NEW v \in Workspaces PROVE lastWriter'[v] <= current'[v]
    BY DEF WritesAreOld
  <2>1. lastWriter[v] <= current[v] /\ lastWriter[v] \in Nat /\ current[v] \in Nat
    BY LeaseAssumption DEF LeaseInv, TypeOK, WritesAreOld
  <2>2. current'[v] \in Nat /\ current'[v] >= current[v]
    BY <1>c, <2>1, LeaseAssumption
  <2>. QED  BY <1>a, <2>1, <2>2
<1>. QED  BY <1>1, <1>2, <1>3, <1>4, <1>5 DEF LeaseInv

\* ConfirmFence preserves the invariant.
LEMMA ConfirmFenceStep ==
    ASSUME LeaseInv, NEW p \in Processes, ConfirmFence(p)
    PROVE  LeaseInv'
<1>0. PICK w \in Workspaces : w = Wanted(p)
  BY WantedIsAWorkspace DEF ConfirmFence, AtEntry
<1>a. /\ phase[p] = "allocated"
     /\ position' = [position EXCEPT ![p] = @ + 1]
     /\ phase' = [phase EXCEPT ![p] = "acquiring"]
     /\ UNCHANGED <<lock, current, lastWriter, fence, writing, dropped, faults>>
  BY <1>0, LeaseAssumption DEF ConfirmFence, AtEntry, LeaseInv, TypeOK
<1>b. \A q \in Processes : position'[q] = position[q] => Wanted(q)' = Wanted(q)
  BY DEF Wanted
<1>1. TypeOK'
  BY <1>0, <1>a, LeaseAssumption DEF LeaseInv, TypeOK, Phases
<1>2. HolderIsCurrent'
  <2>. SUFFICES ASSUME NEW q \in Processes, NEW v \in Workspaces, fence'[q][v] # 0
                PROVE  lock'[v] = {q} /\ current'[v] = fence'[q][v]
    BY DEF HolderIsCurrent
  <2>. QED  BY <1>0, <1>a, LeaseAssumption
            DEF LeaseInv, TypeOK, HolderIsCurrent, LocksAreAccountedFor, PhaseInv
<1>3. LocksAreAccountedFor'
  <2>. SUFFICES ASSUME NEW q \in Processes, NEW v \in Workspaces, q \in lock'[v]
                PROVE  /\ lock'[v] = {q}
                       /\ fence'[q][v] # 0 \/ (phase'[q] = "locked" /\ v = Wanted(q)')
    BY DEF LocksAreAccountedFor
  <2>. QED  BY <1>0, <1>a, <1>b, LeaseAssumption
            DEF LeaseInv, TypeOK, LocksAreAccountedFor, HolderIsCurrent, PhaseInv
<1>4. PhaseInv'
  <2>. SUFFICES ASSUME NEW q \in Processes
                PROVE  /\ phase'[q] = "locked" => lock'[Wanted(q)'] = {q}
                       /\ phase'[q] = "locked" => fence'[q][Wanted(q)'] = 0
                       /\ phase'[q] = "allocated" => fence'[q][Wanted(q)'] # 0
                       /\ phase'[q] \in {"locked", "allocated"} => Wanted(q)' \in Workspaces
                       /\ phase'[q] = "stopped" => \A v \in Workspaces : fence'[q][v] = 0
                       /\ phase'[q] # "serving" => writing'[q] = {}
                       /\ \A v \in writing'[q] : fence'[q][v] # 0
    BY DEF PhaseInv
  <2>. QED  BY <1>0, <1>a, <1>b, LeaseAssumption
            DEF LeaseInv, TypeOK, HolderIsCurrent, LocksAreAccountedFor, PhaseInv
<1>5. WritesAreOld'
  BY <1>0, <1>a, LeaseAssumption DEF LeaseInv, TypeOK, WritesAreOld
<1>. QED  BY <1>1, <1>2, <1>3, <1>4, <1>5 DEF LeaseInv

\* ConfirmFails preserves the invariant.
LEMMA ConfirmFailsStep ==
    ASSUME LeaseInv, NEW p \in Processes, ConfirmFails(p)
    PROVE  LeaseInv'
<1>0. PICK w \in Workspaces : w = Wanted(p)
  BY WantedIsAWorkspace DEF ConfirmFails, AtEntry
<1>f. faults' \in 0..MaxFaults
  BY LeaseAssumption DEF ConfirmFails, Fault, LeaseInv, TypeOK
<1>a. /\ phase[p] = "allocated"
     /\ lock' = [lock EXCEPT ![w] = {}]
     /\ fence' = [fence EXCEPT ![p][w] = 0]
     /\ phase' = [phase EXCEPT ![p] = "failed"]
     /\ faults' \in 0..MaxFaults
     /\ UNCHANGED <<current, lastWriter, position, writing, dropped>>
  BY <1>0, <1>f DEF ConfirmFails, AtEntry, GiveUpEntry
<1>b. \A q \in Processes : position'[q] = position[q] => Wanted(q)' = Wanted(q)
  BY DEF Wanted
<1>1. TypeOK'
  BY <1>0, <1>a, LeaseAssumption DEF LeaseInv, TypeOK, Phases
<1>d. fence[p][w] # 0 /\ lock[w] = {p}
  BY <1>0, <1>a DEF LeaseInv, PhaseInv, HolderIsCurrent
<1>2. HolderIsCurrent'
  <2>. SUFFICES ASSUME NEW q \in Processes, NEW v \in Workspaces, fence'[q][v] # 0
                PROVE  lock'[v] = {q} /\ current'[v] = fence'[q][v]
    BY DEF HolderIsCurrent
  <2>1. ~(q = p /\ v = w) /\ fence'[q][v] = fence[q][v]
    BY <1>a DEF LeaseInv, TypeOK
  <2>2. lock[v] = {q} /\ current[v] = fence[q][v]
    BY <2>1 DEF LeaseInv, HolderIsCurrent
  <2>3. v # w
    BY <1>d, <2>1, <2>2
  <2>. QED  BY <1>a, <2>1, <2>2, <2>3 DEF LeaseInv, TypeOK
<1>3. LocksAreAccountedFor'
  <2>. SUFFICES ASSUME NEW q \in Processes, NEW v \in Workspaces, q \in lock'[v]
                PROVE  /\ lock'[v] = {q}
                       /\ fence'[q][v] # 0 \/ (phase'[q] = "locked" /\ v = Wanted(q)')
    BY DEF LocksAreAccountedFor
  <2>. QED  BY <1>0, <1>a, <1>b, LeaseAssumption
            DEF LeaseInv, TypeOK, LocksAreAccountedFor, HolderIsCurrent, PhaseInv
<1>4. PhaseInv'
  <2>. SUFFICES ASSUME NEW q \in Processes
                PROVE  /\ phase'[q] = "locked" => lock'[Wanted(q)'] = {q}
                       /\ phase'[q] = "locked" => fence'[q][Wanted(q)'] = 0
                       /\ phase'[q] = "allocated" => fence'[q][Wanted(q)'] # 0
                       /\ phase'[q] \in {"locked", "allocated"} => Wanted(q)' \in Workspaces
                       /\ phase'[q] = "stopped" => \A v \in Workspaces : fence'[q][v] = 0
                       /\ phase'[q] # "serving" => writing'[q] = {}
                       /\ \A v \in writing'[q] : fence'[q][v] # 0
    BY DEF PhaseInv
  <2>1. Wanted(q)' = Wanted(q) /\ writing'[q] = writing[q]
    BY <1>a, <1>b
  <2>2. CASE q = p
    <3>1. phase'[p] = "failed" /\ writing[p] = {}
      BY Zenon, <1>a DEF LeaseInv, TypeOK, PhaseInv
    <3>. QED  BY <2>1, <2>2, <3>1
  <2>3. CASE q # p
    <3>1. phase'[q] = phase[q] /\ fence'[q] = fence[q]
      BY <1>a, <2>3 DEF LeaseInv, TypeOK
    <3>2. ASSUME phase[q] = "locked" PROVE lock'[Wanted(q)] = lock[Wanted(q)]
      <4>1. lock[Wanted(q)] = {q} /\ Wanted(q) \in Workspaces
        BY <3>2 DEF LeaseInv, PhaseInv
      <4>. QED  BY <1>a, <1>d, <2>3, <4>1 DEF LeaseInv, TypeOK
    <3>. QED  BY <2>1, <3>1, <3>2 DEF LeaseInv, PhaseInv
  <2>. QED  BY <2>2, <2>3
<1>5. WritesAreOld'
  BY <1>0, <1>a, LeaseAssumption DEF LeaseInv, TypeOK, WritesAreOld
<1>. QED  BY <1>1, <1>2, <1>3, <1>4, <1>5 DEF LeaseInv

\* EnterServing preserves the invariant.
LEMMA EnterServingStep ==
    ASSUME LeaseInv, NEW p \in Processes, EnterServing(p)
    PROVE  LeaseInv'
<1>b. \A q \in Processes : position'[q] = position[q] => Wanted(q)' = Wanted(q)
  BY DEF Wanted
<1>1. TypeOK'
  BY LeaseAssumption DEF LeaseInv, EnterServing, TypeOK, Phases
<1>2. HolderIsCurrent'
  <2>. SUFFICES ASSUME NEW q \in Processes, NEW v \in Workspaces, fence'[q][v] # 0
                PROVE  lock'[v] = {q} /\ current'[v] = fence'[q][v]
    BY DEF HolderIsCurrent
  <2>. QED  BY LeaseAssumption
            DEF LeaseInv, EnterServing, TypeOK, HolderIsCurrent, LocksAreAccountedFor, PhaseInv
<1>3. LocksAreAccountedFor'
  <2>. SUFFICES ASSUME NEW q \in Processes, NEW v \in Workspaces, q \in lock'[v]
                PROVE  /\ lock'[v] = {q}
                       /\ fence'[q][v] # 0 \/ (phase'[q] = "locked" /\ v = Wanted(q)')
    BY DEF LocksAreAccountedFor
  <2>. QED  BY <1>b, LeaseAssumption
            DEF LeaseInv, EnterServing, TypeOK, LocksAreAccountedFor, HolderIsCurrent, PhaseInv
<1>4. PhaseInv'
  <2>. SUFFICES ASSUME NEW q \in Processes
                PROVE  /\ phase'[q] = "locked" => lock'[Wanted(q)'] = {q}
                       /\ phase'[q] = "locked" => fence'[q][Wanted(q)'] = 0
                       /\ phase'[q] = "allocated" => fence'[q][Wanted(q)'] # 0
                       /\ phase'[q] \in {"locked", "allocated"} => Wanted(q)' \in Workspaces
                       /\ phase'[q] = "stopped" => \A v \in Workspaces : fence'[q][v] = 0
                       /\ phase'[q] # "serving" => writing'[q] = {}
                       /\ \A v \in writing'[q] : fence'[q][v] # 0
    BY DEF PhaseInv
  <2>. QED  BY <1>b, LeaseAssumption
            DEF LeaseInv, EnterServing, TypeOK, HolderIsCurrent, LocksAreAccountedFor, PhaseInv
<1>5. WritesAreOld'
  BY LeaseAssumption DEF LeaseInv, EnterServing, TypeOK, WritesAreOld
<1>. QED  BY <1>1, <1>2, <1>3, <1>4, <1>5 DEF LeaseInv

\* AdvanceFails preserves the invariant.
LEMMA AdvanceFailsStep ==
    ASSUME LeaseInv, NEW p \in Processes, AdvanceFails(p)
    PROVE  LeaseInv'
<1>b. \A q \in Processes : position'[q] = position[q] => Wanted(q)' = Wanted(q)
  BY DEF Wanted
<1>1. TypeOK'
  BY LeaseAssumption DEF LeaseInv, AdvanceFails, Fault, TypeOK, Phases
<1>2. HolderIsCurrent'
  <2>. SUFFICES ASSUME NEW q \in Processes, NEW v \in Workspaces, fence'[q][v] # 0
                PROVE  lock'[v] = {q} /\ current'[v] = fence'[q][v]
    BY DEF HolderIsCurrent
  <2>. QED  BY LeaseAssumption
            DEF LeaseInv, AdvanceFails, Fault, TypeOK, HolderIsCurrent, LocksAreAccountedFor, PhaseInv
<1>3. LocksAreAccountedFor'
  <2>. SUFFICES ASSUME NEW q \in Processes, NEW v \in Workspaces, q \in lock'[v]
                PROVE  /\ lock'[v] = {q}
                       /\ fence'[q][v] # 0 \/ (phase'[q] = "locked" /\ v = Wanted(q)')
    BY DEF LocksAreAccountedFor
  <2>. QED  BY <1>b, LeaseAssumption
            DEF LeaseInv, AdvanceFails, Fault, TypeOK, LocksAreAccountedFor, HolderIsCurrent, PhaseInv
<1>4. PhaseInv'
  <2>. SUFFICES ASSUME NEW q \in Processes
                PROVE  /\ phase'[q] = "locked" => lock'[Wanted(q)'] = {q}
                       /\ phase'[q] = "locked" => fence'[q][Wanted(q)'] = 0
                       /\ phase'[q] = "allocated" => fence'[q][Wanted(q)'] # 0
                       /\ phase'[q] \in {"locked", "allocated"} => Wanted(q)' \in Workspaces
                       /\ phase'[q] = "stopped" => \A v \in Workspaces : fence'[q][v] = 0
                       /\ phase'[q] # "serving" => writing'[q] = {}
                       /\ \A v \in writing'[q] : fence'[q][v] # 0
    BY DEF PhaseInv
  <2>. QED  BY <1>b, LeaseAssumption
            DEF LeaseInv, AdvanceFails, Fault, TypeOK, HolderIsCurrent, LocksAreAccountedFor, PhaseInv
<1>5. WritesAreOld'
  BY LeaseAssumption DEF LeaseInv, AdvanceFails, Fault, TypeOK, WritesAreOld
<1>. QED  BY <1>1, <1>2, <1>3, <1>4, <1>5 DEF LeaseInv

\* CleanupRelease preserves the invariant.
LEMMA CleanupReleaseStep ==
    ASSUME LeaseInv, NEW p \in Processes, CleanupRelease(p)
    PROVE  LeaseInv'
<1>b. \A q \in Processes : position'[q] = position[q] => Wanted(q)' = Wanted(q)
  BY DEF Wanted
<1>1. TypeOK'
  BY LeaseAssumption DEF LeaseInv, CleanupRelease, ReleaseLease, TypeOK, Phases
<1>2. HolderIsCurrent'
  <2>. SUFFICES ASSUME NEW q \in Processes, NEW v \in Workspaces, fence'[q][v] # 0
                PROVE  lock'[v] = {q} /\ current'[v] = fence'[q][v]
    BY DEF HolderIsCurrent
  <2>. QED  BY LeaseAssumption
            DEF LeaseInv, CleanupRelease, ReleaseLease, TypeOK, HolderIsCurrent, LocksAreAccountedFor, PhaseInv
<1>3. LocksAreAccountedFor'
  <2>. SUFFICES ASSUME NEW q \in Processes, NEW v \in Workspaces, q \in lock'[v]
                PROVE  /\ lock'[v] = {q}
                       /\ fence'[q][v] # 0 \/ (phase'[q] = "locked" /\ v = Wanted(q)')
    BY DEF LocksAreAccountedFor
  <2>. QED  BY <1>b, LeaseAssumption
            DEF LeaseInv, CleanupRelease, ReleaseLease, TypeOK, LocksAreAccountedFor, HolderIsCurrent, PhaseInv
<1>4. PhaseInv'
  <2>. SUFFICES ASSUME NEW q \in Processes
                PROVE  /\ phase'[q] = "locked" => lock'[Wanted(q)'] = {q}
                       /\ phase'[q] = "locked" => fence'[q][Wanted(q)'] = 0
                       /\ phase'[q] = "allocated" => fence'[q][Wanted(q)'] # 0
                       /\ phase'[q] \in {"locked", "allocated"} => Wanted(q)' \in Workspaces
                       /\ phase'[q] = "stopped" => \A v \in Workspaces : fence'[q][v] = 0
                       /\ phase'[q] # "serving" => writing'[q] = {}
                       /\ \A v \in writing'[q] : fence'[q][v] # 0
    BY DEF PhaseInv
  <2>1. PICK w \in Workspaces : ReleaseLease(p, w)
    BY DEF CleanupRelease
  <2>2. lock[w] = {p}
    BY <2>1 DEF LeaseInv, HolderIsCurrent, ReleaseLease
  <2>3. Wanted(q)' = Wanted(q) /\ writing'[q] = writing[q] /\ phase'[q] = phase[q]
    BY <1>b, <2>1 DEF CleanupRelease, ReleaseLease
  <2>4. CASE q = p
    <3>1. phase[p] = "failed" /\ writing[p] = {}
      BY DEF CleanupRelease, LeaseInv, PhaseInv
    <3>. QED  BY <2>3, <2>4, <3>1
  <2>5. CASE q # p
    <3>1. fence'[q] = fence[q]
      BY <2>1, <2>5 DEF ReleaseLease, LeaseInv, TypeOK
    <3>2. ASSUME phase[q] = "locked" PROVE lock'[Wanted(q)] = lock[Wanted(q)]
      <4>1. lock[Wanted(q)] = {q} /\ Wanted(q) \in Workspaces
        BY <3>2 DEF LeaseInv, PhaseInv
      <4>. QED  BY <2>1, <2>2, <2>5, <4>1 DEF ReleaseLease, LeaseInv, TypeOK
    <3>. QED  BY <2>3, <3>1, <3>2 DEF LeaseInv, PhaseInv
  <2>. QED  BY <2>4, <2>5
<1>5. WritesAreOld'
  BY LeaseAssumption DEF LeaseInv, CleanupRelease, ReleaseLease, TypeOK, WritesAreOld
<1>. QED  BY <1>1, <1>2, <1>3, <1>4, <1>5 DEF LeaseInv

\* CleanupDone preserves the invariant.
LEMMA CleanupDoneStep ==
    ASSUME LeaseInv, NEW p \in Processes, CleanupDone(p)
    PROVE  LeaseInv'
<1>b. \A q \in Processes : position'[q] = position[q] => Wanted(q)' = Wanted(q)
  BY DEF Wanted
<1>1. TypeOK'
  BY LeaseAssumption DEF LeaseInv, CleanupDone, TypeOK, Phases
<1>2. HolderIsCurrent'
  <2>. SUFFICES ASSUME NEW q \in Processes, NEW v \in Workspaces, fence'[q][v] # 0
                PROVE  lock'[v] = {q} /\ current'[v] = fence'[q][v]
    BY DEF HolderIsCurrent
  <2>. QED  BY LeaseAssumption
            DEF LeaseInv, CleanupDone, TypeOK, HolderIsCurrent, LocksAreAccountedFor, PhaseInv
<1>3. LocksAreAccountedFor'
  <2>. SUFFICES ASSUME NEW q \in Processes, NEW v \in Workspaces, q \in lock'[v]
                PROVE  /\ lock'[v] = {q}
                       /\ fence'[q][v] # 0 \/ (phase'[q] = "locked" /\ v = Wanted(q)')
    BY DEF LocksAreAccountedFor
  <2>. QED  BY <1>b, LeaseAssumption
            DEF LeaseInv, CleanupDone, TypeOK, LocksAreAccountedFor, HolderIsCurrent, PhaseInv
<1>4. PhaseInv'
  <2>. SUFFICES ASSUME NEW q \in Processes
                PROVE  /\ phase'[q] = "locked" => lock'[Wanted(q)'] = {q}
                       /\ phase'[q] = "locked" => fence'[q][Wanted(q)'] = 0
                       /\ phase'[q] = "allocated" => fence'[q][Wanted(q)'] # 0
                       /\ phase'[q] \in {"locked", "allocated"} => Wanted(q)' \in Workspaces
                       /\ phase'[q] = "stopped" => \A v \in Workspaces : fence'[q][v] = 0
                       /\ phase'[q] # "serving" => writing'[q] = {}
                       /\ \A v \in writing'[q] : fence'[q][v] # 0
    BY DEF PhaseInv
  <2>. QED  BY <1>b, LeaseAssumption
            DEF LeaseInv, CleanupDone, TypeOK, HolderIsCurrent, LocksAreAccountedFor, PhaseInv
<1>5. WritesAreOld'
  BY LeaseAssumption DEF LeaseInv, CleanupDone, TypeOK, WritesAreOld
<1>. QED  BY <1>1, <1>2, <1>3, <1>4, <1>5 DEF LeaseInv

\* Validate preserves the invariant.
LEMMA ValidateStep ==
    ASSUME LeaseInv, NEW p \in Processes, NEW w \in Workspaces, Validate(p, w)
    PROVE  LeaseInv'
<1>b. \A q \in Processes : position'[q] = position[q] => Wanted(q)' = Wanted(q)
  BY DEF Wanted
<1>1. TypeOK'
  BY LeaseAssumption DEF LeaseInv, Validate, TypeOK, Phases
<1>2. HolderIsCurrent'
  <2>. SUFFICES ASSUME NEW q \in Processes, NEW v \in Workspaces, fence'[q][v] # 0
                PROVE  lock'[v] = {q} /\ current'[v] = fence'[q][v]
    BY DEF HolderIsCurrent
  <2>. QED  BY LeaseAssumption
            DEF LeaseInv, Validate, TypeOK, HolderIsCurrent, LocksAreAccountedFor, PhaseInv
<1>3. LocksAreAccountedFor'
  <2>. SUFFICES ASSUME NEW q \in Processes, NEW v \in Workspaces, q \in lock'[v]
                PROVE  /\ lock'[v] = {q}
                       /\ fence'[q][v] # 0 \/ (phase'[q] = "locked" /\ v = Wanted(q)')
    BY DEF LocksAreAccountedFor
  <2>. QED  BY SMTT(40), Zenon, <1>b, LeaseAssumption
            DEF LeaseInv, Validate, TypeOK, LocksAreAccountedFor, HolderIsCurrent, PhaseInv
<1>4. PhaseInv'
  <2>. SUFFICES ASSUME NEW q \in Processes
                PROVE  /\ phase'[q] = "locked" => lock'[Wanted(q)'] = {q}
                       /\ phase'[q] = "locked" => fence'[q][Wanted(q)'] = 0
                       /\ phase'[q] = "allocated" => fence'[q][Wanted(q)'] # 0
                       /\ phase'[q] \in {"locked", "allocated"} => Wanted(q)' \in Workspaces
                       /\ phase'[q] = "stopped" => \A v \in Workspaces : fence'[q][v] = 0
                       /\ phase'[q] # "serving" => writing'[q] = {}
                       /\ \A v \in writing'[q] : fence'[q][v] # 0
    BY DEF PhaseInv
  <2>. QED  BY <1>b, LeaseAssumption
            DEF LeaseInv, Validate, TypeOK, HolderIsCurrent, LocksAreAccountedFor, PhaseInv
<1>5. WritesAreOld'
  BY LeaseAssumption DEF LeaseInv, Validate, TypeOK, WritesAreOld
<1>. QED  BY <1>1, <1>2, <1>3, <1>4, <1>5 DEF LeaseInv

\* Mutate preserves the invariant.
LEMMA MutateStep ==
    ASSUME LeaseInv, NEW p \in Processes, NEW w \in Workspaces, Mutate(p, w)
    PROVE  LeaseInv'
<1>b. \A q \in Processes : position'[q] = position[q] => Wanted(q)' = Wanted(q)
  BY DEF Wanted
<1>1. TypeOK'
  BY LeaseAssumption DEF LeaseInv, Mutate, TypeOK, Phases
<1>2. HolderIsCurrent'
  <2>. SUFFICES ASSUME NEW q \in Processes, NEW v \in Workspaces, fence'[q][v] # 0
                PROVE  lock'[v] = {q} /\ current'[v] = fence'[q][v]
    BY DEF HolderIsCurrent
  <2>. QED  BY LeaseAssumption
            DEF LeaseInv, Mutate, TypeOK, HolderIsCurrent, LocksAreAccountedFor, PhaseInv
<1>3. LocksAreAccountedFor'
  <2>. SUFFICES ASSUME NEW q \in Processes, NEW v \in Workspaces, q \in lock'[v]
                PROVE  /\ lock'[v] = {q}
                       /\ fence'[q][v] # 0 \/ (phase'[q] = "locked" /\ v = Wanted(q)')
    BY DEF LocksAreAccountedFor
  <2>. QED  BY SMTT(40), Zenon, <1>b, LeaseAssumption
            DEF LeaseInv, Mutate, TypeOK, LocksAreAccountedFor, HolderIsCurrent, PhaseInv
<1>4. PhaseInv'
  <2>. SUFFICES ASSUME NEW q \in Processes
                PROVE  /\ phase'[q] = "locked" => lock'[Wanted(q)'] = {q}
                       /\ phase'[q] = "locked" => fence'[q][Wanted(q)'] = 0
                       /\ phase'[q] = "allocated" => fence'[q][Wanted(q)'] # 0
                       /\ phase'[q] \in {"locked", "allocated"} => Wanted(q)' \in Workspaces
                       /\ phase'[q] = "stopped" => \A v \in Workspaces : fence'[q][v] = 0
                       /\ phase'[q] # "serving" => writing'[q] = {}
                       /\ \A v \in writing'[q] : fence'[q][v] # 0
    BY DEF PhaseInv
  <2>. QED  BY <1>b, LeaseAssumption
            DEF LeaseInv, Mutate, TypeOK, HolderIsCurrent, LocksAreAccountedFor, PhaseInv
<1>5. WritesAreOld'
  BY LeaseAssumption DEF LeaseInv, Mutate, TypeOK, WritesAreOld, HolderIsCurrent, PhaseInv
<1>. QED  BY <1>1, <1>2, <1>3, <1>4, <1>5 DEF LeaseInv

\* StopWorkspace preserves the invariant.
LEMMA StopWorkspaceStep ==
    ASSUME LeaseInv, NEW p \in Processes, NEW w \in Workspaces, StopWorkspace(p, w)
    PROVE  LeaseInv'
<1>b. \A q \in Processes : position'[q] = position[q] => Wanted(q)' = Wanted(q)
  BY DEF Wanted
<1>1. TypeOK'
  BY LeaseAssumption DEF LeaseInv, StopWorkspace, ReleaseLease, TypeOK, Phases
<1>2. HolderIsCurrent'
  <2>. SUFFICES ASSUME NEW q \in Processes, NEW v \in Workspaces, fence'[q][v] # 0
                PROVE  lock'[v] = {q} /\ current'[v] = fence'[q][v]
    BY DEF HolderIsCurrent
  <2>. QED  BY LeaseAssumption
            DEF LeaseInv, StopWorkspace, ReleaseLease, TypeOK, HolderIsCurrent, LocksAreAccountedFor, PhaseInv
<1>3. LocksAreAccountedFor'
  <2>. SUFFICES ASSUME NEW q \in Processes, NEW v \in Workspaces, q \in lock'[v]
                PROVE  /\ lock'[v] = {q}
                       /\ fence'[q][v] # 0 \/ (phase'[q] = "locked" /\ v = Wanted(q)')
    BY DEF LocksAreAccountedFor
  <2>. QED  BY <1>b, LeaseAssumption
            DEF LeaseInv, StopWorkspace, ReleaseLease, TypeOK, LocksAreAccountedFor, HolderIsCurrent, PhaseInv
<1>4. PhaseInv'
  <2>. SUFFICES ASSUME NEW q \in Processes
                PROVE  /\ phase'[q] = "locked" => lock'[Wanted(q)'] = {q}
                       /\ phase'[q] = "locked" => fence'[q][Wanted(q)'] = 0
                       /\ phase'[q] = "allocated" => fence'[q][Wanted(q)'] # 0
                       /\ phase'[q] \in {"locked", "allocated"} => Wanted(q)' \in Workspaces
                       /\ phase'[q] = "stopped" => \A v \in Workspaces : fence'[q][v] = 0
                       /\ phase'[q] # "serving" => writing'[q] = {}
                       /\ \A v \in writing'[q] : fence'[q][v] # 0
    BY DEF PhaseInv
  <2>. QED  BY SMTT(40), Zenon, <1>b, LeaseAssumption
            DEF LeaseInv, StopWorkspace, ReleaseLease, TypeOK, HolderIsCurrent, LocksAreAccountedFor, PhaseInv
<1>5. WritesAreOld'
  BY LeaseAssumption DEF LeaseInv, StopWorkspace, ReleaseLease, TypeOK, WritesAreOld
<1>. QED  BY <1>1, <1>2, <1>3, <1>4, <1>5 DEF LeaseInv

\* DropRuntime preserves the invariant.
LEMMA DropRuntimeStep ==
    ASSUME LeaseInv, NEW p \in Processes, NEW w \in Workspaces, DropRuntime(p, w)
    PROVE  LeaseInv'
<1>b. \A q \in Processes : position'[q] = position[q] => Wanted(q)' = Wanted(q)
  BY DEF Wanted
<1>1. TypeOK'
  BY LeaseAssumption DEF LeaseInv, DropRuntime, Fault, TypeOK, Phases
<1>2. HolderIsCurrent'
  <2>. SUFFICES ASSUME NEW q \in Processes, NEW v \in Workspaces, fence'[q][v] # 0
                PROVE  lock'[v] = {q} /\ current'[v] = fence'[q][v]
    BY DEF HolderIsCurrent
  <2>. QED  BY LeaseAssumption
            DEF LeaseInv, DropRuntime, Fault, TypeOK, HolderIsCurrent, LocksAreAccountedFor, PhaseInv
<1>3. LocksAreAccountedFor'
  <2>. SUFFICES ASSUME NEW q \in Processes, NEW v \in Workspaces, q \in lock'[v]
                PROVE  /\ lock'[v] = {q}
                       /\ fence'[q][v] # 0 \/ (phase'[q] = "locked" /\ v = Wanted(q)')
    BY DEF LocksAreAccountedFor
  <2>. QED  BY SMTT(40), Zenon, <1>b, LeaseAssumption
            DEF LeaseInv, DropRuntime, Fault, TypeOK, LocksAreAccountedFor, HolderIsCurrent, PhaseInv
<1>4. PhaseInv'
  <2>. SUFFICES ASSUME NEW q \in Processes
                PROVE  /\ phase'[q] = "locked" => lock'[Wanted(q)'] = {q}
                       /\ phase'[q] = "locked" => fence'[q][Wanted(q)'] = 0
                       /\ phase'[q] = "allocated" => fence'[q][Wanted(q)'] # 0
                       /\ phase'[q] \in {"locked", "allocated"} => Wanted(q)' \in Workspaces
                       /\ phase'[q] = "stopped" => \A v \in Workspaces : fence'[q][v] = 0
                       /\ phase'[q] # "serving" => writing'[q] = {}
                       /\ \A v \in writing'[q] : fence'[q][v] # 0
    BY DEF PhaseInv
  <2>. QED  BY <1>b, LeaseAssumption
            DEF LeaseInv, DropRuntime, Fault, TypeOK, HolderIsCurrent, LocksAreAccountedFor, PhaseInv
<1>5. WritesAreOld'
  BY LeaseAssumption DEF LeaseInv, DropRuntime, Fault, TypeOK, WritesAreOld
<1>. QED  BY <1>1, <1>2, <1>3, <1>4, <1>5 DEF LeaseInv

\* Crash preserves the invariant.
LEMMA CrashStep ==
    ASSUME LeaseInv, NEW p \in Processes, Crash(p)
    PROVE  LeaseInv'
<1>b. \A q \in Processes : position'[q] = position[q] => Wanted(q)' = Wanted(q)
  BY DEF Wanted
<1>1. TypeOK'
  BY LeaseAssumption DEF LeaseInv, Crash, Fault, ProcessEnds, TypeOK, Phases
<1>2. HolderIsCurrent'
  <2>. SUFFICES ASSUME NEW q \in Processes, NEW v \in Workspaces, fence'[q][v] # 0
                PROVE  lock'[v] = {q} /\ current'[v] = fence'[q][v]
    BY DEF HolderIsCurrent
  <2>. QED  BY LeaseAssumption
            DEF LeaseInv, Crash, Fault, ProcessEnds, TypeOK, HolderIsCurrent, LocksAreAccountedFor, PhaseInv
<1>3. LocksAreAccountedFor'
  <2>. SUFFICES ASSUME NEW q \in Processes, NEW v \in Workspaces, q \in lock'[v]
                PROVE  /\ lock'[v] = {q}
                       /\ fence'[q][v] # 0 \/ (phase'[q] = "locked" /\ v = Wanted(q)')
    BY DEF LocksAreAccountedFor
  <2>. QED  BY <1>b, LeaseAssumption
            DEF LeaseInv, Crash, Fault, ProcessEnds, TypeOK, LocksAreAccountedFor, HolderIsCurrent, PhaseInv
<1>4. PhaseInv'
  <2>. SUFFICES ASSUME NEW q \in Processes
                PROVE  /\ phase'[q] = "locked" => lock'[Wanted(q)'] = {q}
                       /\ phase'[q] = "locked" => fence'[q][Wanted(q)'] = 0
                       /\ phase'[q] = "allocated" => fence'[q][Wanted(q)'] # 0
                       /\ phase'[q] \in {"locked", "allocated"} => Wanted(q)' \in Workspaces
                       /\ phase'[q] = "stopped" => \A v \in Workspaces : fence'[q][v] = 0
                       /\ phase'[q] # "serving" => writing'[q] = {}
                       /\ \A v \in writing'[q] : fence'[q][v] # 0
    BY DEF PhaseInv
  <2>. QED  BY <1>b, LeaseAssumption
            DEF LeaseInv, Crash, Fault, ProcessEnds, TypeOK, HolderIsCurrent, LocksAreAccountedFor, PhaseInv
<1>5. WritesAreOld'
  BY LeaseAssumption DEF LeaseInv, Crash, Fault, ProcessEnds, TypeOK, WritesAreOld
<1>. QED  BY <1>1, <1>2, <1>3, <1>4, <1>5 DEF LeaseInv

\* ExitProcess preserves the invariant.
LEMMA ExitProcessStep ==
    ASSUME LeaseInv, NEW p \in Processes, ExitProcess(p)
    PROVE  LeaseInv'
<1>b. \A q \in Processes : position'[q] = position[q] => Wanted(q)' = Wanted(q)
  BY DEF Wanted
<1>1. TypeOK'
  BY LeaseAssumption DEF LeaseInv, ExitProcess, ProcessEnds, TypeOK, Phases
<1>2. HolderIsCurrent'
  <2>. SUFFICES ASSUME NEW q \in Processes, NEW v \in Workspaces, fence'[q][v] # 0
                PROVE  lock'[v] = {q} /\ current'[v] = fence'[q][v]
    BY DEF HolderIsCurrent
  <2>. QED  BY LeaseAssumption
            DEF LeaseInv, ExitProcess, ProcessEnds, TypeOK, HolderIsCurrent, LocksAreAccountedFor, PhaseInv
<1>3. LocksAreAccountedFor'
  <2>. SUFFICES ASSUME NEW q \in Processes, NEW v \in Workspaces, q \in lock'[v]
                PROVE  /\ lock'[v] = {q}
                       /\ fence'[q][v] # 0 \/ (phase'[q] = "locked" /\ v = Wanted(q)')
    BY DEF LocksAreAccountedFor
  <2>. QED  BY <1>b, LeaseAssumption
            DEF LeaseInv, ExitProcess, ProcessEnds, TypeOK, LocksAreAccountedFor, HolderIsCurrent, PhaseInv
<1>4. PhaseInv'
  <2>. SUFFICES ASSUME NEW q \in Processes
                PROVE  /\ phase'[q] = "locked" => lock'[Wanted(q)'] = {q}
                       /\ phase'[q] = "locked" => fence'[q][Wanted(q)'] = 0
                       /\ phase'[q] = "allocated" => fence'[q][Wanted(q)'] # 0
                       /\ phase'[q] \in {"locked", "allocated"} => Wanted(q)' \in Workspaces
                       /\ phase'[q] = "stopped" => \A v \in Workspaces : fence'[q][v] = 0
                       /\ phase'[q] # "serving" => writing'[q] = {}
                       /\ \A v \in writing'[q] : fence'[q][v] # 0
    BY DEF PhaseInv
  <2>. QED  BY <1>b, LeaseAssumption
            DEF LeaseInv, ExitProcess, ProcessEnds, TypeOK, HolderIsCurrent, LocksAreAccountedFor, PhaseInv
<1>5. WritesAreOld'
  BY LeaseAssumption DEF LeaseInv, ExitProcess, ProcessEnds, TypeOK, WritesAreOld
<1>. QED  BY <1>1, <1>2, <1>3, <1>4, <1>5 DEF LeaseInv

-----------------------------------------------------------------------------
(* Theorems.                                                               *)

\* Every step preserves the invariant.
LEMMA LeaseInvStep ==
    ASSUME LeaseInv, [Next]_vars
    PROVE  LeaseInv'
<1>1. CASE UNCHANGED vars
  BY <1>1 DEF vars, LeaseInv, TypeOK, HolderIsCurrent, LocksAreAccountedFor, PhaseInv,
              WritesAreOld, Wanted
<1>2. CASE Next
  <2>1. PICK p \in Processes :
          \/ Acquire(p)
          \/ CleanupRelease(p) \/ CleanupDone(p)
          \/ \E w \in Workspaces :
               Validate(p, w) \/ Mutate(p, w) \/ StopWorkspace(p, w) \/ DropRuntime(p, w)
          \/ Crash(p) \/ ExitProcess(p)
    BY <1>2 DEF Next
  <2>2. CASE Acquire(p)
    BY <2>2, BeginStartupStep, TryLockStep, LockFailsStep, AllocateNextStep,
       AllocateFailsStep, ConfirmFenceStep, ConfirmFailsStep, EnterServingStep,
       AdvanceFailsStep DEF Acquire
  <2>3. CASE CleanupRelease(p) \/ CleanupDone(p)
    BY <2>3, CleanupReleaseStep, CleanupDoneStep
  <2>4. CASE \E w \in Workspaces :
               Validate(p, w) \/ Mutate(p, w) \/ StopWorkspace(p, w) \/ DropRuntime(p, w)
    BY <2>4, ValidateStep, MutateStep, StopWorkspaceStep, DropRuntimeStep
  <2>5. CASE Crash(p) \/ ExitProcess(p)
    BY <2>5, CrashStep, ExitProcessStep
  <2>. QED  BY <2>1, <2>2, <2>3, <2>4, <2>5
<1>. QED  BY <1>1, <1>2

\* The invariant holds in every reachable state.
THEOREM LeaseInvariance == Spec => []LeaseInv
<1>1. Init => LeaseInv
  BY LeaseAssumption DEF Init, LeaseInv, TypeOK, Phases, HolderIsCurrent,
                         LocksAreAccountedFor, PhaseInv, WritesAreOld
<1>. QED  BY <1>1, LeaseInvStep, PTL DEF Spec

\* A fence a process relies on is always the newest one and backed by the lock,
\* and a stopped process keeps nothing locked (acquire, release and Drop of
\* WorkspaceWriterLease, cleanup_owned_startup_failure).
THEOREM LeasesAreExclusive == Spec => []LeasesExclude
<1>1. LeaseInv => LeasesExclude
  BY DEF LeasesExclude, LeaseInv, LocksAreAccountedFor, PhaseInv, NothingKeptLocked
<1>. QED  BY <1>1, LeaseInvariance, PTL

\* A step changes the last writer only in Mutate, to the current generation.
LEMMA WriteStep ==
    ASSUME LeaseInv, [Next]_vars
    PROVE  \A w \in Workspaces : lastWriter'[w] >= lastWriter[w]
<1>0. \A w \in Workspaces : lastWriter[w] \in Nat /\ current[w] \in Nat
  BY LeaseAssumption DEF LeaseInv, TypeOK
<1>1. CASE UNCHANGED lastWriter
  BY <1>0, <1>1
<1>2. CASE \E p \in Processes, w \in Workspaces : Mutate(p, w)
  <2>1. PICK p \in Processes, w \in Workspaces : Mutate(p, w)
    BY <1>2
  <2>2. fence[p][w] = current[w] /\ lastWriter[w] <= current[w]
    BY <2>1 DEF Mutate, LeaseInv, PhaseInv, HolderIsCurrent, WritesAreOld
  <2>. QED  BY <1>0, <2>1, <2>2 DEF Mutate, LeaseInv, TypeOK
<1>3. UNCHANGED lastWriter \/ \E p \in Processes, w \in Workspaces : Mutate(p, w)
  BY DEF Next, vars, Acquire, BeginStartup, TryLock, LockFails, AllocateNext,
         AllocateFails, ConfirmFence, ConfirmFails, EnterServing, AdvanceFails, AtEntry, CleanupRelease,
         CleanupDone, Validate, StopWorkspace, ReleaseLease, DropRuntime, Crash,
         ExitProcess, ProcessEnds
<1>. QED  BY <1>1, <1>2, <1>3

\* No write of an older generation follows one of a newer generation, although
\* validating a fence and writing under it are separate steps.
THEOREM WritesAreFenced == Spec => WritesFollowGenerations
<1>. QED  BY LeaseInvariance, WriteStep, PTL DEF Spec, WritesFollowGenerations

-----------------------------------------------------------------------------
(* Refinement: what the steps are to an observer of one workspace.         *)

HeldBySome(w) == \E p \in Processes : fence[p][w] # 0

\* A step that leaves the authority of a workspace as it is.
Keeps(w) ==
    /\ current'[w] = current[w] /\ lastWriter'[w] = lastWriter[w]
    /\ HeldBySome(w)' <=> HeldBySome(w)

Grants(w) ==
    /\ ~HeldBySome(w) /\ HeldBySome(w)'
    /\ current'[w] = current[w] + 1 /\ lastWriter'[w] = lastWriter[w]

Burns(w) ==
    /\ ~HeldBySome(w) /\ ~HeldBySome(w)'
    /\ current'[w] = current[w] + 1 /\ lastWriter'[w] = lastWriter[w]

Writes(w) ==
    /\ HeldBySome(w) /\ HeldBySome(w)'
    /\ current'[w] = current[w] /\ lastWriter'[w] = current[w]

Releases(w) ==
    /\ HeldBySome(w) /\ ~HeldBySome(w)'
    /\ current'[w] = current[w] /\ lastWriter'[w] = lastWriter[w]

\* These are the steps of WriterAuthority.
LEMMA ObservedSteps ==
    ASSUME NEW w \in Workspaces,
           Keeps(w) \/ Grants(w) \/ Burns(w) \/ Writes(w) \/ Releases(w)
    PROVE  Authority(w)!Next \/ UNCHANGED Authority(w)!authorityVars
<1>1. CASE Keeps(w)
  BY SMTT(40), Zenon, <1>1 DEF Keeps, HeldBySome, Authority!authorityVars
<1>2. CASE Grants(w)
  BY <1>2 DEF Grants, HeldBySome, Authority!Next, Authority!Grant
<1>3. CASE Burns(w)
  BY <1>3 DEF Burns, HeldBySome, Authority!Next, Authority!Burn
<1>4. CASE Writes(w)
  BY <1>4 DEF Writes, HeldBySome, Authority!Next, Authority!Write
<1>5. CASE Releases(w)
  BY <1>5 DEF Releases, HeldBySome, Authority!Next, Authority!Release
<1>. QED  BY ZenonT(40), <1>1, <1>2, <1>3, <1>4, <1>5

\* Steps that touch neither the fences, the generations nor the last writer.
LEMMA QuietKeeps ==
    ASSUME UNCHANGED <<current, lastWriter, fence>>, NEW w \in Workspaces
    PROVE  Keeps(w)
<1>. QED  BY DEF Keeps, HeldBySome

\* A step in which one process gives up one lease.
LEMMA GivingUpReleases ==
    ASSUME LeaseInv, NEW p \in Processes, NEW w \in Workspaces,
           fence[p][w] # 0, fence' = [fence EXCEPT ![p][w] = 0],
           UNCHANGED <<current, lastWriter>>,
           NEW v \in Workspaces
    PROVE  Keeps(v) \/ Releases(v)
<1>1. CASE v = w
  <2>1. HeldBySome(v)
    BY <1>1 DEF HeldBySome
  <2>2. \A q \in Processes : fence'[q][w] = 0
    BY ZenonT(40) DEF LeaseInv, TypeOK, HolderIsCurrent
  <2>. QED  BY <1>1, <2>1, <2>2 DEF Releases, HeldBySome
<1>2. CASE v # w
  <2>1. \A q \in Processes : fence'[q][v] = fence[q][v]
    BY <1>2 DEF LeaseInv, TypeOK
  <2>. QED  BY <2>1 DEF Keeps, HeldBySome
<1>. QED  BY <1>1, <1>2

\* allocate_next grants the entry being acquired.
LEMMA AllocateGrants ==
    ASSUME LeaseInv, NEW p \in Processes, AllocateNext(p), NEW v \in Workspaces
    PROVE  Keeps(v) \/ Grants(v)
<1>0. PICK w \in Workspaces : w = Wanted(p)
  BY WantedIsAWorkspace DEF AllocateNext, AtEntry
<1>1. PICK g \in NextGeneration(w) : /\ current' = [current EXCEPT ![w] = g]
                                     /\ fence' = [fence EXCEPT ![p][w] = g]
  BY Zenon, <1>0 DEF AllocateNext
<1>2. phase[p] = "locked" /\ lastWriter' = lastWriter
  BY DEF AllocateNext, AtEntry
<1>3. \A q \in Processes : fence[q][w] = 0
  BY <1>0, <1>2 DEF LeaseInv, PhaseInv, HolderIsCurrent
<1>4. g # 0 /\ g = current[w] + 1
  BY NextGenerationFacts, LeaseAssumption DEF LeaseInv
<1>5. CASE v = w
  <2>1. fence'[p][w] = g /\ current'[w] = g
    BY <1>1 DEF LeaseInv, TypeOK
  <2>. QED  BY <1>2, <1>3, <1>4, <1>5, <2>1 DEF Grants, HeldBySome
<1>6. CASE v # w
  <2>1. (\A q \in Processes : fence'[q][v] = fence[q][v]) /\ current'[v] = current[v]
    BY <1>1, <1>6 DEF LeaseInv, TypeOK
  <2>. QED  BY <1>2, <2>1 DEF Keeps, HeldBySome
<1>. QED  BY <1>5, <1>6

\* A failed allocation may still have used a generation up.
LEMMA FailedAllocationBurns ==
    ASSUME LeaseInv, NEW p \in Processes, AllocateFails(p), NEW v \in Workspaces
    PROVE  Keeps(v) \/ Burns(v)
<1>0. PICK w \in Workspaces : w = Wanted(p)
  BY WantedIsAWorkspace DEF AllocateFails, AtEntry
<1>1. /\ phase[p] = "locked" /\ lastWriter' = lastWriter
      /\ fence' = [fence EXCEPT ![p][w] = 0]
      /\ \/ current' = current
         \/ \E g \in NextGeneration(w) : current' = [current EXCEPT ![w] = g]
  BY <1>0 DEF AllocateFails, AtEntry, GiveUpEntry
<1>2. \A q \in Processes : fence[q][w] = 0
  BY <1>0, <1>1 DEF LeaseInv, PhaseInv, HolderIsCurrent
<1>3. \A q \in Processes : \A u \in Workspaces : fence'[q][u] = fence[q][u]
  BY <1>1, <1>2 DEF LeaseInv, TypeOK
<1>4. CASE current' = current
  BY <1>1, <1>3, <1>4 DEF Keeps, HeldBySome
<1>5. ASSUME NEW g \in NextGeneration(w), current' = [current EXCEPT ![w] = g]
      PROVE  Keeps(v) \/ Burns(v)
  <2>1. g = current[w] + 1
    BY NextGenerationFacts DEF LeaseInv
  <2>2. CASE v = w
    <3>1. current'[v] = current[v] + 1
      BY <1>5, <2>1, <2>2 DEF LeaseInv, TypeOK
    <3>. QED  BY <1>1, <1>2, <1>3, <2>2, <3>1 DEF Burns, HeldBySome
  <2>3. CASE v # w
    <3>1. current'[v] = current[v]
      BY <1>5, <2>3 DEF LeaseInv, TypeOK
    <3>. QED  BY <1>1, <1>3, <3>1 DEF Keeps, HeldBySome
  <2>. QED  BY <2>2, <2>3
<1>. QED  BY <1>1, <1>4, <1>5

\* A validated write is the holder's.
LEMMA MutateWrites ==
    ASSUME LeaseInv, NEW p \in Processes, NEW w \in Workspaces, Mutate(p, w),
           NEW v \in Workspaces
    PROVE  Keeps(v) \/ Writes(v)
<1>1. fence[p][w] # 0 /\ fence[p][w] = current[w]
  BY DEF Mutate, LeaseInv, PhaseInv, HolderIsCurrent
<1>2. fence' = fence /\ current' = current
  BY DEF Mutate
<1>3. CASE v = w
  <2>1. lastWriter'[v] = current[v]
    BY <1>1, <1>3 DEF Mutate, LeaseInv, TypeOK
  <2>. QED  BY <1>1, <1>2, <1>3, <2>1 DEF Writes, HeldBySome
<1>4. CASE v # w
  <2>1. lastWriter'[v] = lastWriter[v]
    BY <1>4 DEF Mutate, LeaseInv, TypeOK
  <2>. QED  BY <1>2, <2>1 DEF Keeps, HeldBySome
<1>. QED  BY <1>3, <1>4

\* The end of a process releases every lease it had.
LEMMA EndReleases ==
    ASSUME LeaseInv, NEW p \in Processes, ProcessEnds(p), NEW v \in Workspaces
    PROVE  Keeps(v) \/ Releases(v)
<1>1. \A q \in Processes : fence'[q][v] = IF q = p THEN 0 ELSE fence[q][v]
  BY DEF ProcessEnds, LeaseInv, TypeOK
<1>2. current' = current /\ lastWriter' = lastWriter
  BY DEF ProcessEnds
<1>3. CASE fence[p][v] = 0
  BY <1>1, <1>2, <1>3 DEF Keeps, HeldBySome
<1>4. CASE fence[p][v] # 0
  <2>1. \A q \in Processes : fence'[q][v] = 0
    BY <1>1, <1>4 DEF LeaseInv, HolderIsCurrent
  <2>. QED  BY <1>2, <1>4, <2>1 DEF Releases, HeldBySome
<1>. QED  BY <1>3, <1>4

\* Every step is a step of the authority of each workspace, or none.
LEMMA AuthorityStep ==
    ASSUME LeaseInv, [Next]_vars
    PROVE  \A w \in Workspaces :
               Authority(w)!Next \/ UNCHANGED Authority(w)!authorityVars
<1>. SUFFICES ASSUME NEW v \in Workspaces
              PROVE  Keeps(v) \/ Grants(v) \/ Burns(v) \/ Writes(v) \/ Releases(v)
  BY ObservedSteps
<1>1. CASE UNCHANGED vars
  BY <1>1, QuietKeeps DEF vars
<1>2. CASE Next
  <2>1. PICK p \in Processes :
          \/ Acquire(p)
          \/ CleanupRelease(p) \/ CleanupDone(p)
          \/ \E w \in Workspaces :
               Validate(p, w) \/ Mutate(p, w) \/ StopWorkspace(p, w) \/ DropRuntime(p, w)
          \/ Crash(p) \/ ExitProcess(p)
    BY <1>2 DEF Next
  <2>2. CASE AllocateNext(p)
    BY <2>2, AllocateGrants
  <2>3. CASE AllocateFails(p)
    BY <2>3, FailedAllocationBurns
  <2>4. CASE ConfirmFails(p)
    <3>0. PICK w \in Workspaces : w = Wanted(p)
      BY <2>4, WantedIsAWorkspace DEF ConfirmFails, AtEntry
    <3>1. /\ phase[p] = "allocated"
          /\ fence' = [fence EXCEPT ![p][w] = 0]
          /\ UNCHANGED <<current, lastWriter>>
      BY <2>4, <3>0 DEF ConfirmFails, AtEntry, GiveUpEntry
    <3>2. fence[p][w] # 0
      BY <3>0, <3>1 DEF LeaseInv, PhaseInv
    <3>. QED  BY Zenon, <3>1, <3>2, GivingUpReleases
  <2>5. CASE \E w \in Workspaces : ReleaseLease(p, w)
    BY Zenon, <2>5, GivingUpReleases DEF ReleaseLease
  <2>6. CASE \E w \in Workspaces : Mutate(p, w)
    BY <2>6, MutateWrites
  <2>7. CASE ProcessEnds(p)
    BY <2>7, EndReleases
  <2>8. CASE UNCHANGED <<current, lastWriter, fence>>
    BY <2>8, QuietKeeps
  <2>9. \/ AllocateNext(p) \/ AllocateFails(p) \/ ConfirmFails(p)
        \/ \E w \in Workspaces : ReleaseLease(p, w)
        \/ \E w \in Workspaces : Mutate(p, w)
        \/ ProcessEnds(p)
        \/ UNCHANGED <<current, lastWriter, fence>>
    BY Zenon, <2>1 DEF Acquire, BeginStartup, TryLock, LockFails, ConfirmFence, EnterServing,
           AdvanceFails,
                AtEntry, CleanupRelease, CleanupDone, Validate, StopWorkspace,
                DropRuntime, Crash, ExitProcess
  <2>. QED  BY <2>2, <2>3, <2>4, <2>5, <2>6, <2>7, <2>8, <2>9
<1>. QED  BY <1>1, <1>2

\* The OS lock, the generation store and the daemon's startup together provide
\* the authority that command execution relies on.
THEOREM LeaseImplementsAuthority == Spec => ImplementsAuthority
<1>1. Init => \A w \in Workspaces : Authority(w)!Init
  BY DEF Init, Authority!Init
<1>. QED  BY <1>1, LeaseInvariance, AuthorityStep, PTL DEF Spec, ImplementsAuthority
=============================================================================
