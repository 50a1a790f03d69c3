---------------------------- MODULE WriterLease ----------------------------
(***************************************************************************)
(* Workspace writer authority: the nonblocking OS lock and the durable     *)
(* generation of fabric/writer_lease.rs and writer_generation_sqlite.rs,   *)
(* as a daemon acquires them for every workspace of its registry, holds    *)
(* them across its durable writes and gives them up (daemon.rs).           *)
(*                                                                         *)
(* An acquisition is three separate steps (lock, allocate, validate); a    *)
(* write is two (validate the fence, then mutate), so another process may  *)
(* act between any of them. A process may end at any moment.               *)
(*                                                                         *)
(* A fence is a lease identity and a generation. The identity is drawn at  *)
(* random for each allocation, so the generation stands for the pair; 0 is *)
(* the absent row, or no lease.                                            *)
(***************************************************************************)
EXTENDS Naturals, Sequences

CONSTANTS
    Processes,      \* processes that want to write
    Workspaces,
    Registry,       \* the workspaces each process registers, in its order
    MaxGeneration,  \* u64::MAX in the code
    MaxFaults       \* bound: failures of ports and processes

ASSUME LeaseAssumption ==
    /\ Registry \in [Processes -> Seq(Workspaces)]
    /\ \A p \in Processes : \A i, j \in DOMAIN Registry[p] :
         Registry[p][i] = Registry[p][j] => i = j
    /\ MaxGeneration \in Nat /\ MaxFaults \in Nat

VARIABLES
    lock,        \* OS: the process holding each workspace's lock file
    current,     \* durable: the newest fence of each workspace
    lastWriter,  \* durable: the generation of the last write
    phase,       \* where each process is
    position,    \* the registry entry it is acquiring
    fence,       \* the fences it holds, or has just allocated
    writing,     \* the workspaces whose validated write is about to happen
    dropped,     \* the workspaces whose runtime was dropped without shutdown
    faults

vars == <<lock, current, lastWriter, phase, position, fence, writing, dropped, faults>>

Wanted(p) == Registry[p][position[p]]

Fault == faults < MaxFaults /\ faults' = faults + 1

-----------------------------------------------------------------------------
(* Acquisition: WorkspaceWriterLease::acquire inside the daemon's loop.    *)

BeginStartup(p) ==
    /\ phase[p] = "stopped"
    /\ phase' = [phase EXCEPT ![p] = "acquiring"]
    /\ position' = [position EXCEPT ![p] = 1]
    /\ UNCHANGED <<lock, current, lastWriter, fence, writing, dropped, faults>>

AtEntry(p, stage) ==
    /\ phase[p] = stage /\ position[p] \in DOMAIN Registry[p]
    /\ UNCHANGED <<lastWriter, writing, dropped>>

TryLock(p) ==
    /\ AtEntry(p, "acquiring")
    /\ lock[Wanted(p)] = {}
    /\ lock' = [lock EXCEPT ![Wanted(p)] = {p}]
    /\ phase' = [phase EXCEPT ![p] = "locked"]
    /\ UNCHANGED <<current, position, fence, faults>>

\* AlreadyHeld, no nonce for the lease, or a lock file that cannot be opened.
LockFails(p) ==
    /\ AtEntry(p, "acquiring")
    /\ (lock[Wanted(p)] # {} /\ UNCHANGED faults) \/ Fault
    /\ phase' = [phase EXCEPT ![p] = "failed"]
    /\ UNCHANGED <<lock, current, position, fence>>

\* Mutant: a second process is given the generation of the first.
ReusedGeneration(w) == IF current[w] = 0 THEN {1} ELSE {current[w]}

\* The successor allocate_next stores: checked_add at the end of the range.
NextGeneration(w) == IF current[w] < MaxGeneration THEN {current[w] + 1} ELSE {}

AllocateNext(p) ==
    /\ AtEntry(p, "locked")
    /\ \E g \in NextGeneration(Wanted(p)) :
         /\ current' = [current EXCEPT ![Wanted(p)] = g]
         /\ fence' = [fence EXCEPT ![p][Wanted(p)] = g]
    /\ phase' = [phase EXCEPT ![p] = "allocated"]
    /\ UNCHANGED <<lock, position, faults>>

\* Dropping the lock file on an early return frees the OS lock.
GiveUpEntry(p) ==
    /\ lock' = [lock EXCEPT ![Wanted(p)] = {}]
    /\ fence' = [fence EXCEPT ![p][Wanted(p)] = 0]
    /\ phase' = [phase EXCEPT ![p] = "failed"]
    /\ UNCHANGED position

\* Exhausted, or unavailable: the transaction may have committed.
AllocateFails(p) ==
    /\ AtEntry(p, "locked")
    /\ \/ /\ NextGeneration(Wanted(p)) = {}
          /\ UNCHANGED <<current, faults>>
       \/ /\ Fault
          /\ \/ UNCHANGED current
             \/ \E g \in NextGeneration(Wanted(p)) :
                  current' = [current EXCEPT ![Wanted(p)] = g]
    /\ GiveUpEntry(p)

\* validate_writer_fence against the store, then on to the next entry.
ConfirmFence(p) ==
    /\ AtEntry(p, "allocated")
    /\ current[Wanted(p)] = fence[p][Wanted(p)]
    /\ position' = [position EXCEPT ![p] = @ + 1]
    /\ phase' = [phase EXCEPT ![p] = "acquiring"]
    /\ UNCHANGED <<lock, current, fence, faults>>

ConfirmFails(p) ==
    /\ AtEntry(p, "allocated")
    /\ (current[Wanted(p)] # fence[p][Wanted(p)] /\ UNCHANGED faults) \/ Fault
    /\ GiveUpEntry(p)
    /\ UNCHANGED current

EnterServing(p) ==
    /\ phase[p] = "acquiring" /\ position[p] = Len(Registry[p]) + 1
    /\ phase' = [phase EXCEPT ![p] = "serving"]
    /\ UNCHANGED <<lock, current, lastWriter, position, fence, writing, dropped, faults>>

\* lifecycle.advance refuses once every lease is held.
AdvanceFails(p) ==
    /\ phase[p] = "acquiring" /\ position[p] = Len(Registry[p]) + 1
    /\ Fault
    /\ phase' = [phase EXCEPT ![p] = "failed"]
    /\ UNCHANGED <<lock, current, lastWriter, position, fence, writing, dropped>>

-----------------------------------------------------------------------------
(* Giving up.                                                              *)

\* release, and Drop when it fails: either way the file is closed.
ReleaseLease(p, w) ==
    /\ fence[p][w] # 0
    /\ lock' = [lock EXCEPT ![w] = {}]
    /\ fence' = [fence EXCEPT ![p][w] = 0]
    /\ UNCHANGED <<current, lastWriter, position, writing, dropped, faults>>

\* cleanup_owned_startup_failure: every lease acquired so far is released.
CleanupRelease(p) ==
    /\ phase[p] = "failed"
    /\ \E w \in Workspaces : ReleaseLease(p, w)
    /\ UNCHANGED phase

CleanupDone(p) ==
    /\ phase[p] = "failed" /\ \A w \in Workspaces : fence[p][w] = 0
    /\ phase' = [phase EXCEPT ![p] = "stopped"]
    /\ UNCHANGED <<lock, current, lastWriter, position, fence, writing, dropped, faults>>

-----------------------------------------------------------------------------
(* Serving: a durable write validates its fence first, and a runtime ends  *)
(* by a joined shutdown, by being dropped, or with its process.            *)

Validate(p, w) ==
    /\ phase[p] = "serving" /\ fence[p][w] # 0 /\ w \notin dropped[p]
    /\ current[w] = fence[p][w]
    /\ writing' = [writing EXCEPT ![p] = @ \cup {w}]
    /\ UNCHANGED <<lock, current, lastWriter, phase, position, fence, dropped, faults>>

Mutate(p, w) ==
    /\ w \in writing[p]
    /\ lastWriter' = [lastWriter EXCEPT ![w] = fence[p][w]]
    /\ writing' = [writing EXCEPT ![p] = @ \ {w}]
    /\ UNCHANGED <<lock, current, phase, position, fence, dropped, faults>>

\* Mutant: shutdown releases the lease before the actor has been joined.
StopBeforeJoin(p, w) ==
    /\ phase[p] = "serving" /\ w \notin dropped[p]
    /\ fence[p][w] # 0
    /\ lock' = [lock EXCEPT ![w] = {}]
    /\ phase' = phase
    /\ UNCHANGED <<fence, current, lastWriter, position, writing, dropped, faults>>

\* FabricCommandRuntime::shutdown joins the actor before it releases the lease.
StopWorkspace(p, w) ==
    /\ phase[p] = "serving" /\ w \notin dropped[p] /\ w \notin writing[p]
    /\ ReleaseLease(p, w)
    /\ phase' = [phase EXCEPT ![p] =
                   IF \A v \in Workspaces \ {w} : fence[p][v] = 0 THEN "stopped" ELSE @]

\* Mutant: dropping the runtime frees its lock while a write may be running.
DropFreesLock(p, w) ==
    /\ phase[p] = "serving" /\ fence[p][w] # 0 /\ w \notin dropped[p]
    /\ Fault
    /\ dropped' = [dropped EXCEPT ![p] = @ \cup {w}]
    /\ lock' = [lock EXCEPT ![w] = {}]
    /\ UNCHANGED <<current, lastWriter, phase, position, fence, writing>>

\* Drop forgets the lease, so the OS lock lasts as long as the process.
DropRuntime(p, w) ==
    /\ phase[p] = "serving" /\ fence[p][w] # 0 /\ w \notin dropped[p]
    /\ Fault
    /\ dropped' = [dropped EXCEPT ![p] = @ \cup {w}]
    /\ UNCHANGED <<lock, current, lastWriter, phase, position, fence, writing>>

\* The kernel closes the lock files of a process that ends.
ProcessEnds(p) ==
    /\ phase[p] # "stopped"
    /\ lock' = [w \in Workspaces |-> lock[w] \ {p}]
    /\ phase' = [phase EXCEPT ![p] = "stopped"]
    /\ fence' = [fence EXCEPT ![p] = [w \in Workspaces |-> 0]]
    /\ writing' = [writing EXCEPT ![p] = {}]
    /\ dropped' = [dropped EXCEPT ![p] = {}]
    /\ UNCHANGED <<current, lastWriter, position>>

Crash(p) == Fault /\ ProcessEnds(p)

\* A process whose runtimes are all stopped or dropped exits.
ExitProcess(p) ==
    /\ phase[p] = "serving"
    /\ \A w \in Workspaces : fence[p][w] # 0 => w \in dropped[p]
    /\ UNCHANGED faults
    /\ ProcessEnds(p)

-----------------------------------------------------------------------------
Init ==
    /\ lock = [w \in Workspaces |-> {}]
    /\ current = [w \in Workspaces |-> 0]
    /\ lastWriter = [w \in Workspaces |-> 0]
    /\ phase = [p \in Processes |-> "stopped"]
    /\ position = [p \in Processes |-> 1]
    /\ fence = [p \in Processes |-> [w \in Workspaces |-> 0]]
    /\ writing = [p \in Processes |-> {}]
    /\ dropped = [p \in Processes |-> {}]
    /\ faults = 0

Acquire(p) ==
    \/ BeginStartup(p) \/ TryLock(p) \/ LockFails(p)
    \/ AllocateNext(p) \/ AllocateFails(p)
    \/ ConfirmFence(p) \/ ConfirmFails(p)
    \/ EnterServing(p) \/ AdvanceFails(p)

Next ==
    \E p \in Processes :
        \/ Acquire(p)
        \/ CleanupRelease(p) \/ CleanupDone(p)
        \/ \E w \in Workspaces :
             Validate(p, w) \/ Mutate(p, w) \/ StopWorkspace(p, w) \/ DropRuntime(p, w)
        \/ Crash(p) \/ ExitProcess(p)

Spec == Init /\ [][Next]_vars

-----------------------------------------------------------------------------
(* Properties.                                                             *)

Phases == {"stopped", "acquiring", "locked", "allocated", "failed", "serving"}

\* The types of the lock table, the generation store and each process.
TypeOK ==
    /\ lock \in [Workspaces -> SUBSET Processes]
    /\ current \in [Workspaces -> 0..MaxGeneration]
    /\ lastWriter \in [Workspaces -> 0..MaxGeneration]
    /\ phase \in [Processes -> Phases]
    /\ position \in [Processes -> Nat]
    /\ fence \in [Processes -> [Workspaces -> 0..MaxGeneration]]
    /\ writing \in [Processes -> SUBSET Workspaces]
    /\ dropped \in [Processes -> SUBSET Workspaces]
    /\ faults \in 0..MaxFaults

\* A fence a process still relies on is the workspace's newest one and backed by
\* the OS lock, at every moment and not only when it is validated: validate then
\* mutate is therefore safe without holding anything across the two.
HolderIsCurrent ==
    \A p \in Processes, w \in Workspaces :
        fence[p][w] # 0 => lock[w] = {p} /\ current[w] = fence[p][w]

\* A process that failed to start, stopped all its workspaces or died keeps no
\* workspace locked, however many leases it had acquired before: a startup that
\* fails at its last entry leaves every other daemon able to start.
NothingKeptLocked ==
    \A p \in Processes :
        phase[p] = "stopped" => \A w \in Workspaces : p \notin lock[w]

\* No durable write of an older generation follows a write of a newer one.
WritesFollowGenerations ==
    [][\A w \in Workspaces : lastWriter'[w] >= lastWriter[w]]_vars

\* The lease of each workspace provides the authority writers rely on: the
\* conjunction over w of WriterAuthority's specification.
Authority(w) == INSTANCE WriterAuthority
    WITH generation <- current[w],
         held <- \E p \in Processes : fence[p][w] # 0,
         lastWriter <- lastWriter[w]
ImplementsAuthority ==
    /\ \A w \in Workspaces : Authority(w)!Init
    /\ [][\A w \in Workspaces :
            Authority(w)!Next \/ UNCHANGED Authority(w)!authorityVars]_vars

\* Leases exclude each other and none outlives its use.
LeasesExclude == TypeOK /\ HolderIsCurrent /\ NothingKeptLocked
=============================================================================
