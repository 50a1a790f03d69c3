--------------------------- MODULE CommandManager ---------------------------
(***************************************************************************)
(* The per-workspace owner of command runtimes                             *)
(* (fabric/command_runtime_manager.rs): start, bounded recovery, retry,    *)
(* the handle it gives out, joined shutdown of one workspace or of all of  *)
(* them, and what is left behind when the future of a call is dropped, an  *)
(* actor dies, or the manager itself is abandoned.                         *)
(*                                                                         *)
(* The manager's methods take &mut self, so one call runs at a time. A     *)
(* runtime is what command_runtime.rs shows the manager: an actor task, an *)
(* ingress gate, a journal with or without a nonterminal row and the       *)
(* workspace's writer lock. CommandRuntime.tla models it in full.          *)
(***************************************************************************)
EXTENDS Naturals, FiniteSets, FiniteSetsExt

CONSTANTS Workspaces,   \* workspace ids: naturals, shut down in order
          MaxStarts     \* bound on runtimes started for one workspace

ASSUME ManagerAssumption ==
    /\ Workspaces \subseteq Nat /\ Workspaces # {} /\ IsFiniteSet(Workspaces)
    /\ MaxStarts \in Nat \ {0}

Runs == 1..MaxStarts

VARIABLES managed,    \* runtimes: the state retained for the workspace
          started,    \* runtimes started for the workspace so far
          actors,     \* runs whose actor task may still touch the journal
          gate,       \* the ingress gate of the current run
          unsettled,  \* whether the journal holds a nonterminal row
          lease,      \* the workspace's writer lock
          handles,    \* runs of which somebody holds a command handle
          call        \* the call that has the manager borrowed

managerVars == <<managed, started, actors, gate, unsettled, lease, handles, call>>

NoCall == [op |-> "none", w |-> 0, stage |-> "none", rest |-> {}]
Idle == call = NoCall
At(op, stage) == call.op \in op /\ call.stage = stage
Alive(w) == started[w] \in actors[w]

ManagerInit ==
    /\ managed = [w \in Workspaces |-> "none"]
    /\ started = [w \in Workspaces |-> 0]
    /\ actors = [w \in Workspaces |-> {}]
    /\ gate = [w \in Workspaces |-> FALSE]
    /\ unsettled \in [Workspaces -> BOOLEAN]
    /\ lease = [w \in Workspaces |-> "free"]
    /\ handles = [w \in Workspaces |-> {}]
    /\ call = NoCall

-----------------------------------------------------------------------------
(* start_workspace and retry_recovery.                                     *)

\* start_workspace up to the started runtime. A factory that fails or answers
\* for another workspace, and a runtime that cannot start, change nothing.
StartWorkspace(w) ==
    /\ Idle
    /\ managed[w] = "none" /\ started[w] < MaxStarts
    /\ lease[w] = "free"
    /\ started' = [started EXCEPT ![w] = @ + 1]
    /\ actors' = [actors EXCEPT ![w] = @ \cup {started'[w]}]
    /\ gate' = [gate EXCEPT ![w] = FALSE]
    /\ lease' = [lease EXCEPT ![w] = "held"]
    /\ call' = [op |-> "start", w |-> w, stage |-> "recover", rest |-> {}]
    /\ UNCHANGED <<managed, unsettled, handles>>

\* retry_recovery up to the recovery: a state cached as Ready is the answer.
RetryRecovery(w) ==
    /\ Idle
    /\ managed[w] # "none"
    /\ IF managed[w] = "Ready"
       THEN /\ call' = [op |-> "retry", w |-> w, stage |-> "Ready", rest |-> {}]
            /\ UNCHANGED gate
       ELSE /\ gate' = [gate EXCEPT ![w] = FALSE]
            /\ call' = [op |-> "retry", w |-> w, stage |-> "recover", rest |-> {}]
    /\ UNCHANGED <<managed, started, actors, unsettled, lease, handles>>

\* recover_and_open_bounded comes back: Ready over a quiescent journal, Pending
\* over an unsettled one, or an error anywhere on the way.
Recovered(w) ==
    /\ Alive(w)
    /\ \/ unsettled' = [unsettled EXCEPT ![w] = FALSE] /\ gate' = [gate EXCEPT ![w] = TRUE]
          /\ managed' = [managed EXCEPT ![w] = "Ready"]
       \/ unsettled[w] /\ UNCHANGED <<unsettled, gate>>
          /\ managed' = [managed EXCEPT ![w] = "Pending"]

RecoveryReturns ==
    /\ At({"start", "retry"}, "recover")
    /\ LET w == call.w
       IN  \/ /\ Recovered(w)
              /\ call' = [call EXCEPT !.stage = managed'[w]]
           \/ /\ unsettled' \in {unsettled, [unsettled EXCEPT ![w] = FALSE]}
              /\ call' = IF call.op = "start" THEN [call EXCEPT !.stage = "ask"] ELSE NoCall
              /\ UNCHANGED <<managed, gate>>
    /\ UNCHANGED <<started, actors, lease, handles>>

\* start_workspace and retry_recovery hand their state to the caller.
AnswerReturns ==
    /\ At({"start", "retry"}, "Ready") \/ At({"start", "retry"}, "Pending")
    /\ call' = NoCall
    /\ UNCHANGED <<managed, started, actors, gate, unsettled, lease, handles>>

\* handle: ingress only for a runtime whose recovery was proved.
GiveHandle(w) ==
    /\ Idle
    /\ managed[w] = "Ready"
    /\ handles' = [handles EXCEPT ![w] = @ \cup {started[w]}]
    /\ UNCHANGED <<managed, started, actors, gate, unsettled, lease, call>>

-----------------------------------------------------------------------------
(* Shutdown. stop_workspace and shutdown_all take the runtimes out of the  *)
(* map before the first await; a start whose recovery failed owns its      *)
(* runtime alone.                                                          *)
StopWorkspace(w) ==
    /\ Idle
    /\ managed[w] # "none"
    /\ managed' = [managed EXCEPT ![w] = "none"]
    /\ call' = [op |-> "stop", w |-> w, stage |-> "ask", rest |-> {}]
    /\ UNCHANGED <<started, actors, gate, unsettled, lease, handles>>

ShutdownAll ==
    /\ Idle
    /\ LET all == {w \in Workspaces : managed[w] # "none"}
       IN  /\ all # {}
           /\ call' = [op |-> "all", w |-> Min(all), stage |-> "ask", rest |-> all \ {Min(all)}]
    /\ managed' = [w \in Workspaces |-> "none"]
    /\ UNCHANGED <<started, actors, gate, unsettled, lease, handles>>

\* Mutant: shutdown_all ends with its first runtime.
AdvanceShortCircuits == call' = NoCall

\* The next runtime of shutdown_all, whatever became of this one.
Advance ==
    call' = IF call.rest = {} THEN NoCall
            ELSE [call EXCEPT !.w = Min(call.rest), !.stage = "ask",
                              !.rest = @ \ {Min(call.rest)}]

\* Mutant: the actor's answer is awaited even from an actor that is gone.
AskActorForever(w) ==
    /\ Alive(w)
    /\ actors' = [actors EXCEPT ![w] = @ \ {started[w]}]
    /\ gate' = [gate EXCEPT ![w] = FALSE]
    /\ call' = [call EXCEPT !.stage = "join"]
    /\ UNCHANGED lease

\* FabricCommandRuntime::shutdown: the actor answers in queue order and leaves
\* its loop; an actor that is gone fails the call, and the drop keeps the lock.
AskActor(w) ==
    /\ IF Alive(w)
       THEN /\ actors' = [actors EXCEPT ![w] = @ \ {started[w]}]
            /\ gate' = [gate EXCEPT ![w] = FALSE]
            /\ call' = [call EXCEPT !.stage = "join"]
            /\ UNCHANGED lease
       ELSE /\ lease' = [lease EXCEPT ![w] = "forgotten"]
            /\ UNCHANGED <<actors, gate>>
            /\ Advance

ShutdownAsks ==
    /\ At({"start", "stop", "all"}, "ask")
    /\ AskActor(call.w)
    /\ UNCHANGED <<managed, started, unsettled, handles>>

\* The task is joined and the lease released; a failing release drops the
\* lease, which unlocks as well.
ShutdownJoins ==
    /\ At({"start", "stop", "all"}, "join")
    /\ lease' = [lease EXCEPT ![call.w] = "free"]
    /\ Advance
    /\ UNCHANGED <<managed, started, actors, gate, unsettled, handles>>

-----------------------------------------------------------------------------
(* What is dropped instead of awaited.                                     *)

\* Drop of FabricCommandRuntime: the actor is told to abort, which takes effect
\* when it is next polled, and the lock is kept for the rest of the process.
Dropped(dropped) ==
    lease' = [w \in Workspaces |-> IF w \in dropped THEN "forgotten" ELSE lease[w]]

\* The caller drops the future of the call. A runtime that was being joined has
\* given up its task handle, so its lease is simply dropped. A message that a
\* retry already sent is still answered by the actor.
DropCall ==
    /\ ~Idle /\ call.stage \notin {"Ready", "Pending"}
    /\ IF call.op = "retry"
       THEN /\ LET w == call.w
               IN  /\ unsettled' \in {unsettled, [unsettled EXCEPT ![w] = FALSE]}
                   /\ gate' \in {gate, [gate EXCEPT ![w] = Alive(w) /\ ~unsettled'[w]]}
            /\ UNCHANGED lease
       ELSE /\ LET joined == IF call.stage = "join" THEN {call.w} ELSE {}
                   dropped == ({call.w} \cup call.rest) \ joined
               IN  IF joined = {} THEN Dropped(dropped)
                   ELSE lease' = [w \in Workspaces |->
                            CASE w \in joined  -> "free"
                              [] w \in dropped -> "forgotten"
                              [] OTHER         -> lease[w]]
            /\ UNCHANGED <<unsettled, gate>>
    /\ call' = NoCall
    /\ UNCHANGED <<managed, started, actors, handles>>

\* The manager is dropped between calls, with every runtime it retains.
AbandonManager ==
    /\ Idle
    /\ \E w \in Workspaces : managed[w] # "none"
    /\ Dropped({w \in Workspaces : managed[w] # "none"})
    /\ managed' = [w \in Workspaces |-> "none"]
    /\ UNCHANGED <<started, actors, gate, unsettled, handles, call>>

\* A task ends: an abort reaches it, or it panics.
ActorEnds(w) ==
    /\ \E run \in actors[w] : actors' = [actors EXCEPT ![w] = @ \ {run}]
    /\ gate' = [gate EXCEPT ![w] = FALSE]
    /\ UNCHANGED <<managed, started, unsettled, lease, handles, call>>

-----------------------------------------------------------------------------
(* Holders of handles. Commands that settle leave no trace here.           *)
SubmitEndsNonterminal(w) ==
    /\ started[w] \in handles[w] /\ Alive(w) /\ gate[w]
    /\ unsettled' = [unsettled EXCEPT ![w] = TRUE]
    /\ gate' = [gate EXCEPT ![w] = FALSE]
    /\ UNCHANGED <<managed, started, actors, lease, handles, call>>

\* reconcile, cancel and the other ungated requests of a handle settle the row;
\* none of them opens the gate.
HandleSettles(w) ==
    /\ started[w] \in handles[w] /\ Alive(w) /\ unsettled[w]
    /\ unsettled' = [unsettled EXCEPT ![w] = FALSE]
    /\ UNCHANGED <<managed, started, actors, gate, lease, handles, call>>

CallStep == RecoveryReturns \/ AnswerReturns \/ ShutdownAsks \/ ShutdownJoins

ManagerNext ==
    \/ \E w \in Workspaces :
          \/ StartWorkspace(w) \/ RetryRecovery(w) \/ GiveHandle(w) \/ StopWorkspace(w)
          \/ ActorEnds(w) \/ SubmitEndsNonterminal(w) \/ HandleSettles(w)
    \/ CallStep \/ ShutdownAll \/ DropCall \/ AbandonManager

ManagerSpec == ManagerInit /\ [][ManagerNext]_managerVars

\* The executor polls the future of a call until it is done.
ManagerLiveSpec == ManagerSpec /\ WF_managerVars(CallStep)

-----------------------------------------------------------------------------
(* Properties.                                                             *)

\* The shape of the manager's state.
ManagerTypeOK ==
    /\ managed \in [Workspaces -> {"none", "Ready", "Pending"}]
    /\ started \in [Workspaces -> 0..MaxStarts]
    /\ actors \in [Workspaces -> SUBSET Runs]
    /\ gate \in [Workspaces -> BOOLEAN]
    /\ unsettled \in [Workspaces -> BOOLEAN]
    /\ lease \in [Workspaces -> {"free", "held", "forgotten"}]
    /\ handles \in [Workspaces -> SUBSET Runs]
    /\ call \in [op: {"none", "start", "retry", "stop", "all"}, w: Workspaces \cup {0},
                 stage: {"none", "recover", "ask", "join", "Ready", "Pending"},
                 rest: SUBSET Workspaces]

\* Whatever is dropped, aborted, stopped or abandoned in between, a workspace
\* has at most one actor task that may touch its journal, and its writer lock
\* is free only when it has none (command_runtime.rs Drop, :686).
OneMutator ==
    \A w \in Workspaces :
        /\ Cardinality(actors[w]) <= 1
        /\ lease[w] = "free" => actors[w] = {}

\* A runtime the manager no longer retains, and no call of it holds, is stopped
\* with the lock given back or keeps the lock for good: shutdown_all, a failed
\* start and a dropped future leave none behind that still counts as held.
NoRuntimeIsLost ==
    \A w \in Workspaces :
        lease[w] = "held" <=> \/ managed[w] # "none"
                              \/ /\ call.op \in {"start", "stop", "all"}
                                 /\ w \in {call.w} \cup call.rest

\* Every call of the manager returns, whatever its runtimes do: an actor that
\* died is noticed and shutdown_all goes on to the next runtime.
CallReturns == ~Idle ~> Idle

\* Every runtime that may touch a journal is alone and accounted for.
RuntimesAreOwned == ManagerTypeOK /\ OneMutator /\ NoRuntimeIsLost

-----------------------------------------------------------------------------
\* What a comment says and the code does not keep.

\* Ready is documented as "actor ingress is open": an answer of Ready from
\* retry_recovery, asked of a runtime whose actor runs, means that it is.
ReadyAnswerMeansOpenIngress ==
    [][call.stage # "Ready" /\ call'.stage = "Ready" /\ Alive(call'.w)
          => gate'[call'.w]]_managerVars
=============================================================================
