----------------------------- MODULE TaskScopes -----------------------------
(***************************************************************************)
(* Structured cancellation scopes and the registry that owns their tasks   *)
(* (cancellation/owned.rs): bounded admission, results that are observed   *)
(* by whoever holds the observation, joins raced by several observers,     *)
(* cancel_and_join with its deadline, and observers that are dropped at an *)
(* await.                                                                  *)
(*                                                                         *)
(* An action is what one caller does between two awaits, or under one      *)
(* lock. The scope tree is fixed: making a child changes nothing, and a    *)
(* child of a cancelled scope is as cancelled as its parent.               *)
(***************************************************************************)
EXTENDS Naturals, FiniteSets

CONSTANTS Scopes,          \* the scopes of one registry
          Up,              \* the parent of a scope; the root is its own
          ClassOf,         \* "Data" or "Control", given by the scope
          Names,           \* task names
          Spawners,        \* users of the registry that spawn tasks, and
          Joiners,         \* those that cancel scopes and join them
          Tasks,           \* tasks ever spawned: bound, in order of spawning
          DataCapacity, ControlCapacity

Callers == Spawners \cup Joiners
Capacity == [Data |-> DataCapacity, Control |-> ControlCapacity]

Ancestors(s) == {s, Up[s], Up[Up[s]]}
Under(s, t) == t \in Ancestors(s)

ASSUME ScopeAssumption ==
    /\ Scopes # {} /\ Names # {}
    /\ Up \in [Scopes -> Scopes] /\ ClassOf \in [Scopes -> {"Data", "Control"}]
    /\ \A s \in Scopes : Up[Up[Up[s]]] = Up[Up[s]]
    /\ Tasks \subseteq Nat \ {0} /\ IsFiniteSet(Tasks)
    /\ DataCapacity \in Nat /\ ControlCapacity \in Nat

VARIABLES requested,  \* scopes whose cancellation flag is set
          token,      \* scopes whose cancellation token is cancelled
          task,       \* every task spawned so far
          registry,   \* StructuredTaskRegistry.tasks
          flags,      \* native_flags: the tasks it has an entry of
          count,      \* data_tasks and control_tasks
          caller,     \* what each caller is doing
          closed,     \* scopes whose cancel has returned
          joined      \* scopes whose cancel_and_join has returned in time

vars == <<requested, token, task, registry, flags, count, caller, closed, joined>>

NoTask == [scope |-> CHOOSE s \in Scopes : TRUE, name |-> CHOOSE n \in Names : TRUE,
           mode |-> "none", run |-> "none", aborting |-> FALSE,
           guard |-> FALSE]
IdleCaller == [op |-> "none", s |-> CHOOSE s \in Scopes : TRUE,
               name |-> CHOOSE n \in Names : TRUE, mode |-> "none", stage |-> "none",
               e |-> 0, todo |-> {}, all |-> {}, fail |-> FALSE, late |-> FALSE]

Spawned == {e \in Tasks : task[e].run # "none"}
Finished(e) == task[e].run \in {"done", "panicked", "aborted"}
Alive(e) == task[e].run \in {"running", "sent"}
Class(e) == ClassOf[task[e].scope]
SameKey(e, s, name) == task[e].scope = s /\ task[e].name = name
IsCancelled(s) == s \in requested \/ s \in token

Init ==
    /\ requested = {} /\ token = {} /\ registry = {} /\ flags = {}
    /\ task = [e \in Tasks |-> NoTask]
    /\ count = [Data |-> 0, Control |-> 0]
    /\ caller = [c \in Callers |-> IdleCaller]
    /\ closed = {} /\ joined = {}

Become(c, record) == caller' = [caller EXCEPT ![c] = record]
To(c, stage) == caller' = [caller EXCEPT ![c].stage = stage]
At(c, op, stage) == caller[c].op \in op /\ caller[c].stage = stage

-----------------------------------------------------------------------------
(* observe and observe_registered, on behalf of any caller.                *)

\* The next task of a caller's list is awaited.
Pick(c) ==
    /\ At(c, {"spawn"}, "reap") \/ (At(c, {"join"}, "join") /\ ~caller[c].late)
    /\ \E e \in caller[c].todo :
          caller' = [caller EXCEPT ![c].e = e, ![c].todo = @ \ {e}, ![c].stage = "observe"]
    /\ UNCHANGED <<requested, token, task, registry, flags, count, closed, joined>>

\* Mutant: a result that was sent stands for the end of its task.
ObservableOnceSent(e) == task[e].run # "running"

\* The join handle resolves when the task has ended.
Observable(e) == Finished(e)

\* observe: the outcome is kept and the resource guard dropped.
Observe(c) ==
    /\ At(c, {"spawn", "join", "wait"}, "observe")
    /\ Observable(caller[c].e)
    /\ task' = [task EXCEPT ![caller[c].e].guard = FALSE]
    /\ To(c, "unregister")
    /\ UNCHANGED <<requested, token, registry, flags, count, closed, joined>>

\* The entry that this observer removes: its own, if it is still there.
Registered(e) == registry \cap {e}

\* observe_registered: under the registry lock. A failed join is the caller's
\* failure.
Unregister(c) ==
    /\ At(c, {"spawn", "join", "wait"}, "unregister")
    /\ LET e    == caller[c].e
           gone == Registered(e)
       IN  /\ registry' = registry \ gone
           /\ flags' = flags \ gone
           /\ count' = IF gone = {} THEN count ELSE [count EXCEPT ![Class(e)] = @ - 1]
           /\ caller' = [caller EXCEPT
                 ![c] = IF caller[c].op = "wait" THEN IdleCaller
                        ELSE [caller[c] EXCEPT
                                 !.stage = IF caller[c].op = "spawn" THEN "reap" ELSE "join",
                                 !.e = 0,
                                 !.fail = caller[c].fail \/ task[e].run # "done"]]
    /\ UNCHANGED <<requested, token, task, closed, joined>>

-----------------------------------------------------------------------------
(* spawn_owned.                                                            *)
Spawn(c, s, name, mode) ==
    /\ caller[c] = IdleCaller
    /\ Become(c, [IdleCaller EXCEPT !.op = "spawn", !.s = s, !.name = name, !.mode = mode,
                  !.stage = "reap", !.todo = {e \in registry : Finished(e)}])
    /\ UNCHANGED <<requested, token, task, registry, flags, count, closed, joined>>

\* A finished task whose join failed refuses this spawn, whoever owned it.
Reaped(c) ==
    /\ At(c, {"spawn"}, "reap") /\ caller[c].todo = {}
    /\ IF caller[c].fail THEN Become(c, IdleCaller) ELSE To(c, "admit")
    /\ UNCHANGED <<requested, token, task, registry, flags, count, closed, joined>>

\* Mutant: cancellation is not looked at again under the locks.
AdmitsUnchecked(s, name) ==
    /\ \A e \in registry : ~SameKey(e, s, name)
    /\ count[ClassOf[s]] < Capacity[ClassOf[s]]

Admits(s, name) ==
    /\ ~IsCancelled(s)
    /\ \A e \in registry : ~SameKey(e, s, name)
    /\ count[ClassOf[s]] < Capacity[ClassOf[s]]

\* The critical section of spawn_owned: the registry and the flags are locked.
Admit(c) ==
    /\ At(c, {"spawn"}, "admit")
    /\ IF Admits(caller[c].s, caller[c].name)
       THEN \E e \in Tasks \ Spawned :
              /\ \A other \in Tasks \ Spawned : e <= other
              /\ task' = [task EXCEPT ![e] =
                    [scope |-> caller[c].s, name |-> caller[c].name, mode |-> caller[c].mode,
                     run |-> "running", aborting |-> FALSE, guard |-> TRUE]]
              /\ registry' = registry \cup {e}
              /\ flags' = flags \cup {e}
              /\ count' = [count EXCEPT ![ClassOf[caller[c].s]] = @ + 1]
              /\ Become(c, [IdleCaller EXCEPT !.op = "hold", !.e = e])
       ELSE /\ Become(c, IdleCaller)
            /\ UNCHANGED <<task, registry, flags, count>>
    /\ UNCHANGED <<requested, token, closed, joined>>

\* TaskObservation::wait: the result, or its sender dropped, then the join.
Wait(c) ==
    /\ At(c, {"hold"}, "none")
    /\ task[caller[c].e].run # "running"
    /\ Become(c, [caller[c] EXCEPT !.op = "wait", !.stage = "observe"])
    /\ UNCHANGED <<requested, token, task, registry, flags, count, closed, joined>>

-----------------------------------------------------------------------------
(* cancel and cancel_and_join.                                             *)
CancelAndJoin(c, s) ==
    /\ caller[c] = IdleCaller
    /\ requested' = requested \cup {s}
    /\ Become(c, [IdleCaller EXCEPT !.op = "join", !.s = s, !.stage = "token"])
    /\ UNCHANGED <<token, task, registry, flags, count, closed, joined>>

CancelToken(c) ==
    /\ At(c, {"join"}, "token")
    /\ token' = token \cup {s \in Scopes : Under(s, caller[c].s)}
    /\ To(c, "flags")
    /\ UNCHANGED <<requested, task, registry, flags, count, closed, joined>>

\* The flags a cancellation sets: those of every indexed task below the scope.
Signals(s) == {task[e].scope : e \in {x \in flags : Under(task[x].scope, s)}}

\* cancel is over; without any cleanup reserve so is cancel_and_join.
CancelFlags(c) ==
    /\ At(c, {"join"}, "flags")
    /\ requested' = requested \cup Signals(caller[c].s)
    /\ closed' = closed \cup {caller[c].s}
    /\ \/ To(c, "snapshot")
       \/ Become(c, IdleCaller)
    /\ UNCHANGED <<token, task, registry, flags, count, joined>>

Snapshot(c) ==
    /\ At(c, {"join"}, "snapshot")
    /\ LET all == {e \in registry : Under(task[e].scope, caller[c].s)}
       IN  caller' = [caller EXCEPT ![c].stage = "join", ![c].todo = all, ![c].all = all]
    /\ UNCHANGED <<requested, token, task, registry, flags, count, closed, joined>>

\* The deadline passes while a task is awaited: async tasks are aborted.
Expire(c) ==
    /\ caller[c].op = "join" /\ ~caller[c].late /\ caller[c].stage \in {"observe", "unregister"}
    /\ task' = [e \in Tasks |->
          IF e \in caller[c].all /\ task[e].mode = "AbortableAsync" /\ Alive(e)
          THEN [task[e] EXCEPT !.aborting = TRUE] ELSE task[e]]
    /\ caller' = [caller EXCEPT ![c].late = TRUE, ![c].stage = "join", ![c].e = 0,
                                ![c].todo = caller[c].all]
    /\ UNCHANGED <<requested, token, registry, flags, count, closed, joined>>

\* Mutant: after the deadline every task of the scope is awaited.
AwaitedLateAll(e) == TRUE

\* After the deadline only what was aborted, or has ended, is awaited.
AwaitedLate(e) == task[e].mode = "AbortableAsync" \/ Finished(e)

PickLate(c) ==
    /\ At(c, {"join"}, "join") /\ caller[c].late
    /\ \E e \in caller[c].todo :
          caller' = [caller EXCEPT ![c].todo = @ \ {e},
                                   ![c].e = IF AwaitedLate(e) THEN e ELSE 0,
                                   ![c].stage = IF AwaitedLate(e) THEN "observe" ELSE "join"]
    /\ UNCHANGED <<requested, token, task, registry, flags, count, closed, joined>>

JoinReturns(c) ==
    /\ At(c, {"join"}, "join") /\ caller[c].todo = {}
    /\ joined' = IF caller[c].late THEN joined ELSE joined \cup {caller[c].s}
    /\ Become(c, IdleCaller)
    /\ UNCHANGED <<requested, token, task, registry, flags, count, closed>>

\* The future of a caller is dropped at an await; an observation that is
\* dropped leaves its task alone.
DropCaller(c) ==
    /\ \/ caller[c].op = "hold"
       \/ caller[c].stage \in {"observe", "unregister", "snapshot"}
    /\ Become(c, IdleCaller)
    /\ UNCHANGED <<requested, token, task, registry, flags, count, closed, joined>>

-----------------------------------------------------------------------------
(* The tasks themselves.                                                   *)
SendsResult(e) ==
    /\ task[e].run = "running"
    /\ task' = [task EXCEPT ![e].run = "sent"]
    /\ UNCHANGED <<requested, token, registry, flags, count, caller, closed, joined>>

Ends(e) ==
    /\ \/ task[e].run = "sent" /\ task' = [task EXCEPT ![e].run = "done"]
       \/ task[e].run = "running" /\ task' = [task EXCEPT ![e].run = "panicked"]
    /\ UNCHANGED <<requested, token, registry, flags, count, caller, closed, joined>>

AbortTakesEffect(e) ==
    /\ Alive(e) /\ task[e].aborting
    /\ task' = [task EXCEPT ![e].run = "aborted"]
    /\ UNCHANGED <<requested, token, registry, flags, count, caller, closed, joined>>

Proceeds(c) ==
    \/ Pick(c) \/ Observe(c) \/ Unregister(c) \/ Reaped(c) \/ Admit(c)
    \/ CancelToken(c) \/ CancelFlags(c) \/ Snapshot(c) \/ PickLate(c) \/ JoinReturns(c)

Next ==
    \/ \E c \in Callers :
          \/ Proceeds(c) \/ Expire(c) \/ DropCaller(c) \/ Wait(c)
          \/ c \in Joiners /\ \E s \in Scopes : CancelAndJoin(c, s)
          \/ /\ c \in Spawners /\ Spawned # Tasks
             /\ \E s \in Scopes, name \in Names, mode \in {"AbortableAsync", "Cooperative"} :
                   Spawn(c, s, name, mode)
    \/ \E e \in Tasks : SendsResult(e) \/ Ends(e) \/ AbortTakesEffect(e)

Spec == Init /\ [][Next]_vars

\* The executor polls every caller, deadlines pass, and an aborted task is
\* dropped when it is next polled. Nothing makes a cooperative task stop.
LiveSpec ==
    /\ Spec
    /\ \A c \in Callers : WF_vars(Proceeds(c)) /\ WF_vars(Expire(c))
    /\ \A e \in Tasks : WF_vars(AbortTakesEffect(e))

-----------------------------------------------------------------------------
(* Properties.                                                             *)

\* The shape of the registry and of its callers.
TypeOK ==
    /\ requested \subseteq Scopes /\ token \subseteq Scopes
    /\ closed \subseteq Scopes /\ joined \subseteq Scopes
    /\ registry \subseteq Spawned /\ flags \subseteq Spawned
    /\ count.Data \in 0..DataCapacity /\ count.Control \in 0..ControlCapacity
    /\ \A e \in Tasks :
          /\ task[e].mode \in {"none", "AbortableAsync", "Cooperative"}
          /\ task[e].run \in {"none", "running", "sent", "done", "panicked", "aborted"}
    /\ \A c \in Callers :
          /\ caller[c].op \in {"none", "spawn", "hold", "wait", "join"}
          /\ caller[c].todo \subseteq Tasks /\ caller[c].e \in Tasks \cup {0}

\* Each class counts exactly the tasks it owns, whichever of several racing
\* observers removed them and however often a name was used again; the index
\* of native flags has the same tasks, under distinct keys.
CapacityIsExact ==
    /\ \A k \in {"Data", "Control"} : count[k] = Cardinality({e \in registry : Class(e) = k})
    /\ flags = registry
    /\ \A e, o \in registry : SameKey(e, task[o].scope, task[o].name) => e = o

\* Work that has not ended is owned by the registry and keeps the resources it
\* was admitted with: a sent result, a dropped observer or an expired deadline
\* never stands for the end of the task (owned.rs:1 and :483-484).
WorkIsOwned ==
    \A e \in Tasks : Alive(e) => e \in registry /\ task[e].guard

\* Once cancel has returned, every task below the scope sees it in its own
\* flag, also one admitted while cancel ran (owned.rs:384-385).
CancelReachesEveryTask ==
    \A s \in closed, e \in Spawned :
        Under(task[e].scope, s) /\ Alive(e) => task[e].scope \in requested

\* A cancel_and_join that came back before its deadline left nothing behind,
\* and nothing is admitted below the scope ever after.
JoinedScopeStaysEmpty ==
    \A s \in joined, e \in Spawned : Under(task[e].scope, s) => ~Alive(e) /\ e \notin registry

\* Cancelling a scope never cancels a scope that is not below it.
CancellationStaysBelow ==
    \A s \in requested \cup token :
        \E t \in Ancestors(s) :
            t \in closed \/ \E c \in Callers : caller[c].op = "join" /\ caller[c].s = t

\* cancel_and_join comes back even from cooperative tasks that never stop.
CancelAndJoinReturns == \A c \in Callers : caller[c].op = "join" ~> caller[c].op # "join"

\* Running work is owned, counted and holds what it was admitted with.
WorkIsAccountedFor == TypeOK /\ CapacityIsExact /\ WorkIsOwned

\* Cancellation reaches everything below its scope, for good, and nothing else.
CancellationIsExact ==
    CancelReachesEveryTask /\ JoinedScopeStaysEmpty /\ CancellationStaysBelow
=============================================================================
