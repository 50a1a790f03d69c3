-------------------------- MODULE TaskScopesProofs --------------------------
(***************************************************************************)
(* The safety of the task registry and of its cancellation scopes, for     *)
(* every tree of scopes, every number of callers and tasks and every       *)
(* capacity.                                                               *)
(***************************************************************************)
EXTENDS TaskScopes, FiniteSetTheorems, TLAPS

Modes == {"none", "AbortableAsync", "Cooperative"}
Runs == {"none", "running", "sent", "done", "panicked", "aborted"}
TaskRecords == [scope : Scopes, name : Names, mode : Modes, run : Runs,
                aborting : BOOLEAN, guard : BOOLEAN]
CallerRecords ==
    [op : {"none", "spawn", "hold", "wait", "join"}, s : Scopes, name : Names, mode : Modes,
     stage : {"none", "reap", "observe", "unregister", "admit", "token", "flags", "snapshot", "join"},
     e : Tasks \cup {0}, todo : SUBSET Tasks, all : SUBSET Tasks,
     fail : BOOLEAN, late : BOOLEAN]

\* What the registry holds, and what it counts.
RegistryInv ==
    /\ task \in [Tasks -> TaskRecords]
    /\ count \in [{"Data", "Control"} -> Nat]
    /\ \A k \in {"Data", "Control"} : count[k] <= Capacity[k]
    /\ registry \subseteq Spawned
    /\ CapacityIsExact
    /\ WorkIsOwned

\* The scopes whose cancel has returned.
CancelInv ==
    /\ requested \subseteq Scopes /\ token \subseteq Scopes
    /\ closed \subseteq Scopes /\ joined \subseteq closed
    /\ \A s \in closed, t \in Scopes : Under(t, s) => t \in token
    /\ CancelReachesEveryTask
    /\ \A s \in joined, e \in registry : ~Under(task[e].scope, s)

\* What a caller relies on while it is between two awaits.
CallerOK(c) ==
    /\ caller[c].op \in {"hold", "wait"} \/ caller[c].stage \in {"observe", "unregister"}
       => caller[c].e \in Spawned
    /\ caller[c].stage = "unregister" => Finished(caller[c].e)
    /\ caller[c].todo \subseteq Spawned /\ caller[c].all \subseteq Spawned
    /\ caller[c].op = "spawn" => caller[c].mode # "none"
    /\ caller[c].op = "join" =>
          /\ caller[c].stage = "flags" =>
                \A t \in Scopes : Under(t, caller[c].s) => t \in token
          /\ caller[c].stage \notin {"token", "flags"} => caller[c].s \in closed
          /\ caller[c].stage \in {"join", "observe", "unregister"} /\ ~caller[c].late =>
                \A e \in registry : Under(task[e].scope, caller[c].s) =>
                    \/ e \in caller[c].todo
                    \/ e = caller[c].e /\ caller[c].stage # "join"

CallersInv ==
    /\ caller \in [Callers -> CallerRecords]
    /\ \A c \in Callers : CallerOK(c)

TaskInv == RegistryInv /\ CancelInv /\ CallersInv /\ CancellationStaysBelow

-----------------------------------------------------------------------------
(* Facts about the constants and the initial state.                        *)

\* Scope trees are at most three deep, and every scope is its own ancestor.
LEMMA AncestorFacts ==
    ASSUME NEW s \in Scopes
    PROVE  Ancestors(s) \subseteq Scopes /\ s \in Ancestors(s) /\ Under(s, s)
BY ScopeAssumption DEF Ancestors, Under

\* The idle records are typed.
LEMMA IdleFacts ==
    /\ NoTask \in TaskRecords /\ NoTask.run = "none"
    /\ IdleCaller \in CallerRecords
    /\ IdleCaller.op = "none" /\ IdleCaller.stage = "none"
    /\ IdleCaller.todo = {} /\ IdleCaller.all = {}
    /\ IdleCaller.fail = FALSE /\ IdleCaller.late = FALSE
<1>1. (CHOOSE s \in Scopes : TRUE) \in Scopes /\ (CHOOSE n \in Names : TRUE) \in Names
  BY ScopeAssumption
<1>2. NoTask \in TaskRecords /\ NoTask.run = "none"
  BY <1>1 DEF NoTask, TaskRecords, Modes, Runs
<1>3. IdleCaller \in CallerRecords
  BY <1>1 DEF IdleCaller, CallerRecords, Modes
<1> QED
  BY <1>2, <1>3 DEF IdleCaller

\* An idle caller relies on nothing.
LEMMA IdleIsOK ==
    ASSUME NEW c \in Callers, caller[c] = IdleCaller
    PROVE  CallerOK(c)
BY IdleFacts DEF CallerOK

\* The registry starts empty.
LEMMA TaskInit == Init => TaskInv
<1> SUFFICES ASSUME Init PROVE TaskInv
  OBVIOUS
<1>1. Spawned = {} /\ \A e \in Tasks : ~Alive(e)
  BY IdleFacts DEF Init, Spawned, Alive
<1>2. RegistryInv
  <2>1. \A k \in {"Data", "Control"} : Cardinality({e \in registry : Class(e) = k}) = 0
    BY FS_EmptySet DEF Init
  <2>2. /\ count \in [{"Data", "Control"} -> Nat]
        /\ \A k \in {"Data", "Control"} : count[k] = 0 /\ count[k] <= Capacity[k]
    BY ScopeAssumption DEF Init, Capacity
  <2>3. CapacityIsExact
    BY <2>1, <2>2 DEF CapacityIsExact, Init
  <2>4. WorkIsOwned
    BY <1>1 DEF WorkIsOwned
  <2> QED
    BY <2>2, <2>3, <2>4, IdleFacts DEF RegistryInv, Init
<1>3. CancelInv
  BY <1>1 DEF CancelInv, CancelReachesEveryTask, Init
<1>4. CallersInv
  BY IdleFacts, IdleIsOK DEF CallersInv, Init
<1>5. CancellationStaysBelow
  BY DEF CancellationStaysBelow, Init
<1> QED
  BY <1>2, <1>3, <1>4, <1>5 DEF TaskInv

-----------------------------------------------------------------------------
(* Steps of one caller.                                                    *)

\* What no step takes back, and what no step admits.
Keeps ==
    /\ token \subseteq token' /\ closed \subseteq closed'
    /\ \A e \in Spawned : /\ e \in Spawned' /\ task'[e].scope = task[e].scope
                          /\ Finished(e) => Finished(e)'
    /\ \A e \in registry' : e \in registry \/ \A s \in closed : ~Under(task'[e].scope, s)

\* A caller that does not move keeps what it relies on.
LEMMA OthersKept ==
    ASSUME RegistryInv, Keeps, NEW c \in Callers, CallerOK(c), caller'[c] = caller[c]
    PROVE  CallerOK(c)'
<1>1. registry \subseteq Spawned
  BY DEF RegistryInv
<1> QED
  BY <1>1 DEF CallerOK, Keeps

\* A step of one caller: the others are unaffected, and a scope that was being
\* cancelled still is, or its cancel has returned.
LEMMA CallerStep ==
    ASSUME TaskInv, Keeps, RegistryInv', CancelInv', NEW c \in Callers,
           caller' \in [Callers -> CallerRecords],
           \A d \in Callers \ {c} : caller'[d] = caller[d],
           CallerOK(c)',
           caller[c].op = "join" =>
               caller[c].s \in closed' \/ (caller'[c].op = "join" /\ caller'[c].s = caller[c].s),
           \A s \in (requested' \cup token') \ (requested \cup token) :
               \E t \in Ancestors(s) :
                   t \in closed' \/ (caller'[c].op = "join" /\ caller'[c].s = t)
    PROVE  TaskInv'
<1>1. \A d \in Callers : CallerOK(d)'
  BY OthersKept DEF TaskInv, CallersInv
<1>2. CallersInv'
  BY <1>1 DEF CallersInv
<1>3. ASSUME NEW s \in requested \cup token
      PROVE  \E t \in Ancestors(s) :
                t \in closed' \/ \E d \in Callers : caller'[d].op = "join" /\ caller'[d].s = t
  <2>1. PICK t \in Ancestors(s) :
            t \in closed \/ \E d \in Callers : caller[d].op = "join" /\ caller[d].s = t
    BY <1>3 DEF TaskInv, CancellationStaysBelow
  <2> QED
    BY <2>1 DEF Keeps
<1>4. CancellationStaysBelow'
  BY <1>3 DEF CancellationStaysBelow
<1> QED
  BY <1>2, <1>4 DEF TaskInv

\* A step that changes nothing but what one caller is doing.
LEMMA CallerOnly ==
    ASSUME TaskInv, NEW c \in Callers,
           UNCHANGED <<requested, token, task, registry, flags, count, closed, joined>>,
           caller' \in [Callers -> CallerRecords],
           \A d \in Callers \ {c} : caller'[d] = caller[d],
           CallerOK(c)',
           caller[c].op = "join" =>
               caller[c].s \in closed \/ (caller'[c].op = "join" /\ caller'[c].s = caller[c].s)
    PROVE  TaskInv'
<1>1. RegistryInv' /\ CancelInv'
  BY DEF TaskInv, RegistryInv, CancelInv, CapacityIsExact, WorkIsOwned, CancelReachesEveryTask,
         Spawned, Alive, Class, SameKey
<1>2. Keeps
  BY DEF Keeps, Spawned, Finished
<1> QED
  BY <1>1, <1>2, CallerStep

\* Steps that only move a caller along.
LEMMA CallerSteps ==
    ASSUME TaskInv, NEW c \in Callers,
           \/ Pick(c) \/ Reaped(c) \/ Wait(c) \/ Snapshot(c) \/ PickLate(c) \/ DropCaller(c)
           \/ \E s \in Scopes, name \in Names, mode \in {"AbortableAsync", "Cooperative"} :
                 Spawn(c, s, name, mode)
    PROVE  TaskInv'
<1>0. /\ caller \in [Callers -> CallerRecords] /\ caller[c] \in CallerRecords
      /\ CallerOK(c) /\ registry \subseteq Spawned /\ Spawned \subseteq Tasks
      /\ closed \subseteq Scopes
  BY DEF TaskInv, CallersInv, RegistryInv, CancelInv, Spawned
<1> SUFFICES ASSUME UNCHANGED <<requested, token, task, registry, flags, count, closed, joined>>
             PROVE  /\ caller' \in [Callers -> CallerRecords]
                    /\ \A d \in Callers \ {c} : caller'[d] = caller[d]
                    /\ CallerOK(c)'
                    /\ caller[c].op = "join" =>
                          \/ caller[c].s \in closed
                          \/ caller'[c].op = "join" /\ caller'[c].s = caller[c].s
  <2>1. UNCHANGED <<requested, token, task, registry, flags, count, closed, joined>>
    BY Zenon DEF Pick, Reaped, Wait, Snapshot, PickLate, DropCaller, Spawn
  <2> QED
    BY SMTT(40), Zenon, <2>1, CallerOnly
<1>1. CASE Pick(c)
  <2>1. PICK e \in caller[c].todo :
          caller' = [caller EXCEPT ![c] = [caller[c] EXCEPT !.e = e, !.todo = @ \ {e}, !.stage = "observe"]]
    BY Zenon, <1>1 DEF Pick
  <2>2. caller' \in [Callers -> CallerRecords]
    BY Zenon, <1>0, <2>1 DEF CallerRecords
  <2>3. /\ caller'[c].e = e /\ caller'[c].todo = caller[c].todo \ {e}
        /\ caller'[c].stage = "observe" /\ caller'[c].op = caller[c].op
        /\ caller'[c].s = caller[c].s /\ caller'[c].late = caller[c].late
        /\ caller'[c].all = caller[c].all /\ caller'[c].mode = caller[c].mode
    BY <1>0, <2>1 DEF CallerRecords
  <2>4. CallerOK(c)'
    BY ZenonT(40), <1>0, <1>1, <2>3 DEF CallerOK, Pick, At, Spawned, Finished
  <2> QED
    BY SMTT(40), Zenon, <1>0, <2>1, <2>2, <2>3, <2>4
<1>2. CASE Reaped(c)
  <2>1. \/ caller' = [caller EXCEPT ![c] = IdleCaller]
        \/ caller' = [caller EXCEPT ![c] = [caller[c] EXCEPT !.stage = "admit"]]
    BY <1>2 DEF Reaped, Become, To
  <2>2. CASE caller' = [caller EXCEPT ![c] = IdleCaller]
    BY <1>0, <1>2, <2>2, IdleFacts DEF Reaped, At, CallerOK
  <2>3. CASE caller' = [caller EXCEPT ![c] = [caller[c] EXCEPT !.stage = "admit"]]
    <3>1. caller' \in [Callers -> CallerRecords]
      BY <1>0, <2>3 DEF CallerRecords
    <3>2. /\ caller'[c].todo = caller[c].todo /\ caller'[c].all = caller[c].all
          /\ caller'[c].stage = "admit" /\ caller'[c].op = "spawn" /\ caller[c].op = "spawn"
          /\ caller'[c].mode = caller[c].mode
      BY <1>0, <1>2, <2>3 DEF CallerRecords, Reaped, At
    <3>3. CallerOK(c)'
      BY <1>0, <3>2 DEF CallerOK, Spawned
    <3> QED
      BY <1>0, <2>3, <3>1, <3>2, <3>3
  <2> QED
    BY <2>1, <2>2, <2>3
<1>3. CASE Wait(c)
  <2>1. caller' = [caller EXCEPT ![c] = [caller[c] EXCEPT !.op = "wait", !.stage = "observe"]]
    BY <1>3 DEF Wait, Become
  <2>2. caller' \in [Callers -> CallerRecords]
    BY Zenon, <1>0, <2>1 DEF CallerRecords
  <2>3. /\ caller'[c].todo = caller[c].todo /\ caller'[c].all = caller[c].all
        /\ caller'[c].stage = "observe" /\ caller'[c].op = "wait" /\ caller[c].op = "hold"
        /\ caller'[c].e = caller[c].e
    BY <1>0, <1>3, <2>1 DEF CallerRecords, Wait, At
  <2>4. CallerOK(c)'
    BY <1>0, <2>3 DEF CallerOK, Spawned
  <2> QED
    BY <1>0, <2>1, <2>2, <2>3, <2>4
<1>4. CASE Snapshot(c)
  <2> DEFINE all == {e \in registry : Under(task[e].scope, caller[c].s)}
  <2>1. caller' = [caller EXCEPT ![c] = [caller[c] EXCEPT !.stage = "join", !.todo = all, !.all = all]]
    BY Zenon, <1>4 DEF Snapshot
  <2>2. all \subseteq Spawned /\ all \subseteq Tasks
    BY SMTT(40), Zenon, <1>0
  <2>3. caller' \in [Callers -> CallerRecords]
    BY ZenonT(40), <1>0, <2>1, <2>2 DEF CallerRecords
  <2>4. caller[c].op = "join" /\ caller[c].stage = "snapshot"
    BY Zenon, <1>4 DEF Snapshot, At
  <2>5. \A e \in registry : Under(task[e].scope, caller[c].s) => e \in all
    OBVIOUS
  <2> HIDE DEF all
  <2>6. /\ caller'[c].todo = all /\ caller'[c].all = all /\ caller'[c].s = caller[c].s
        /\ caller'[c].stage = "join" /\ caller'[c].op = "join"
    BY Zenon, <1>0, <2>1, <2>4 DEF CallerRecords
  <2>7. CallerOK(c)'
    BY <1>0, <2>2, <2>4, <2>5, <2>6 DEF CallerOK, Spawned
  <2> QED
    BY <1>0, <2>1, <2>3, <2>4, <2>6, <2>7
<1>5. CASE PickLate(c)
  <2>1. PICK e \in caller[c].todo :
          caller' = [caller EXCEPT ![c] = [caller[c] EXCEPT
                        !.todo = @ \ {e},
                        !.e = IF AwaitedLate(e) THEN e ELSE 0,
                        !.stage = IF AwaitedLate(e) THEN "observe" ELSE "join"]]
    BY ZenonT(40), <1>5 DEF PickLate
  <2>2. caller' \in [Callers -> CallerRecords]
    BY Zenon, <1>0, <2>1 DEF CallerRecords
  <2>3. /\ caller'[c].todo = caller[c].todo \ {e} /\ caller'[c].all = caller[c].all
        /\ caller'[c].op = "join" /\ caller[c].op = "join" /\ caller'[c].s = caller[c].s
        /\ caller'[c].late = caller[c].late /\ caller[c].late /\ caller[c].stage = "join"
        /\ \/ caller'[c].stage = "observe" /\ caller'[c].e = e
           \/ caller'[c].stage = "join"
    BY Zenon, <1>0, <1>5, <2>1 DEF CallerRecords, PickLate, At
  <2>4. CallerOK(c)'
    BY <1>0, <2>3 DEF CallerOK, Spawned
  <2> QED
    BY SMTT(40), Zenon, <1>0, <2>1, <2>2, <2>3, <2>4
<1>6. CASE DropCaller(c)
  <2>1. caller' = [caller EXCEPT ![c] = IdleCaller]
    BY Zenon, <1>6 DEF DropCaller, Become
  <2>2. caller[c].op = "join" => caller[c].s \in closed
    BY <1>0, <1>6 DEF DropCaller, CallerOK
  <2> QED
    BY <1>0, <2>1, <2>2, IdleFacts DEF CallerOK
<1>7. ASSUME NEW s \in Scopes, NEW name \in Names, NEW mode \in {"AbortableAsync", "Cooperative"},
             Spawn(c, s, name, mode)
      PROVE  /\ caller' \in [Callers -> CallerRecords]
             /\ \A d \in Callers \ {c} : caller'[d] = caller[d]
             /\ CallerOK(c)' /\ caller[c].op # "join"
  <2> DEFINE todo == {e \in registry : Finished(e)}
             r == [IdleCaller EXCEPT !.op = "spawn", !.s = s, !.name = name, !.mode = mode,
                                     !.stage = "reap", !.todo = todo]
  <2>1. caller' = [caller EXCEPT ![c] = r] /\ caller[c] = IdleCaller
    BY Zenon, <1>7 DEF Spawn, Become
  <2>2. todo \subseteq Spawned /\ todo \subseteq Tasks
    BY SMTT(40), Zenon, <1>0
  <2>3. /\ r \in CallerRecords /\ r.op = "spawn" /\ r.stage = "reap" /\ r.todo = todo
        /\ r.all = {} /\ r.mode # "none"
    BY Zenon, <2>2, IdleFacts DEF CallerRecords, Modes
  <2>4. CallerOK(c)'
    BY <1>0, <2>1, <2>2, <2>3 DEF CallerOK, Spawned
  <2> QED
    BY SMTT(40), Zenon, <1>0, <2>1, <2>3, <2>4, IdleFacts
<1> QED
  BY <1>1, <1>2, <1>3, <1>4, <1>5, <1>6, <1>7

-----------------------------------------------------------------------------
(* Steps that cancel.                                                      *)

\* Cancellation leaves the registry alone.
LEMMA RegistryKept ==
    ASSUME RegistryInv, UNCHANGED <<task, registry, flags, count>>
    PROVE  RegistryInv'
BY DEF RegistryInv, CapacityIsExact, WorkIsOwned, Spawned, Alive, Class, SameKey

\* cancel_and_join sets the flag of its own scope first.
LEMMA CancelAndJoinStep ==
    ASSUME TaskInv, NEW c \in Callers, NEW s \in Scopes, CancelAndJoin(c, s)
    PROVE  TaskInv'
<1> DEFINE r == [IdleCaller EXCEPT !.op = "join", !.s = s, !.stage = "token"]
<1>1. /\ caller \in [Callers -> CallerRecords] /\ caller[c] = IdleCaller
      /\ caller' = [caller EXCEPT ![c] = r] /\ requested' = requested \cup {s}
      /\ UNCHANGED <<token, task, registry, flags, count, closed, joined>>
  BY DEF TaskInv, CallersInv, CancelAndJoin, Become
<1>2. /\ r \in CallerRecords /\ r.op = "join" /\ r.stage = "token" /\ r.s = s
      /\ r.todo = {} /\ r.all = {}
  BY Zenon, IdleFacts DEF CallerRecords
<1> HIDE DEF r
<1>3. caller' \in [Callers -> CallerRecords] /\ caller'[c] = r
  BY <1>1, <1>2
<1>4. CallerOK(c)'
  BY <1>2, <1>3 DEF CallerOK
<1>5. RegistryInv'
  BY <1>1, RegistryKept DEF TaskInv
<1>6. CancelInv'
  BY <1>1 DEF TaskInv, CancelInv, CancelReachesEveryTask, Spawned, Alive
<1>7. Keeps
  BY <1>1 DEF Keeps, Spawned, Finished
<1>8. \A t \in (requested' \cup token') \ (requested \cup token) :
         t = s /\ s \in Ancestors(t) /\ caller'[c].op = "join" /\ caller'[c].s = s
  BY <1>1, <1>2, <1>3, AncestorFacts
<1>9. caller[c].op # "join"
  BY <1>1, IdleFacts
<1> QED
  BY <1>1, <1>3, <1>4, <1>5, <1>6, <1>7, <1>8, <1>9, CallerStep

\* The token carries the cancellation to every scope below.
LEMMA CancelTokenStep ==
    ASSUME TaskInv, NEW c \in Callers, CancelToken(c)
    PROVE  TaskInv'
<1> DEFINE r == [caller[c] EXCEPT !.stage = "flags"]
<1>1. /\ caller \in [Callers -> CallerRecords] /\ caller[c] \in CallerRecords /\ CallerOK(c)
      /\ caller[c].op = "join"
      /\ caller' = [caller EXCEPT ![c] = r]
      /\ token' = token \cup {s \in Scopes : Under(s, caller[c].s)}
      /\ UNCHANGED <<requested, task, registry, flags, count, closed, joined>>
  BY DEF TaskInv, CallersInv, CancelToken, At, To
<1>2. /\ r \in CallerRecords /\ r.op = "join" /\ r.stage = "flags" /\ r.s = caller[c].s
      /\ r.todo = caller[c].todo /\ r.all = caller[c].all
  BY <1>1 DEF CallerRecords
<1> HIDE DEF r
<1>3. caller' \in [Callers -> CallerRecords] /\ caller'[c] = r
  BY <1>1, <1>2
<1>4. CallerOK(c)'
  BY <1>1, <1>2, <1>3 DEF CallerOK, Spawned
<1>5. RegistryInv'
  BY <1>1, RegistryKept DEF TaskInv
<1>6. CancelInv'
  BY <1>1 DEF TaskInv, CancelInv, CancelReachesEveryTask, Spawned, Alive
<1>7. Keeps
  BY <1>1 DEF Keeps, Spawned, Finished
<1>8. \A t \in (requested' \cup token') \ (requested \cup token) :
         caller[c].s \in Ancestors(t) /\ caller'[c].op = "join" /\ caller'[c].s = caller[c].s
  BY <1>1, <1>2, <1>3 DEF Under
<1> QED
  BY <1>1, <1>2, <1>3, <1>4, <1>5, <1>6, <1>7, <1>8, CallerStep

\* cancel returns: every task that is alive below the scope is in the index of
\* flags, because the registry owns it.
LEMMA CancelFlagsStep ==
    ASSUME TaskInv, NEW c \in Callers, CancelFlags(c)
    PROVE  TaskInv'
<1> DEFINE s == caller[c].s
<1>1. /\ caller \in [Callers -> CallerRecords] /\ caller[c] \in CallerRecords /\ CallerOK(c)
      /\ caller[c].op = "join" /\ caller[c].stage = "flags"
      /\ requested' = requested \cup Signals(s) /\ closed' = closed \cup {s}
      /\ UNCHANGED <<token, task, registry, flags, count, joined>>
  BY DEF TaskInv, CallersInv, CancelFlags, At
<1>2. s \in Scopes /\ \A t \in Scopes : Under(t, s) => t \in token
  BY <1>1 DEF CallerOK, CallerRecords
<1>3. PICK r : caller' = [caller EXCEPT ![c] = r]
             /\ (r = [caller[c] EXCEPT !.stage = "snapshot"] \/ r = IdleCaller)
  BY DEF CancelFlags, To, Become
<1>4. /\ r \in CallerRecords /\ r.todo \subseteq Spawned /\ r.all \subseteq Spawned
      /\ \/ r.op = "join" /\ r.stage = "snapshot" /\ r.s = s
         \/ r.op = "none" /\ r.stage = "none"
  BY <1>1, <1>3, IdleFacts DEF CallerRecords, CallerOK
<1>5. caller' \in [Callers -> CallerRecords] /\ caller'[c] = r
  BY <1>1, <1>3, <1>4
<1>6. CallerOK(c)'
  BY <1>1, <1>4, <1>5 DEF CallerOK, Spawned
<1>7. RegistryInv'
  BY <1>1, RegistryKept DEF TaskInv
<1>8. \A t \in Signals(s) : t \in Scopes /\ Under(t, s)
  BY DEF Signals, TaskInv, RegistryInv, CapacityIsExact, Spawned, TaskRecords
<1>9. ASSUME NEW e \in Spawned, Alive(e), Under(task[e].scope, s)
      PROVE  task[e].scope \in Signals(s)
  <2>1. e \in flags
    BY <1>9 DEF TaskInv, RegistryInv, CapacityIsExact, WorkIsOwned, Spawned
  <2> QED
    BY <1>9, <2>1 DEF Signals
<1>10. CancelInv'
  <2>1. CancelReachesEveryTask'
    BY <1>1, <1>9 DEF TaskInv, CancelInv, CancelReachesEveryTask, Spawned, Alive
  <2> QED
    BY <1>1, <1>2, <1>8, <2>1 DEF TaskInv, CancelInv
<1>11. Keeps
  BY <1>1 DEF Keeps, Spawned, Finished
<1>12. \A t \in (requested' \cup token') \ (requested \cup token) : s \in Ancestors(t) /\ s \in closed'
  BY <1>1, <1>8 DEF Under
<1>13. s \in closed' /\ \A d \in Callers \ {c} : caller'[d] = caller[d]
  BY <1>1, <1>3
<1> HIDE DEF s
<1> QED
  BY <1>5, <1>6, <1>7, <1>10, <1>11, <1>12, <1>13, CallerStep DEF s

\* A join that returns in time has seen every task below its scope go.
LEMMA JoinReturnsStep ==
    ASSUME TaskInv, NEW c \in Callers, JoinReturns(c)
    PROVE  TaskInv'
<1>1. /\ caller \in [Callers -> CallerRecords] /\ caller[c] \in CallerRecords /\ CallerOK(c)
      /\ caller[c].op = "join" /\ caller[c].stage = "join" /\ caller[c].todo = {}
      /\ joined' = IF caller[c].late THEN joined ELSE joined \cup {caller[c].s}
      /\ caller' = [caller EXCEPT ![c] = IdleCaller]
      /\ UNCHANGED <<requested, token, task, registry, flags, count, closed>>
  BY DEF TaskInv, CallersInv, JoinReturns, At, Become
<1>2. /\ caller[c].s \in closed
      /\ ~caller[c].late => \A e \in registry : ~Under(task[e].scope, caller[c].s)
  BY <1>1 DEF CallerOK
<1>3. CancelInv'
  <2>1. joined' \subseteq closed /\ \A s \in joined', e \in registry : ~Under(task[e].scope, s)
    BY <1>1, <1>2 DEF TaskInv, CancelInv
  <2> QED
    BY <1>1, <2>1 DEF TaskInv, CancelInv, CancelReachesEveryTask, Spawned, Alive
<1>4. RegistryInv'
  BY <1>1, RegistryKept DEF TaskInv
<1>5. Keeps
  BY <1>1 DEF Keeps, Spawned, Finished
<1>6. caller' \in [Callers -> CallerRecords] /\ CallerOK(c)'
  BY <1>1, IdleFacts DEF CallerOK
<1> QED
  BY <1>1, <1>2, <1>3, <1>4, <1>5, <1>6, CallerStep

-----------------------------------------------------------------------------
(* Steps of the tasks.                                                     *)

\* A task that is only followed: it keeps its key, does not come back, and
\* holds its resources while it is alive.
Evolves ==
    /\ task' \in [Tasks -> TaskRecords]
    /\ \A e \in Tasks :
          /\ task'[e].scope = task[e].scope /\ task'[e].name = task[e].name
          /\ task'[e].run = "none" <=> task[e].run = "none"
          /\ Finished(e) => Finished(e)'
          /\ Alive(e)' => Alive(e) /\ task'[e].guard = task[e].guard

\* Tasks that evolve disturb neither the registry nor a cancellation.
LEMMA EvolutionKeeps ==
    ASSUME TaskInv, Evolves, UNCHANGED <<requested, token, registry, flags, count, closed, joined>>
    PROVE  RegistryInv' /\ CancelInv' /\ Keeps
<1>1. Spawned' = Spawned /\ registry \subseteq Tasks
  BY DEF Evolves, Spawned, TaskInv, RegistryInv
<1>2. \A e \in registry : Class(e)' = Class(e)
  BY <1>1 DEF Class, Evolves
<1>3. \A k : {e \in registry' : Class(e)' = k} = {e \in registry : Class(e) = k}
  BY <1>2
<1>4. CapacityIsExact'
  <2>1. \A k \in {"Data", "Control"} : count'[k] = Cardinality({e \in registry' : Class(e)' = k})
    BY Zenon, <1>3 DEF TaskInv, RegistryInv, CapacityIsExact
  <2> QED
    BY <1>1, <2>1 DEF TaskInv, RegistryInv, CapacityIsExact, SameKey, Evolves
<1>5. WorkIsOwned'
  BY DEF TaskInv, RegistryInv, WorkIsOwned, Evolves
<1>6. RegistryInv'
  BY <1>1, <1>4, <1>5 DEF TaskInv, RegistryInv, Evolves
<1>7. CancelInv'
  BY <1>1 DEF TaskInv, CancelInv, CancelReachesEveryTask, Evolves, Spawned
<1>8. Keeps
  BY <1>1 DEF Keeps, Evolves, Spawned
<1> QED
  BY <1>6, <1>7, <1>8

\* A task sends its result, ends, panics, or is aborted.
LEMMA TaskSteps ==
    ASSUME TaskInv, NEW e \in Tasks, SendsResult(e) \/ Ends(e) \/ AbortTakesEffect(e)
    PROVE  TaskInv'
<1>1. /\ task \in [Tasks -> TaskRecords] /\ task[e] \in TaskRecords
      /\ UNCHANGED <<requested, token, registry, flags, count, caller, closed, joined>>
  BY DEF TaskInv, RegistryInv, SendsResult, Ends, AbortTakesEffect
<1>2. PICK run \in {"sent", "done", "panicked", "aborted"} :
         /\ task' = [task EXCEPT ![e] = [task[e] EXCEPT !.run = run]]
         /\ Alive(e)
  BY DEF SendsResult, Ends, AbortTakesEffect, Alive
<1>3. /\ task'[e] \in TaskRecords /\ task'[e].run = run /\ task'[e].guard = task[e].guard
      /\ task'[e].scope = task[e].scope /\ task'[e].name = task[e].name
  BY <1>1, <1>2 DEF TaskRecords, Runs
<1>4. Evolves
  BY <1>1, <1>2, <1>3 DEF Evolves, Finished, Alive
<1>5. RegistryInv' /\ CancelInv' /\ Keeps
  BY <1>1, <1>4, EvolutionKeeps
<1>6. CallersInv'
  BY <1>1, <1>5, OthersKept DEF TaskInv, CallersInv
<1>7. CancellationStaysBelow'
  BY <1>1 DEF TaskInv, CancellationStaysBelow
<1> QED
  BY <1>5, <1>6, <1>7 DEF TaskInv

\* An observer drops the guard of a task that has ended.
LEMMA ObserveStep ==
    ASSUME TaskInv, NEW c \in Callers, Observe(c)
    PROVE  TaskInv'
<1> DEFINE r == [caller[c] EXCEPT !.stage = "unregister"]
<1>0. PICK e : e = caller[c].e
  OBVIOUS
<1>1. /\ caller \in [Callers -> CallerRecords] /\ caller[c] \in CallerRecords /\ CallerOK(c)
      /\ caller[c].stage = "observe" /\ Finished(e)
      /\ task \in [Tasks -> TaskRecords]
      /\ task' = [task EXCEPT ![e] = [task[e] EXCEPT !.guard = FALSE]]
      /\ caller' = [caller EXCEPT ![c] = r]
      /\ UNCHANGED <<requested, token, registry, flags, count, closed, joined>>
  BY <1>0 DEF TaskInv, CallersInv, RegistryInv, Observe, Observable, At, To
<1>2. e \in Tasks /\ e \in Spawned /\ task[e] \in TaskRecords
  BY <1>0, <1>1 DEF CallerOK, Spawned
<1>3. /\ task'[e] \in TaskRecords /\ task'[e].run = task[e].run
      /\ task'[e].scope = task[e].scope /\ task'[e].name = task[e].name
  BY Zenon, <1>1, <1>2 DEF TaskRecords
<1>4. Evolves
  BY Zenon, <1>1, <1>2, <1>3 DEF Evolves, Finished, Alive
<1>5. RegistryInv' /\ CancelInv' /\ Keeps
  BY <1>1, <1>4, EvolutionKeeps
<1>6. /\ r \in CallerRecords /\ r.op = caller[c].op /\ r.stage = "unregister" /\ r.s = caller[c].s
      /\ r.todo = caller[c].todo /\ r.all = caller[c].all /\ r.late = caller[c].late
      /\ r.e = e /\ r.mode = caller[c].mode
  BY <1>0, <1>1 DEF CallerRecords
<1> HIDE DEF r
<1>7. caller' \in [Callers -> CallerRecords] /\ caller'[c] = r
  BY <1>1, <1>6
<1>8. registry \subseteq Tasks /\ Spawned' = Spawned /\ Finished(e)'
  BY Zenon, <1>1, <1>2, <1>4 DEF Evolves, Spawned, TaskInv, RegistryInv
<1>9. CallerOK(c)'
  BY <1>0, <1>1, <1>2, <1>4, <1>6, <1>7, <1>8 DEF CallerOK, Evolves
<1> QED
  BY <1>1, <1>5, <1>6, <1>7, <1>9, CallerStep

\* At the deadline of a join, its abortable tasks are told to abort.
LEMMA ExpireStep ==
    ASSUME TaskInv, NEW c \in Callers, Expire(c)
    PROVE  TaskInv'
<1> DEFINE r == [caller[c] EXCEPT !.late = TRUE, !.stage = "join", !.e = 0, !.todo = caller[c].all]
           aborts(e) == e \in caller[c].all /\ task[e].mode = "AbortableAsync" /\ Alive(e)
<1>1. /\ caller \in [Callers -> CallerRecords] /\ caller[c] \in CallerRecords /\ CallerOK(c)
      /\ caller[c].op = "join" /\ caller[c].stage \in {"observe", "unregister"}
      /\ task \in [Tasks -> TaskRecords]
      /\ task' = [e \in Tasks |-> IF aborts(e) THEN [task[e] EXCEPT !.aborting = TRUE] ELSE task[e]]
      /\ caller' = [caller EXCEPT ![c] = r]
      /\ UNCHANGED <<requested, token, registry, flags, count, closed, joined>>
  BY Zenon DEF TaskInv, CallersInv, RegistryInv, Expire
<1>2. ASSUME NEW e \in Tasks
      PROVE  /\ task'[e] \in TaskRecords /\ task'[e].run = task[e].run
             /\ task'[e].guard = task[e].guard
             /\ task'[e].scope = task[e].scope /\ task'[e].name = task[e].name
  <2>1. task[e] \in TaskRecords
    BY <1>1
  <2>2. task'[e] = task[e] \/ task'[e] = [task[e] EXCEPT !.aborting = TRUE]
    BY <1>1
  <2> QED
    BY Zenon, <2>1, <2>2 DEF TaskRecords
<1> HIDE DEF aborts
<1>3. Evolves
  BY <1>1, <1>2 DEF Evolves, Finished, Alive
<1>4. RegistryInv' /\ CancelInv' /\ Keeps
  BY <1>1, <1>3, EvolutionKeeps
<1>5. /\ r \in CallerRecords /\ r.op = "join" /\ r.stage = "join" /\ r.s = caller[c].s
      /\ r.todo = caller[c].all /\ r.all = caller[c].all /\ r.late
  BY Zenon, <1>1 DEF CallerRecords
<1> HIDE DEF r
<1>6. caller' \in [Callers -> CallerRecords] /\ caller'[c] = r
  BY <1>1, <1>5
<1>7. Spawned' = Spawned
  BY <1>3 DEF Evolves, Spawned
<1>8. CallerOK(c)'
  BY <1>1, <1>5, <1>6, <1>7 DEF CallerOK
<1> QED
  BY <1>1, <1>4, <1>5, <1>6, <1>8, CallerStep

-----------------------------------------------------------------------------
(* Steps that change the registry.                                         *)

\* The last observer of a task that has ended removes its entry, once.
LEMMA UnregisterStep ==
    ASSUME TaskInv, NEW c \in Callers, Unregister(c)
    PROVE  TaskInv'
<1> DEFINE s == IF caller[c].op = "wait" THEN IdleCaller
                ELSE [caller[c] EXCEPT !.stage = IF caller[c].op = "spawn" THEN "reap" ELSE "join",
                                       !.e = 0, !.fail = caller[c].fail \/ task[caller[c].e].run # "done"]
<1>a. caller' = [caller EXCEPT ![c] = s]
  BY DEF Unregister
<1>0. PICK e, r : e = caller[c].e /\ r = s
  OBVIOUS
<1>1. /\ caller \in [Callers -> CallerRecords] /\ caller[c] \in CallerRecords /\ CallerOK(c)
      /\ caller[c].op \in {"spawn", "join", "wait"} /\ caller[c].stage = "unregister"
      /\ registry' = registry \ Registered(e) /\ flags' = flags \ Registered(e)
      /\ count' = IF Registered(e) = {} THEN count ELSE [count EXCEPT ![Class(e)] = @ - 1]
      /\ UNCHANGED <<requested, token, task, closed, joined>>
  BY <1>0 DEF TaskInv, CallersInv, Unregister, At
<1>2. e \in Spawned /\ e \in Tasks /\ Finished(e) /\ registry' = registry \ {e}
  BY <1>0, <1>1 DEF CallerOK, Spawned, Registered
<1>3. /\ task \in [Tasks -> TaskRecords] /\ count \in [{"Data", "Control"} -> Nat]
      /\ \A k \in {"Data", "Control"} : count[k] <= Capacity[k]
      /\ registry \subseteq Spawned /\ CapacityIsExact /\ WorkIsOwned
      /\ Capacity \in [{"Data", "Control"} -> Nat]
  BY ScopeAssumption DEF TaskInv, RegistryInv, Capacity
<1>4. Class(e) \in {"Data", "Control"}
  BY <1>2, <1>3, ScopeAssumption DEF Class, TaskRecords
<1> DEFINE Owned(k) == {x \in registry : Class(x) = k}
<1>5. ASSUME NEW k \in {"Data", "Control"}
      PROVE  /\ count'[k] \in Nat /\ count'[k] <= Capacity[k]
             /\ count'[k] = Cardinality({x \in registry' : Class(x) = k})
  <2>1. IsFiniteSet(Owned(k)) /\ count[k] = Cardinality(Owned(k))
    <3>1. Owned(k) \subseteq Tasks
      BY <1>3 DEF Spawned
    <3> QED
      BY Zenon, <1>3, <3>1, FS_Subset, ScopeAssumption DEF CapacityIsExact
  <2>2. CASE e \notin registry
    <3>1. count' = count /\ registry' = registry
      BY <1>1, <1>2, <2>2 DEF Registered
    <3> QED
      BY <1>3, <2>1, <3>1
  <2>3. CASE e \in registry /\ k = Class(e)
    <3>1. /\ {x \in registry' : Class(x) = k} = Owned(k) \ {e} /\ e \in Owned(k)
          /\ count'[k] = count[k] - 1
      BY <1>1, <1>2, <1>3, <1>4, <2>3 DEF Registered
    <3>2. Cardinality(Owned(k) \ {e}) = Cardinality(Owned(k)) - 1 /\ Cardinality(Owned(k) \ {e}) \in Nat
      BY Zenon, <2>1, <3>1, FS_RemoveElement, FS_CardinalityType
    <3>3. count[k] \in Nat /\ Capacity[k] \in Nat /\ count[k] <= Capacity[k]
      BY <1>3
    <3> HIDE DEF Owned
    <3>4. Cardinality({x \in registry' : Class(x) = k}) = Cardinality(Owned(k) \ {e})
      BY <3>1
    <3>5. count'[k] \in Nat /\ count'[k] <= Capacity[k] /\ count'[k] = Cardinality(Owned(k) \ {e})
      BY <2>1, <3>1, <3>2, <3>3
    <3> QED
      BY <3>4, <3>5
  <2>4. CASE e \in registry /\ k # Class(e)
    <3>1. {x \in registry' : Class(x) = k} = Owned(k) /\ count'[k] = count[k]
      BY <1>1, <1>2, <1>3, <1>4, <2>4 DEF Registered
    <3> QED
      BY <1>3, <2>1, <3>1
  <2> QED
    BY <2>2, <2>3, <2>4
<1>6. RegistryInv'
  <2>1. count' \in [{"Data", "Control"} -> Nat]
    <3>1. DOMAIN count' = {"Data", "Control"} /\ count' = [k \in {"Data", "Control"} |-> count'[k]]
      BY Zenon, <1>1, <1>3, <1>4
    <3> QED
      BY <1>5, <3>1
  <2>2. CapacityIsExact'
    <3>1. \A k \in {"Data", "Control"} : count'[k] = Cardinality({x \in registry' : Class(x)' = k})
      BY Zenon, <1>1, <1>5 DEF Class
    <3> QED
      BY <1>1, <1>3, <3>1 DEF CapacityIsExact, SameKey
  <2>3. WorkIsOwned'
    BY <1>1, <1>2, <1>3 DEF WorkIsOwned, Alive, Finished
  <2> QED
    BY <1>1, <1>2, <1>3, <1>5, <2>1, <2>2, <2>3 DEF RegistryInv, Spawned
<1>7. CancelInv'
  BY <1>1 DEF TaskInv, CancelInv, CancelReachesEveryTask, Spawned, Alive
<1>8. Keeps
  BY <1>1 DEF Keeps, Spawned, Finished
<1>9. /\ r \in CallerRecords
      /\ \/ r = IdleCaller /\ caller[c].op = "wait"
         \/ /\ r.op = caller[c].op /\ r.s = caller[c].s /\ r.todo = caller[c].todo
            /\ r.all = caller[c].all /\ r.late = caller[c].late /\ r.mode = caller[c].mode
            /\ r.stage \in {"reap", "join"} /\ caller[c].op # "wait"
  BY ZenonT(40), <1>0, <1>1, IdleFacts DEF CallerRecords
<1>10. caller' \in [Callers -> CallerRecords] /\ caller'[c] = r
  BY <1>0, <1>1, <1>9, <1>a
<1>11. CallerOK(c)'
  <2>1. CASE r = IdleCaller
    BY <1>10, <2>1, IdleFacts DEF CallerOK
  <2>2. CASE r # IdleCaller
    BY <1>0, <1>1, <1>2, <1>9, <1>10, <2>2 DEF CallerOK, Spawned
  <2> QED
    BY <2>1, <2>2
<1>12. caller[c].op = "join" => caller'[c].op = "join" /\ caller'[c].s = caller[c].s
  BY <1>9, <1>10
<1> QED
  BY <1>0, <1>1, <1>a, <1>6, <1>7, <1>8, <1>10, <1>11, <1>12, CallerStep

\* A task is admitted only below scopes that no cancel has returned for, under
\* a free key and within the capacity of its class.
LEMMA AdmitStep ==
    ASSUME TaskInv, NEW c \in Callers, Admit(c)
    PROVE  TaskInv'
<1>1. /\ caller \in [Callers -> CallerRecords] /\ caller[c] \in CallerRecords /\ CallerOK(c)
      /\ caller[c].op = "spawn" /\ caller[c].stage = "admit" /\ caller[c].s \in Scopes
      /\ UNCHANGED <<requested, token, closed, joined>>
  BY Zenon DEF TaskInv, CallersInv, Admit, At, CallerRecords
<1>2. CASE ~Admits(caller[c].s, caller[c].name)
  <2>1. caller' = [caller EXCEPT ![c] = IdleCaller] /\ UNCHANGED <<task, registry, flags, count>>
    BY ZenonT(40), <1>2 DEF Admit, Become
  <2>2. caller' \in [Callers -> CallerRecords] /\ CallerOK(c)'
    BY <1>1, <2>1, IdleFacts DEF CallerOK
  <2> QED
    BY <1>1, <2>1, <2>2, CallerOnly
<1>3. CASE Admits(caller[c].s, caller[c].name)
  <2>1. PICK e \in Tasks \ Spawned :
          /\ task' = [task EXCEPT ![e] =
                [scope |-> caller[c].s, name |-> caller[c].name, mode |-> caller[c].mode,
                 run |-> "running", aborting |-> FALSE, guard |-> TRUE]]
          /\ registry' = registry \cup {e} /\ flags' = flags \cup {e}
          /\ count' = [count EXCEPT ![ClassOf[caller[c].s]] = @ + 1]
          /\ caller' = [caller EXCEPT ![c] = [IdleCaller EXCEPT !.op = "hold", !.e = e]]
    BY Zenon, <1>3 DEF Admit, Become
  <2>2. PICK s, name, h : /\ s = caller[c].s /\ name = caller[c].name
                          /\ h = [IdleCaller EXCEPT !.op = "hold", !.e = e]
    OBVIOUS
  <2>3. /\ task \in [Tasks -> TaskRecords] /\ count \in [{"Data", "Control"} -> Nat]
        /\ \A k \in {"Data", "Control"} : count[k] <= Capacity[k]
        /\ registry \subseteq Spawned /\ Spawned \subseteq Tasks
        /\ CapacityIsExact /\ WorkIsOwned /\ flags = registry
        /\ Capacity \in [{"Data", "Control"} -> Nat]
    <3>1. Spawned \subseteq Tasks /\ Capacity \in [{"Data", "Control"} -> Nat]
      BY ScopeAssumption DEF Capacity, Spawned
    <3>2. CapacityIsExact
      BY DEF TaskInv, RegistryInv
    <3> QED
      BY <3>1, <3>2 DEF TaskInv, RegistryInv, CapacityIsExact
  <2>4. /\ ~IsCancelled(s) /\ \A o \in registry : ~SameKey(o, s, name)
        /\ ClassOf[s] \in {"Data", "Control"} /\ count[ClassOf[s]] < Capacity[ClassOf[s]]
    BY <1>1, <1>3, <2>2, ScopeAssumption DEF Admits
  <2>5. /\ task' \in [Tasks -> TaskRecords]
        /\ task'[e].scope = s /\ task'[e].name = name /\ task'[e].run = "running" /\ task'[e].guard
        /\ \A o \in Tasks \ {e} : task'[o] = task[o]
    BY <1>1, <2>1, <2>2, <2>3 DEF TaskRecords, CallerRecords, Modes, Runs
  <2>6. e \notin registry /\ e \notin Spawned /\ Spawned' = Spawned \cup {e}
    BY <2>1, <2>3, <2>5 DEF Spawned
  <2>7. \A t \in closed : ~Under(s, t)
    BY <1>1, <2>2, <2>4 DEF TaskInv, CancelInv, IsCancelled
  <2>8. Class(e)' = ClassOf[s] /\ \A o \in registry : Class(o)' = Class(o)
    BY <2>3, <2>5, <2>6 DEF Class
  <2> DEFINE Owned(k) == {x \in registry : Class(x) = k}
             Owns(k) == {x \in registry' : Class(x)' = k}
  <2>9. ASSUME NEW k \in {"Data", "Control"}
        PROVE  count'[k] \in Nat /\ count'[k] <= Capacity[k] /\ count'[k] = Cardinality(Owns(k))
    <3>1. /\ IsFiniteSet(Owned(k)) /\ count[k] = Cardinality(Owned(k)) /\ e \notin Owned(k)
          /\ count[k] \in Nat /\ Capacity[k] \in Nat /\ count[k] <= Capacity[k]
      <4>1. Owned(k) \subseteq Tasks
        BY <2>3
      <4> QED
        BY Zenon, <2>3, <2>6, <4>1, FS_Subset, ScopeAssumption DEF CapacityIsExact
    <3>2. CASE k = ClassOf[s]
      <4>1. Owns(k) = Owned(k) \cup {e}
        BY <2>1, <2>8, <3>2
      <4>2. count'[k] = count[k] + 1 /\ count[k] < Capacity[k]
        BY <2>1, <2>2, <2>3, <2>4, <3>2
      <4> HIDE DEF Owned, Owns
      <4>3. Cardinality(Owned(k) \cup {e}) = Cardinality(Owned(k)) + 1
        BY Zenon, <3>1, FS_AddElement
      <4> QED
        BY <3>1, <4>1, <4>2, <4>3
    <3>3. CASE k # ClassOf[s]
      <4>1. Owns(k) = Owned(k)
        BY <2>1, <2>8, <3>3
      <4>2. count'[k] = count[k]
        BY <2>1, <2>2, <2>3, <2>4, <3>3
      <4> HIDE DEF Owned, Owns
      <4> QED
        BY <3>1, <4>1, <4>2
    <3> QED
      BY <3>2, <3>3
  <2>10. RegistryInv'
    <3>1. count' \in [{"Data", "Control"} -> Nat]
      <4>1. count' = [k \in {"Data", "Control"} |-> count'[k]]
        BY Zenon, <2>1, <2>2, <2>3, <2>4
      <4> QED
        BY <2>9, <4>1
    <3>2. \A x, o \in registry' : SameKey(x, task[o].scope, task[o].name)' => x = o
      BY <2>1, <2>3, <2>4, <2>5, <2>6 DEF CapacityIsExact, SameKey
    <3>3. CapacityIsExact'
      BY <2>1, <2>3, <2>9, <3>2 DEF CapacityIsExact
    <3>4. WorkIsOwned'
      BY <2>1, <2>3, <2>5 DEF WorkIsOwned, Alive
    <3> QED
      BY <2>1, <2>3, <2>5, <2>6, <2>9, <3>1, <3>3, <3>4 DEF RegistryInv, Capacity
  <2>11. CancelInv'
    <3>1. CancelReachesEveryTask'
      BY <1>1, <2>3, <2>5, <2>6, <2>7 DEF TaskInv, CancelInv, CancelReachesEveryTask, Alive
    <3>2. \A t \in joined, x \in registry' : ~Under(task'[x].scope, t)
      BY <2>1, <2>3, <2>5, <2>6, <2>7 DEF TaskInv, CancelInv
    <3> QED
      BY Zenon, <1>1, <3>1, <3>2 DEF TaskInv, CancelInv
  <2>12. Keeps
    BY <1>1, <2>1, <2>3, <2>5, <2>6, <2>7 DEF Keeps, Finished
  <2>13. /\ h \in CallerRecords /\ h.op = "hold" /\ h.stage = "none" /\ h.e = e
         /\ h.todo = {} /\ h.all = {}
    BY Zenon, <2>1, <2>2, IdleFacts DEF CallerRecords
  <2>14. caller' \in [Callers -> CallerRecords] /\ caller'[c] = h
    BY <1>1, <2>1, <2>2, <2>13
  <2>15. CallerOK(c)'
    BY <2>6, <2>13, <2>14 DEF CallerOK
  <2> QED
    BY SMTT(40), Zenon, <1>1, <2>1, <2>10, <2>11, <2>12, <2>14, <2>15, CallerStep
<1> QED
  BY <1>2, <1>3

-----------------------------------------------------------------------------
(* The theorems.                                                           *)

\* Every step keeps the invariant.
LEMMA TaskStep == TaskInv /\ [Next]_vars => TaskInv'
<1> SUFFICES ASSUME TaskInv, [Next]_vars PROVE TaskInv'
  OBVIOUS
<1>1. ASSUME NEW c \in Callers, Proceeds(c) \/ Expire(c) \/ DropCaller(c) \/ Wait(c)
      PROVE  TaskInv'
  BY <1>1, CallerSteps, ObserveStep, UnregisterStep, AdmitStep, CancelTokenStep, CancelFlagsStep,
     JoinReturnsStep, ExpireStep DEF Proceeds
<1>2. ASSUME NEW c \in Callers, NEW s \in Scopes, CancelAndJoin(c, s)
      PROVE  TaskInv'
  BY <1>2, CancelAndJoinStep
<1>3. ASSUME NEW c \in Callers,
             \E s \in Scopes, name \in Names, mode \in {"AbortableAsync", "Cooperative"} :
                 Spawn(c, s, name, mode)
      PROVE  TaskInv'
  BY <1>3, CallerSteps
<1>4. ASSUME NEW e \in Tasks, SendsResult(e) \/ Ends(e) \/ AbortTakesEffect(e)
      PROVE  TaskInv'
  BY <1>4, TaskSteps
<1>5. CASE UNCHANGED vars
  <2>1. UNCHANGED <<requested, token, task, registry, flags, count, caller, closed, joined>>
    BY <1>5 DEF vars
  <2>2. Evolves
    BY <2>1 DEF Evolves, TaskInv, RegistryInv, Finished, Alive
  <2>3. RegistryInv' /\ CancelInv' /\ Keeps
    BY <2>1, <2>2, EvolutionKeeps
  <2>4. CallersInv'
    BY <2>1, <2>3, OthersKept DEF TaskInv, CallersInv
  <2>5. CancellationStaysBelow'
    BY <2>1 DEF TaskInv, CancellationStaysBelow
  <2> QED
    BY <2>3, <2>4, <2>5 DEF TaskInv
<1> QED
  BY <1>1, <1>2, <1>3, <1>4, <1>5 DEF Next

\* Whatever ends, panics, is aborted, is dropped or races another observer:
\* the registry owns all work that has not ended, with the resources it was
\* admitted with, and each class counts exactly what it owns.
THEOREM WorkIsNeverLost == Spec => []WorkIsAccountedFor
<1>1. ASSUME TaskInv PROVE WorkIsAccountedFor
  <2>1. TypeOK
    <3>1. count.Data \in 0..DataCapacity /\ count.Control \in 0..ControlCapacity
      BY <1>1, ScopeAssumption DEF TaskInv, RegistryInv, Capacity
    <3>2. \A e \in Tasks : /\ task[e].mode \in {"none", "AbortableAsync", "Cooperative"}
                           /\ task[e].run \in {"none", "running", "sent", "done", "panicked", "aborted"}
      BY <1>1 DEF TaskInv, RegistryInv, TaskRecords, Modes, Runs
    <3>3. \A c \in Callers : /\ caller[c].op \in {"none", "spawn", "hold", "wait", "join"}
                             /\ caller[c].todo \subseteq Tasks /\ caller[c].e \in Tasks \cup {0}
      BY <1>1 DEF TaskInv, CallersInv, CallerRecords
    <3> QED
      BY Zenon, <1>1, <3>1, <3>2, <3>3 DEF TypeOK, TaskInv, RegistryInv, CancelInv, CapacityIsExact
  <2> QED
    BY <1>1, <2>1 DEF TaskInv, RegistryInv, WorkIsAccountedFor
<1> QED
  BY <1>1, TaskInit, TaskStep, PTL DEF Spec

\* Once cancel has returned every task below the scope has seen it, once a join
\* has returned in time there is none, also not one whose admission raced the
\* cancellation, and no scope is cancelled but below one that was.
THEOREM CancellationReaches == Spec => []CancellationIsExact
<1>1. ASSUME TaskInv PROVE CancellationIsExact
  <2>1. JoinedScopeStaysEmpty
    BY <1>1 DEF TaskInv, RegistryInv, CancelInv, WorkIsOwned, JoinedScopeStaysEmpty, Spawned
  <2> QED
    BY <1>1, <2>1 DEF TaskInv, CancelInv, CancellationIsExact
<1> QED
  BY <1>1, TaskInit, TaskStep, PTL DEF Spec

=============================================================================
