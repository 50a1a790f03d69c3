-------------------------- MODULE QueryCoordinator --------------------------
(***************************************************************************)
(* The query coordinator (fabric/query_coordinator.rs) with the tasks that *)
(* the query service attaches to accepted queries (query_service.rs):      *)
(* idempotent acceptance, the fair queue, execution, the one terminal      *)
(* event, cancellation, lease expiry, the durable journal behind the       *)
(* memory, restart, and the watch stream that clients read.                *)
(*                                                                         *)
(* Every coordinator method holds one lock, so it is one step. The         *)
(* journal is written under that lock, sometimes before the memory changes *)
(* and sometimes after: a write that fails leaves the memory as the method *)
(* left it. A task, an RPC and a watcher run between the locks.            *)
(***************************************************************************)
EXTENDS Naturals, Sequences, FiniteSets, Functions

CONSTANTS Queries,               \* normalized operations, by their identity
          Workspace, Principal,  \* the owner of each
          Key,                   \* its idempotency scope
          Cancellations,         \* cancellation identities
          MaxIds,                \* identities kept for a query
          MaxRunning, MaxPerWorkspace, MaxPerPrincipal, MaxTasks,
          Pages,                 \* maximum_result_pages of each query
          MaxRecords,            \* max_recovery_records
          Workloads              \* bound: what one behaviour may at most contain:
                                 \* the queries that clients start, watch and
                                 \* cancel, those whose deadline passes and whose
                                 \* lease runs out, the kinds of faults, and how
                                 \* many; with the limits that the daemon of this
                                 \* behaviour is configured with:
                                 \* max_queued, max_events_per_query (the terminal
                                 \* event included) and max_total_result_pages

ASSUME CoordinatorAssumption ==
    /\ MaxPerWorkspace \in 1..MaxRunning /\ MaxPerPrincipal \in 1..MaxRunning
    /\ Pages \in Nat \ {0} /\ MaxRunning \in Nat
    /\ IsFiniteSet(Queries) /\ Cardinality(Queries) <= MaxRecords /\ MaxRecords \in Nat
    /\ DOMAIN Workspace = Queries /\ DOMAIN Principal = Queries
    /\ \A l \in Workloads :
         /\ {"start", "watch", "cancel", "overrun", "expire", "kinds", "faults", "limits"}
              \subseteq DOMAIN l
         /\ l.limits \in [queued : Nat, events : Nat \ 0..2, pages : Nat]
         /\ UNION {l.start, l.watch, l.cancel, l.overrun, l.expire} \subseteq Queries
         /\ l.kinds \subseteq {"journal", "drop", "abort", "crash", "execute", "delete"}
         /\ l.faults \in Nat

VARIABLES state,      \* CoordinatorState, behind its lock
          journal,    \* the durable records
          up,         \* the process runs
          time,       \* of a query: before its deadline, late, or its lease over
          start,      \* the StartQuery call that accepted a query
          task,       \* the task attached to a query
          requested,  \* the task scopes that are cancelled: of queries, and "service"
          executed,   \* history: queries whose execution began
          watch,      \* the client watching a query
          load        \* the workload, with the faults that are left and, as history,
                      \* the queries whose last record the journal has refused

vars == <<state, journal, up, time, start, task, requested, executed, watch, load>>

Ended == {"Succeeded", "Failed", "Cancelled", "Lost"}
NoHandle == [phase |-> "Absent", retention |-> "Released", events |-> << >>,
             pages |-> 0, ids |-> {}]
NewHandle == [NoHandle EXCEPT !.phase = "Queued", !.retention = "Reserved"]

Present(s) == {q \in Queries : s.handles[q].phase # "Absent"}
Terminal(h) == h.phase \in Ended
HasObjects(h) == {"Pending", "Ready"} \cap Range(h.events) # {}   \* cleanup_object_set
HasLocator(h) == "Ready" \in Range(h.events)                      \* retained_locator

(* The sequence without the members of S.                                  *)
Omit(seq, S) ==
    LET rest[n \in 0..Len(seq)] ==
            IF n = 0 THEN << >>
            ELSE IF seq[n] \in S THEN rest[n - 1] ELSE Append(rest[n - 1], seq[n])
    IN  rest[Len(seq)]
Public(h) == Omit(h.events, {"Pending"})                          \* public_events_after

Zero(S) == [x \in S |-> 0]
EmptyState ==
    [handles |-> [q \in Queries |-> NoHandle], queue |-> << >>, running |-> 0,
     running_by_workspace |-> Zero(Range(Workspace)),
     running_by_principal |-> Zero(Range(Principal)),
     reserved |-> 0, task_reservations |-> {}, attached_tasks |-> {}]

NotWatching == [at |-> "idle", seen |-> 0, last |-> "none"]

Init ==
    /\ state = EmptyState
    /\ journal = [q \in Queries |-> NoHandle]
    /\ up = TRUE
    /\ time = [q \in Queries |-> "Fresh"]
    /\ start = [q \in Queries |-> "idle"]
    /\ task = [q \in Queries |-> "none"]
    /\ requested = {} /\ executed = {}
    /\ watch = [q \in Queries |-> NotWatching]
    /\ \E l \in Workloads :
         load = [f \in DOMAIN l \cup {"refused"} |-> IF f = "refused" THEN {} ELSE l[f]]

Injects(kind) ==
    /\ kind \in load.kinds /\ load.faults > 0
    /\ load' = [load EXCEPT !.faults = @ - 1]

(* The journal becomes j; the write of the query in bad, if any, fails. A  *)
(* later record of a query that is still open makes up for one refused.    *)
Open(q) == state.handles[q].phase \in {"Queued", "Running"}
Writes(j, bad) ==
    /\ bad # {} => "journal" \in load.kinds /\ load.faults > 0
    /\ journal' = j
    /\ load' = [load EXCEPT !.faults = IF bad = {} THEN @ ELSE @ - 1,
                            !.refused = {q \in @ : Open(q) => j[q] = journal[q]} \cup bad]
Bad ==
    IF "journal" \in load.kinds /\ load.faults > 0
    THEN {{}} \cup {{q} : q \in load.start} ELSE {{}}

-----------------------------------------------------------------------------
(* What the methods do to the state.                                       *)

Runs(s, q) ==
    [s EXCEPT !.running = @ + 1, !.running_by_workspace[Workspace[q]] = @ + 1,
              !.running_by_principal[Principal[q]] = @ + 1]
release_running(s, q) ==
    [s EXCEPT !.running = @ - 1, !.running_by_workspace[Workspace[q]] = @ - 1,
              !.running_by_principal[Principal[q]] = @ - 1]
Dequeued(s, q) == [s EXCEPT !.queue = Omit(@, {q})]

(* The task entries of q go, and its result envelope unless it is kept.    *)
Let(s, q, keeps) ==
    [s EXCEPT !.attached_tasks = @ \ {q}, !.task_reservations = @ \ {q},
              !.reserved = IF keeps THEN @ ELSE @ - Pages]

(* dispatch_locked: each query that is queued now is taken once from the   *)
(* front, until the running limit is reached. One whose workspace or       *)
(* principal is at its limit goes to the back.                             *)
AtLimit(s, q) ==
    \/ s.running_by_workspace[Workspace[q]] >= MaxPerWorkspace
    \/ s.running_by_principal[Principal[q]] >= MaxPerPrincipal

(* Mutant: the first query that must wait holds up those behind it.        *)
DispatchFront(s, j, bad) ==
    LET q == Head(s.queue)
        begun == [Runs([s EXCEPT !.queue = Tail(@)], q) EXCEPT !.handles[q].phase = "Running"]
    IN  IF s.queue = << >> \/ s.running >= MaxRunning \/ AtLimit(s, q)
        THEN [s |-> s, j |-> j, woken |-> {}, ok |-> TRUE]
        ELSE [s |-> begun, j |-> [j EXCEPT ![q] = begun.handles[q]], woken |-> {q}, ok |-> TRUE]

Attempt(out, q, bad) ==   \* out: the state, the journal, whom it wakes
    LET popped == [out.s EXCEPT !.queue = Tail(@)]
        begun == [Runs(popped, q) EXCEPT !.handles[q].phase = "Running"]
    IN  IF ~out.ok \/ out.s.running >= MaxRunning THEN out
        ELSE IF Terminal(out.s.handles[q]) THEN [out EXCEPT !.s = popped]
        ELSE IF AtLimit(out.s, q) THEN [out EXCEPT !.s = [popped EXCEPT !.queue = Append(@, q)]]
        ELSE IF q \in bad THEN [out EXCEPT !.s = begun, !.ok = FALSE]
        ELSE [s |-> begun, j |-> [out.j EXCEPT ![q] = begun.handles[q]],
              woken |-> out.woken \cup {q}, ok |-> TRUE]

dispatch_locked(s, j, bad) ==
    LET out[n \in 0..Len(s.queue)] ==
            IF n = 0 THEN [s |-> s, j |-> j, woken |-> {}, ok |-> TRUE]
            ELSE Attempt(out[n - 1], s.queue[n], bad)
    IN  out[Len(s.queue)]

(* The handle after its one terminal event.                                *)
(* Mutant: the envelope of a query that failed stays reserved.             *)
ClosedReserved(h, phase) == [h EXCEPT !.phase = phase, !.events = Append(@, "Terminal")]

Closed(h, phase) ==
    [h EXCEPT !.phase = phase, !.events = Append(@, "Terminal"),
              !.retention = IF phase = "Succeeded" THEN @
                            ELSE IF HasObjects(h) THEN "CleanupPending" ELSE "Released"]

(* A method writes the new state and journal, and wakes waiters.           *)
Becomes(out, bad) ==
    /\ bad # {} => ~out.ok
    /\ state' = out.s /\ Writes(out.j, bad)
Woken(out) ==
    [q \in Queries |-> IF q \in out.woken /\ task[q] = "asleep" THEN "check" ELSE task[q]]

-----------------------------------------------------------------------------
(* StartQuery: accept, then attach the task.                               *)

AcceptOut(q, bad) ==
    LET s == [state EXCEPT !.handles[q] = NewHandle, !.queue = Append(@, q),
                           !.reserved = @ + Pages, !.task_reservations = @ \cup {q}]
    IN  dispatch_locked(s, [journal EXCEPT ![q] = NewHandle], bad)

(* A new operation. A repeated one is answered from its handle and a       *)
(* conflicting one refused, without a change.                              *)
accept(q) ==
    /\ up /\ q \in load.start /\ time[q] = "Fresh"
    /\ \A h \in Present(state) : Key[h] # Key[q]
    /\ Len(state.queue) < load.limits.queued
    /\ Cardinality(state.task_reservations) < MaxTasks
    /\ state.reserved + Pages <= load.limits.pages
    /\ \E bad \in Bad : \E out \in {AcceptOut(q, bad)} :
         /\ Becomes(out, bad)
         /\ start' = [start EXCEPT ![q] = IF out.ok THEN "attach" ELSE "idle"]
         /\ task' = Woken(out)
    /\ UNCHANGED <<up, time, requested, executed, watch>>

(* spawn_task: refused when the query is closed or gone, and by a          *)
(* cancelled scope.                                                        *)
Attachable(q) ==
    /\ q \in state.task_reservations \ state.attached_tasks
    /\ state.handles[q].phase \in {"Queued", "Running"}
spawn_task(q) ==
    /\ up /\ start[q] = "attach"
    /\ LET spawned == Attachable(q) /\ q \notin requested
       IN  /\ start' = [start EXCEPT ![q] = IF spawned THEN "idle" ELSE "fail"]
           /\ task' = [task EXCEPT ![q] = IF spawned THEN "check" ELSE @]
           /\ state' = [state EXCEPT !.attached_tasks = IF spawned THEN @ \cup {q} ELSE @]
    /\ UNCHANGED <<journal, up, time, requested, executed, watch, load>>

(* The call ends early: its budget is over, its client is gone, or it      *)
(* cannot record the accepted start.                                       *)
DropStart(q) ==
    /\ up /\ start[q] # "idle" /\ Injects("drop")
    /\ start' = [start EXCEPT ![q] = "idle"]
    /\ UNCHANGED <<state, journal, up, time, task, requested, executed, watch>>

-----------------------------------------------------------------------------
(* terminal: the memory closes first, then the journal. If the journal     *)
(* refuses, the method returns before it releases what the query held.     *)
Settles(s, q, before, phase) ==
    LET free == IF before = "Running" THEN release_running(s, q) ELSE Dequeued(s, q)
    IN  Let(free, q, phase = "Succeeded")

(* Mutant: the terminal event is not written to the journal.               *)
TerminalInMemory(q, phase, bad) ==
    LET s == [state EXCEPT !.handles[q] = Closed(@, phase)]
    IN  dispatch_locked(Settles(s, q, state.handles[q].phase, phase), journal, bad)

TerminalOut(q, phase, bad) ==
    LET h == state.handles[q]
        s == [state EXCEPT !.handles[q] = Closed(h, phase)]
        out == dispatch_locked(Settles(s, q, h.phase, phase),
                               [journal EXCEPT ![q] = s.handles[q]], bad)
    IN  IF q \in bad THEN [s |-> s, j |-> journal, woken |-> {}, ok |-> FALSE]
        ELSE [out EXCEPT !.woken = IF out.ok THEN @ \cup {q} ELSE @]

(* The caller goes on whatever the answer is: next is where its task ends. *)
terminal(q, phase, next) ==
    IF Open(q)
    THEN \E bad \in Bad : \E out \in {TerminalOut(q, phase, bad)} :
           /\ Becomes(out, bad)
           /\ requested' = IF phase = "Succeeded" THEN requested ELSE requested \cup {q}
           /\ task' = [Woken(out) EXCEPT ![q] = IF next = "same" THEN @ ELSE next]
    ELSE /\ task' = [task EXCEPT ![q] = IF next = "same" THEN @ ELSE next]
         /\ UNCHANGED <<state, journal, requested, load>>

(* StartQuery closes a query it could not attach a task to.                *)
FailStart(q) ==
    /\ up /\ start[q] = "fail"
    /\ terminal(q, "Failed", "same")
    /\ start' = [start EXCEPT ![q] = "idle"]
    /\ UNCHANGED <<up, time, executed, watch>>

-----------------------------------------------------------------------------
(* The task: execute_accepted_query.                                       *)

At(q, stages) == up /\ task[q] \in stages
Goes(q, stage) == task' = [task EXCEPT ![q] = stage]
Elsewhere == UNCHANGED <<up, time, start, watch>>
OnlyTask == Elsewhere /\ UNCHANGED <<state, journal, requested, executed, load>>

(* append_event for the payloads a task appends; the one private           *)
(* publication checkpoint is replaced in place.                            *)
WithEvent(h, e) ==
    IF e = "Pending" /\ e \in Range(h.events) THEN h ELSE [h EXCEPT !.events = Append(@, e)]
Accepts(h, e) ==
    /\ h.phase \in {"Queued", "Running"}
    /\ e \in {"Pending", "Ready"} => ~HasLocator(h)
    /\ e = "Ready" => "Pending" \in Range(h.events)
    /\ Len(WithEvent(h, e).events) < load.limits.events

(* The memory has the event even if the journal refuses it.                *)
append_event(q, h, durable) ==
    /\ state' = [state EXCEPT !.handles[q] = h]
    /\ IF durable THEN Writes([journal EXCEPT ![q] = h], {}) ELSE Writes(journal, {q})

(* await_running: the phase is read under the lock, and the notification   *)
(* is awaited after it is released.                                        *)
AwaitRunning(q) ==
    /\ At(q, {"check"})
    /\ Goes(q, CASE state.handles[q].phase = "Running" -> "pin"
                 [] state.handles[q].phase = "Queued" -> "unlocked"
                 [] OTHER -> "done")
    /\ OnlyTask
Sleep(q) == At(q, {"unlocked"}) /\ Goes(q, "asleep") /\ OnlyTask

(* The two events an execution opens with; a refusal is ignored.           *)
Opens(q, e, from, to) ==
    /\ At(q, {from}) /\ Goes(q, to)
    /\ LET h == state.handles[q]
       IN  IF Accepts(h, e)
           THEN \E durable \in BOOLEAN : append_event(q, WithEvent(h, e), durable)
           ELSE UNCHANGED <<state, journal, load>>
    /\ Elsewhere /\ UNCHANGED requested
Pin(q) == Opens(q, "Pinned", "pin", "report") /\ executed' = executed \cup {q}
Report(q) == Opens(q, "Progress", "report", "execute") /\ UNCHANGED executed

(* The publication intent is recorded before its object is written; n is   *)
(* how many pages it names.                                                *)
RecordsIntent(q, n, to) ==
    /\ LET h == [WithEvent(state.handles[q], "Pending") EXCEPT !.pages = n]
       IN  IF Accepts(state.handles[q], "Pending")
           THEN \E durable \in BOOLEAN :
                  append_event(q, h, durable) /\ Goes(q, IF durable THEN to ELSE "fail")
           ELSE Goes(q, "fail") /\ UNCHANGED <<state, journal, load>>
    /\ Elsewhere /\ UNCHANGED <<requested, executed>>

RecordPage(q) ==
    /\ At(q, {"execute"}) /\ state.handles[q].pages < Pages
    /\ RecordsIntent(q, state.handles[q].pages + 1, "write")
WritePage(q) == At(q, {"write"}) /\ Goes(q, "execute") /\ OnlyTask

(* A relation that fails takes its page back: it is deleted, then the      *)
(* intent shrinks.                                                         *)
DeleteTrailing(q) ==
    /\ At(q, {"execute"}) /\ state.handles[q].pages > 0 /\ Goes(q, "shrink") /\ OnlyTask
Shrink(q) ==
    /\ At(q, {"shrink"}) /\ RecordsIntent(q, state.handles[q].pages - 1, "execute")

(* seal: the manifest is the last object; a package without pages records  *)
(* its intent only now.                                                    *)
Seal(q) ==
    /\ At(q, {"execute"})
    /\ IF "Pending" \in Range(state.handles[q].events)
       THEN Goes(q, "manifest") /\ OnlyTask
       ELSE RecordsIntent(q, 0, "manifest")
WriteManifest(q) == At(q, {"manifest"}) /\ Goes(q, "publish") /\ OnlyTask
Publish(q) == At(q, {"publish"}) /\ Goes(q, "ready") /\ OnlyTask
AppendReady(q) ==
    /\ At(q, {"ready"})
    /\ IF Accepts(state.handles[q], "Ready")
       THEN \E durable \in BOOLEAN :
              /\ append_event(q, WithEvent(state.handles[q], "Ready"), durable)
              /\ Goes(q, IF durable THEN "succeed" ELSE "discard")
       ELSE Goes(q, "discard") /\ UNCHANGED <<state, journal, load>>
    /\ Elsewhere /\ UNCHANGED <<requested, executed>>
Discard(q) == At(q, {"discard"}) /\ Goes(q, "fail") /\ OnlyTask

(* The execution ends in an error, or at the deadline: while it waits for  *)
(* its turn, or while the backend runs.                                    *)
Executing == {"execute", "write", "shrink", "manifest"}
Errs(q) ==
    /\ At(q, Executing \cup {"publish"}) /\ Injects("execute") /\ Goes(q, "fail")
    /\ Elsewhere /\ UNCHANGED <<state, journal, requested, executed>>
DeadlinePasses(q) ==
    /\ At(q, Executing \cup {"check", "unlocked", "asleep"}) /\ time[q] # "Fresh"
    /\ Goes(q, "fail") /\ OnlyTask
ObserveCancel(q) ==
    /\ At(q, Executing) /\ q \in requested /\ Goes(q, "cancel") /\ OnlyTask

Ends(q, stage, phase) ==
    /\ At(q, {stage}) /\ terminal(q, phase, "done")
    /\ Elsewhere /\ UNCHANGED executed
Succeed(q) == Ends(q, "succeed", "Succeeded")
Fail(q) == Ends(q, "fail", "Failed")
CloseCancelled(q) == Ends(q, "cancel", "Cancelled")

(* Whoever joins a cancelled scope aborts its task after two seconds.      *)
Alive(q) == task[q] \notin {"none", "done"}
Abort(q) ==
    /\ up /\ Alive(q) /\ q \in requested /\ Injects("abort")
    /\ Goes(q, "done")
    /\ Elsewhere /\ UNCHANGED <<state, journal, requested, executed>>

-----------------------------------------------------------------------------
(* CancelQuery: cancel_idempotent, whose failed write leaves no trace,     *)
(* then a join of the query's scope, which cancels it in any case. That    *)
(* the join forgets the joined task is left out: a task is attached to a   *)
(* query at most once.                                                     *)
Identified(h, id) == [h EXCEPT !.ids = @ \cup {id}]
CancelOut(q, id, bad) ==
    LET h == state.handles[q]
        known == Identified(h, id)
        gone == Closed(known, "Cancelled")
        s == [state EXCEPT !.handles[q] = IF h.phase = "Queued" THEN gone ELSE known]
        j == [journal EXCEPT ![q] = s.handles[q]]
        out == dispatch_locked(Let(Dequeued(s, q), q, FALSE), j, bad)
    IN  IF h.phase = "Queued" THEN [out EXCEPT !.woken = IF out.ok THEN @ \cup {q} ELSE @]
        ELSE [s |-> s, j |-> j, woken |-> {}, ok |-> TRUE]

CancelQuery(q, id) ==
    /\ up /\ q \in Present(state) \cap load.cancel
    /\ id \notin state.handles[q].ids /\ Cardinality(state.handles[q].ids) < MaxIds
    /\ \E bad \in Bad : \E out \in {CancelOut(q, id, bad)} :
         q \notin bad /\ Becomes(out, bad) /\ task' = Woken(out)
    /\ requested' = requested \cup {q}
    /\ UNCHANGED <<up, time, start, executed, watch>>

(* drain_owned_tasks, at shutdown: the scope above all queries.            *)
Drain ==
    /\ up /\ "service" \notin requested /\ "crash" \in load.kinds /\ load.faults > 0
    /\ requested' = Queries \cup {"service"}
    /\ UNCHANGED <<state, journal, up, time, start, task, executed, watch, load>>

-----------------------------------------------------------------------------
(* collect_expired over the queries whose lease is seen to be over: one    *)
(* that may own result objects is staged for their cleanup, any other is   *)
(* removed. done is what the loop did before a write failed, if one did.   *)
(* Mutant: only queries that have ended are collected.                     *)
CollectableEnded(seen) ==
    {q \in Present(state) \cap seen : /\ Terminal(state.handles[q])
                                      /\ state.handles[q].retention # "CleanupPending"}

Collectable(seen) ==
    {q \in Present(state) \cap seen : state.handles[q].retention # "CleanupPending"}
Staged(h) == h.retention = "Reserved" /\ HasObjects(h)
Expired(h) ==
    IF ~Staged(h) THEN NoHandle
    ELSE IF Terminal(h) THEN [h EXCEPT !.retention = "CleanupPending"] ELSE Closed(h, "Lost")

Collected(s, S) ==
    LET ran == {q \in S : s.handles[q].phase = "Running"}
        reserved == {q \in S : s.handles[q].retention = "Reserved"}
    IN  [s EXCEPT !.handles = [q \in Queries |-> IF q \in S THEN Expired(@[q]) ELSE @[q]],
                  !.queue = Omit(@, S),
                  !.running = @ - Cardinality(ran),
                  !.running_by_workspace =
                    [w \in DOMAIN @ |-> @[w] - Cardinality({q \in ran : Workspace[q] = w})],
                  !.running_by_principal =
                    [p \in DOMAIN @ |-> @[p] - Cardinality({q \in ran : Principal[q] = p})],
                  !.attached_tasks = @ \ S, !.task_reservations = @ \ S,
                  !.reserved = @ - Pages * Cardinality(reserved)]

CollectOut(done, bad, disk) ==
    LET s == Collected(state, done)
        wakes == {q \in done : Staged(state.handles[q])}
        j == [q \in Queries |-> IF q \in done THEN s.handles[q] ELSE journal[q]]
        \* the write that failed: a staged query keeps what it held, one removed does not
        torn == [q \in Queries |->
                   IF Staged(state.handles[q]) THEN [s EXCEPT !.handles[q] = Expired(@)]
                   ELSE Collected(s, {q})]
        out == dispatch_locked(s, j, disk)
    IN  IF bad = {} THEN [out EXCEPT !.woken = @ \cup wakes]
        ELSE [s |-> torn[CHOOSE q \in bad : TRUE], j |-> j, woken |-> wakes, ok |-> FALSE]

collect_expired(seen) ==
    \E bad \in Bad, disk \in Bad : \E due \in {Collectable(seen)} :
        /\ bad \subseteq due /\ {} \in {bad, disk}
        /\ \E done \in (IF bad = {} THEN {due} ELSE SUBSET (due \ bad)) :
           \E out \in {CollectOut(done, bad, disk)} :
             /\ Becomes(out, bad \cup disk)
             \* a torn stage ends before its scope is cancelled
             /\ requested' = requested \cup done \cup {q \in bad : ~Staged(state.handles[q])}
             /\ task' = Woken(out)

Over == {q \in Queries : time[q] = "Expired"}
CollectExpired ==
    /\ up /\ Collectable(Over) # {}
    /\ collect_expired(Over)
    /\ UNCHANGED <<up, time, start, executed, watch>>

(* release_result and mark_result_cleanup_complete: a failed write is      *)
(* rolled back.                                                            *)
Rewrites(q, h) ==
    /\ state' = [state EXCEPT !.handles[q] = h,
                              !.reserved = IF h.retention = "CleanupPending"
                                           THEN @ - Pages ELSE @]
    /\ journal' = [journal EXCEPT ![q] = h]
Kept(q) == state.handles[q].phase = "Succeeded" /\ state.handles[q].retention = "Reserved"
release_result(q) == Rewrites(q, [state.handles[q] EXCEPT !.retention = "CleanupPending"])
mark_result_cleanup_complete(q) ==
    Rewrites(q, [state.handles[q] EXCEPT !.retention = "Released"])

Quiet == UNCHANGED <<up, time, start, task, requested, executed, watch, load>>
ReleaseResult(q) == up /\ Kept(q) /\ release_result(q) /\ Quiet
(* The objects are deleted elsewhere, after the task has been joined.      *)
MarkCleanupComplete(q) ==
    /\ up /\ state.handles[q].retention = "CleanupPending" /\ ~Alive(q)
    /\ mark_result_cleanup_complete(q) /\ Quiet

-----------------------------------------------------------------------------
(* Restart. Work that had not ended is lost, never run again. A client     *)
(* whose stream broke off keeps what it was told until it watches again,   *)
(* from the first event: the cursors of an earlier generation are refused. *)
Crash ==
    /\ up /\ Injects("crash")
    /\ up' = FALSE /\ state' = EmptyState
    /\ start' = [q \in Queries |-> "idle"] /\ task' = [q \in Queries |-> "none"]
    /\ watch' = [q \in Queries |-> [watch[q] EXCEPT !.at = "idle"]] /\ requested' = {}
    /\ UNCHANGED <<journal, time, executed>>

(* Mutants: unfinished work is taken to own nothing, or leaves no record.  *)
RecoveredReleased(q) ==
    IF journal[q].phase \in {"Queued", "Running"}
    THEN [Closed(journal[q], "Lost") EXCEPT !.retention = "Released"] ELSE journal[q]
RecoveredForgotten(q) ==
    IF journal[q].phase \in {"Queued", "Running"} THEN NoHandle ELSE journal[q]

Recovered(q) ==
    LET r == journal[q]
        lost == IF r.phase \in {"Queued", "Running"} THEN Closed(r, "Lost") ELSE r
    IN  IF r.phase = "Absent" \/ time[q] # "Expired" THEN lost
        ELSE IF HasObjects(lost) /\ lost.retention # "Released"
             THEN [lost EXCEPT !.retention = "CleanupPending"]
             ELSE NoHandle

Records == {q \in Queries : journal[q].phase # "Absent"}
Reserving(j) == {q \in Queries : j[q].retention = "Reserved"}

(* validate_result_retention *)
ValidRetention(r) ==
    CASE r.retention = "Reserved" -> Terminal(r) => r.phase = "Succeeded" /\ HasLocator(r)
      [] r.retention = "CleanupPending" -> Terminal(r) /\ HasObjects(r)
      [] OTHER -> Terminal(r)

Recoverable ==
    /\ Cardinality(Records) <= MaxRecords
    /\ \A q \in Records : ValidRetention(journal[q])
    /\ LET after == [q \in Queries |-> Recovered(q)]
       IN  Pages * Cardinality(Reserving(after)) <= load.limits.pages

recover ==
    /\ ~up /\ Recoverable
    /\ LET handles == [q \in Queries |-> Recovered(q)]
       IN  /\ journal' = handles
           /\ state' = [EmptyState EXCEPT !.handles = handles,
                                          !.reserved = Pages * Cardinality(Reserving(handles))]
    /\ up' = TRUE
    /\ UNCHANGED <<time, start, task, requested, executed, watch, load>>

(* The process ends again after it has rewritten some of the records.      *)
RecoverPartly ==
    /\ ~up /\ Recoverable /\ Injects("crash")
    /\ \E done \in SUBSET Records :
         journal' = [q \in Queries |-> IF q \in done THEN Recovered(q) ELSE journal[q]]
    /\ UNCHANGED <<state, up, time, start, task, requested, executed, watch>>

Elapse(q) ==
    /\ \/ time[q] = "Fresh" /\ q \in load.overrun /\ time' = [time EXCEPT ![q] = "Late"]
       \/ time[q] = "Late" /\ q \in load.expire /\ time' = [time EXCEPT ![q] = "Expired"]
    /\ UNCHANGED <<state, journal, up, start, task, requested, executed, watch, load>>

-----------------------------------------------------------------------------
(* WatchQuery: the events after the cursor under one lock, the phase under *)
(* the next. The stream ends when there were none and the phase is         *)
(* terminal, and in an error when the query is gone.                       *)
Watching(q, at) == up /\ q \in load.watch /\ watch[q].at = at
Watches(q, w) ==
    /\ watch' = [watch EXCEPT ![q] = w]
    /\ UNCHANGED <<state, journal, up, time, start, task, requested, executed, load>>

OpenWatch(q) ==
    /\ Watching(q, "idle") /\ q \in Present(state)
    /\ Watches(q, [NotWatching EXCEPT !.at = "events"])
ReadEvents(q) ==
    /\ Watching(q, "events")
    /\ LET public == Public(state.handles[q])
       IN  IF q \notin Present(state)
           THEN Watches(q, [watch[q] EXCEPT !.at = "error"])
           ELSE IF Len(public) > watch[q].seen
           THEN Watches(q, [watch[q] EXCEPT !.seen = @ + 1, !.last = public[watch[q].seen + 1]])
           ELSE Watches(q, [watch[q] EXCEPT !.at = "phase"])
ReadPhase(q) ==
    /\ Watching(q, "phase")
    /\ Watches(q, [watch[q] EXCEPT !.at =
                     IF q \notin Present(state) THEN "error"
                     ELSE IF Terminal(state.handles[q]) THEN "ended" ELSE "events"])

-----------------------------------------------------------------------------
TaskStep(q) ==
    \/ AwaitRunning(q) \/ Sleep(q) \/ Pin(q) \/ Report(q)
    \/ RecordPage(q) \/ WritePage(q) \/ Seal(q) \/ WriteManifest(q)
    \/ Publish(q) \/ AppendReady(q) \/ Discard(q)
    \/ Succeed(q) \/ Fail(q) \/ CloseCancelled(q)
    \/ Shrink(q)

Other(q) ==
    \/ accept(q) \/ spawn_task(q) \/ DropStart(q) \/ FailStart(q)
    \/ DeleteTrailing(q) \/ Errs(q) \/ DeadlinePasses(q) \/ ObserveCancel(q) \/ Abort(q)
    \/ (\E id \in Cancellations : CancelQuery(q, id))
    \/ ReleaseResult(q) \/ MarkCleanupComplete(q)
    \/ Elapse(q) \/ OpenWatch(q) \/ ReadEvents(q) \/ ReadPhase(q)

Next ==
    \/ \E q \in Queries : TaskStep(q) \/ Other(q)
    \/ CollectExpired \/ Drain \/ Crash \/ recover \/ RecoverPartly

Spec == Init /\ [][Next]_vars

(* Tasks, calls and restarts make progress.                                *)
FairSpec ==
    /\ Spec /\ WF_vars(recover)
    /\ \A q \in Queries : WF_vars(TaskStep(q) \/ spawn_task(q) \/ FailStart(q))

-----------------------------------------------------------------------------
Phase(p) == {q \in Queries : state.handles[q].phase \in p}

(* Types. One slot of the event list is left for the terminal event as     *)
(* long as a query is open (query_coordinator.rs, 1408), and a closed one  *)
(* has exactly one, at the end.                                            *)
TypeOK ==
    /\ state.running \in 0..MaxRunning /\ state.reserved \in 0..load.limits.pages
    /\ Range(state.queue) \subseteq Queries /\ Len(state.queue) <= load.limits.queued
    /\ state.attached_tasks \subseteq Queries /\ state.task_reservations \subseteq Queries
    /\ \A q \in Queries : \A h \in {state.handles[q], journal[q]} :
         /\ h.phase \in Ended \cup {"Absent", "Queued", "Running"}
         /\ h.retention \in {"Reserved", "CleanupPending", "Released"}
         /\ h.pages \in 0..Pages /\ h.ids \subseteq Cancellations
         /\ Len(h.events) <= load.limits.events
         /\ Terminal(h) <=> "Terminal" \in Range(h.events)
         /\ \A i \in DOMAIN h.events : h.events[i] = "Terminal" => i = Len(h.events)
         /\ h.phase \in {"Queued", "Running"} => Len(h.events) < load.limits.events
    /\ up \in BOOLEAN /\ time \in [Queries -> {"Fresh", "Late", "Expired"}]
    /\ start \in [Queries -> {"idle", "attach", "fail"}]
    /\ requested \subseteq Queries \cup {"service"} /\ executed \subseteq Queries
    /\ load.faults \in Nat /\ load.refused \subseteq Queries

JournalAccepts == "journal" \notin load.kinds

(* The counters that admit and dispatch work are exact: whatever ends a    *)
(* query (its task, a cancellation, a failed attachment, an expired lease) *)
(* gives back precisely what it held, and nothing is left in the queue or  *)
(* in the task table of a query that has ended. A refused journal write    *)
(* breaks this (SlotIsReleased).                                           *)
CapacityIsExact ==
    JournalAccepts =>
        /\ state.running = Cardinality(Phase({"Running"}))
        /\ \A w \in Range(Workspace) : state.running_by_workspace[w] =
             Cardinality({q \in Phase({"Running"}) : Workspace[q] = w})
        /\ \A p \in Range(Principal) : state.running_by_principal[p] =
             Cardinality({q \in Phase({"Running"}) : Principal[q] = p})
        /\ Range(state.queue) = Phase({"Queued"})
        /\ Len(state.queue) = Cardinality(Phase({"Queued"}))
        /\ state.reserved = Pages * Cardinality(Reserving(state.handles))
        /\ state.task_reservations = Phase({"Queued", "Running"})
        /\ state.attached_tasks \subseteq state.task_reservations

(* A queued query waits only for capacity: when the coordinator's lock is  *)
(* free, every queued query faces a limit that running queries fill.       *)
NothingWaitsIdly ==
    JournalAccepts =>
        \A q \in Phase({"Queued"}) : state.running >= MaxRunning \/ AtLimit(state, q)

(* Whatever journal write failed before, and wherever the process stops,   *)
(* the next start accepts the journal: no record contradicts its retention *)
(* state, and the envelopes that stay reserved fit.                        *)
RestartIsPossible == Recoverable

(* A query that has ended keeps its outcome and its events until it is     *)
(* removed: in the journal, in the memory of one process, and in what      *)
(* clients are answered from one process to the next. Excepted from the    *)
(* last is a query whose closing record the journal has refused: it is     *)
(* Succeeded, say, as long as the process runs, and Lost after it.         *)
Settled(h, i) == Terminal(h) => i.phase = "Absent" \/ (i.phase = h.phase /\ i.events = h.events)
Answer(q) == IF up THEN state.handles[q] ELSE journal[q]
KeepsOutcomes ==
    \A q \in Queries : /\ Settled(journal[q], journal'[q])
                       /\ up' \/ q \notin load.refused => Settled(Answer(q), Answer(q)')

(* An operation is executed at most once, whatever the client repeats and  *)
(* however often the process restarts.                                     *)
ExecutesOnce ==
    \A q \in Queries : task[q] = "pin" /\ task'[q] = "report" => q \notin executed

(* Capacity is neither lost nor left unused.                               *)
CapacityIsUsed == TypeOK /\ CapacityIsExact /\ NothingWaitsIdly

(* A query is decided once: it is executed at most once, across restarts,  *)
(* and its outcome is final, across restarts if its record was accepted.   *)
DecidedOnce == [][KeepsOutcomes /\ ExecutesOnce]_vars

(* What a client has been told of a query is in the journal, and stays     *)
(* true: the events delivered to a watcher are the first of those that     *)
(* are recorded, and no restart takes one back. Excepted is a query whose  *)
(* last record the journal has refused: append_event and terminal leave    *)
(* its event in memory, where watchers see it, and a restart loses it.     *)
Delivered(q) ==
    /\ watch[q].seen <= Len(Public(journal[q]))
    /\ watch[q].seen > 0 => watch[q].last = Public(journal[q])[watch[q].seen]
DeliveredIsDurable ==
    \A q \in Queries : q \notin load.refused /\ journal[q].phase # "Absent" => Delivered(q)

-----------------------------------------------------------------------------
(* What the documents and comments say and the code does not keep.         *)

(* A watch stream that ends without an error has delivered the terminal    *)
(* event ("snapshot, result-ready, and terminal events are not dropped").  *)
StreamEndsWithTerminal ==
    \A q \in Queries : watch[q].at = "ended" => watch[q].last = "Terminal"

(* "snapshot, result-ready, and terminal events are not dropped", "emit    *)
(* one TerminalEvent": what was delivered is there after a restart, and no *)
(* other outcome, also when a record was refused.                          *)
EventsAreNotDropped == \A q \in Queries : journal[q].phase # "Absent" => Delivered(q)
OutcomeIsFinal == [][\A q \in Queries : Settled(Answer(q), Answer(q)')]_vars

(* A task that waits for its turn notices that it has come ("Wait until    *)
(* fair admission starts this query"), under FairSpec.                     *)
Waiting(q) == task[q] \in {"unlocked", "asleep"}
TurnIsNoticed ==
    \A q \in Queries : (Waiting(q) /\ q \in Phase({"Running"})) ~> ~Waiting(q)

(* Closing a query gives back its running slot ("Close once, release       *)
(* running capacity, ...").                                                *)
SlotIsReleased == state.running = Cardinality(Phase({"Running"}))
=============================================================================
