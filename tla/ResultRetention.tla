--------------------------- MODULE ResultRetention ---------------------------
(***************************************************************************)
(* The objects of query results: how an execution writes them under a      *)
(* durable intent (fabric/streamed_result_package.rs), how the registry    *)
(* hands them out (fabric/streamed_result_registry.rs), and the two paths  *)
(* that delete them, the retention pass and the ReleaseResource call       *)
(* (query_service.rs). It composes them with the coordinator, whose        *)
(* journal decides who owns an object across a restart.                    *)
(*                                                                         *)
(* Object 0 of a query is its manifest, object n its n-th page. A package  *)
(* has one public handle. Journal writes do not fail here:                 *)
(* QueryCoordinator has those faults.                                      *)
(***************************************************************************)
EXTENDS QueryCoordinator

CONSTANT Releasers   \* concurrent ReleaseResource calls

(* A workload also says who releases results, how many calls at a time     *)
(* reissue one after a restart, and whether sessions outlive the leases of *)
(* their queries.                                                          *)
ASSUME RetentionAssumption ==
    \A l \in Workloads : /\ l.releases \subseteq Releasers /\ l.reissues \in Nat
                         /\ l.long \in BOOLEAN /\ "journal" \notin l.kinds

VARIABLES objects,   \* the object store
          late,      \* puts that go on after the execution that awaited them
          strays,    \* history: the objects of all such puts
          package,   \* the registry's entry for a query
          lease,     \* the package's own lease
          pass,      \* the retention pass
          failed,    \* retention_failed
          release,   \* the ReleaseResource calls
          reissue    \* of a query: calls that have reopened its package, not yet
                     \* registered it

store == <<objects, late, strays, package, lease, pass, failed, release, reissue>>
allVars == <<vars, store>>

NoPass == [at |-> "idle", seen |-> {}, over |-> {}, joins |-> {}, todo |-> {}, q |-> {},
           left |-> {}, local |-> FALSE]
NoCall == [at |-> "idle", q |-> {}, left |-> {}]

RetentionInit ==
    /\ Init
    /\ objects = [q \in Queries |-> {}] /\ late = objects /\ strays = objects
    /\ package = [q \in Queries |-> "none"]
    /\ lease = [q \in Queries |-> "none"]
    /\ pass = NoPass /\ failed = FALSE
    /\ release = [r \in Releasers |-> NoCall]
    /\ reissue = [q \in Queries |-> 0]

Unchanged == UNCHANGED store
Writers == UNCHANGED <<late, strays>>
OnlyObjects == Writers /\ UNCHANGED <<package, lease, pass, failed, release, reissue>>
Put(q, S) == objects' = [objects EXCEPT ![q] = S]
Named(h) == IF HasObjects(h) THEN 0..h.pages ELSE {}
Whole(q) == objects[q] = Named(state.handles[q])

-----------------------------------------------------------------------------
(* The execution: an object is written after the intent that names it. An  *)
(* execution that fails tries to delete its pages; a put that failed may   *)
(* have written its object.                                                *)
InFlight(q) ==
    IF task[q] = "write" THEN {state.handles[q].pages}
    ELSE IF task[q] = "manifest" THEN {0} ELSE {}

StorePage(q) == WritePage(q) /\ Put(q, objects[q] \cup InFlight(q)) /\ OnlyObjects
StoreManifest(q) == WriteManifest(q) /\ Put(q, objects[q] \cup InFlight(q)) /\ OnlyObjects
TakeBackPage(q) ==
    DeleteTrailing(q) /\ Put(q, objects[q] \ {state.handles[q].pages}) /\ OnlyObjects

ExecutionFails(q) ==
    /\ task[q] \in Executing
    /\ Errs(q) \/ DeadlinePasses(q) \/ ObserveCancel(q)
    /\ \E S \in SUBSET (objects[q] \cup InFlight(q)) : Put(q, S)
    /\ OnlyObjects
EndsOutside(q) ==
    task[q] \notin Executing /\ (Errs(q) \/ DeadlinePasses(q)) /\ Unchanged

(* An execution that is dropped, by its deadline or by an abort, deletes   *)
(* nothing, and the local file system goes on with the put it awaited:     *)
(* the object is written at any later time, or never.                      *)
Cut(q) ==
    /\ late' = [late EXCEPT ![q] = @ \cup InFlight(q)]
    /\ strays' = [strays EXCEPT ![q] = @ \cup InFlight(q)]
OnlyWriters == UNCHANGED <<objects, package, lease, pass, failed, release, reissue>>
DropExecution(q) == task[q] \in Executing /\ DeadlinePasses(q) /\ Cut(q) /\ OnlyWriters
AbortExecution(q) == Abort(q) /\ Cut(q) /\ OnlyWriters
LandsLate(q) ==
    /\ up
    /\ \E x \in late[q] : /\ late' = [late EXCEPT ![q] = @ \ {x}]
                          /\ Put(q, objects[q] \cup {x})
    /\ UNCHANGED <<strays, package, lease, pass, failed, release, reissue>> /\ UNCHANGED vars

(* publish: the package and its handle are registered.                     *)
Register(q) ==
    /\ IF package[q] = "none"
       THEN Publish(q) /\ package' = [package EXCEPT ![q] = "live"]
                      /\ lease' = [lease EXCEPT ![q] = "live"]
       ELSE At(q, {"publish"}) /\ Goes(q, "fail") /\ OnlyTask /\ UNCHANGED <<package, lease>>
    /\ UNCHANGED <<objects, pass, failed, release, reissue>> /\ Writers

(* discard_unjournaled_query *)
DiscardPackage(q) ==
    /\ Discard(q)
    /\ package' = [package EXCEPT ![q] = "none"]
    /\ \E S \in SUBSET objects[q] : Put(q, S)
    /\ UNCHANGED <<lease, pass, failed, release, reissue>> /\ Writers

LeaseEnds(q) ==
    /\ lease[q] = "live" /\ lease' = [lease EXCEPT ![q] = "over"] /\ Writers
    /\ UNCHANGED <<objects, package, pass, failed, release, reissue>> /\ UNCHANGED vars
(* A query's lease is half an hour longer than its deadline, unless the    *)
(* session ends before: then its execution is over, and so are the five    *)
(* minutes of its package's lease.                                         *)
TimePasses(q) ==
    /\ load.long /\ time[q] = "Late" => lease[q] # "live" /\ ~Alive(q) /\ start[q] = "idle"
    /\ Elapse(q) /\ Unchanged

(* reissue_retained, after a restart: the package is reopened, every       *)
(* object checked, and registered in a second step.                        *)
Reopen(q) ==
    /\ up /\ reissue[q] < load.reissues /\ ~failed
    /\ Kept(q) /\ package[q] = "none" /\ lease[q] = "live" /\ Whole(q)
    /\ reissue' = [reissue EXCEPT ![q] = @ + 1] /\ Writers
    /\ UNCHANGED <<objects, package, lease, pass, failed, release>> /\ UNCHANGED vars
Reissue(q) ==
    /\ up /\ reissue[q] > 0 /\ reissue' = [reissue EXCEPT ![q] = @ - 1] /\ Writers
    /\ package' = [package EXCEPT ![q] = IF @ = "none" THEN "live" ELSE @]
    /\ UNCHANGED <<objects, lease, pass, failed, release>> /\ UNCHANGED vars

-----------------------------------------------------------------------------
(* finalize_released_query: the package's cleanup is taken by one caller;  *)
(* its entry goes when the objects are gone, and a failed deletion leaves  *)
(* it to be retried.                                                       *)
Takeable(q) == package[q] \in {"released", "retry"}
Take(q) == package' = [package EXCEPT ![q] = IF Takeable(q) THEN "taken" ELSE @]

(* delete_exact_object_set: each page once, then the manifest; an object   *)
(* that is not there counts as deleted. left is what is not deleted yet.   *)
NextOf(left) == IF left \subseteq {0} THEN left ELSE left \ {0}

(* mark_result_cleanup_complete, for a query that is still there           *)
Marks(q) ==
    IF state.handles[q].retention = "CleanupPending"
    THEN mark_result_cleanup_complete(q) /\ Quiet
    ELSE UNCHANGED vars

-----------------------------------------------------------------------------
(* The retention pass, collect_retention_authority: one at a time, begun   *)
(* by any request, until one fails or the service's scope refuses it.      *)
Pass(at) == up /\ pass.at = at
PassTo(p) == pass' = p
Others == Writers /\ UNCHANGED <<lease, release, reissue>>
Only == Others /\ UNCHANGED <<objects, package, failed>>
Gives(q) == pass.q = {q}

StartPass ==
    /\ Pass("idle") /\ ~failed /\ "service" \notin requested
    /\ PassTo([NoPass EXCEPT !.at = "handles", !.seen = Over,
                             !.over = {q \in Queries : lease[q] = "over"}])
    /\ Only /\ UNCHANGED vars
RefusePass ==
    /\ Pass("idle") /\ ~failed /\ "service" \in requested
    /\ failed' = TRUE
    /\ Others /\ UNCHANGED <<objects, package, pass>> /\ UNCHANGED vars

(* results.collect_expired *)
ExpireHandles ==
    /\ Pass("handles") /\ PassTo([pass EXCEPT !.at = "collect"])
    /\ package' = [q \in Queries |-> IF package[q] = "live" /\ q \in pass.over
                                    THEN "released" ELSE package[q]]
    /\ Others /\ UNCHANGED <<objects, failed>> /\ UNCHANGED vars

(* coordinator.collect_expired, before the cleanups and after them, with   *)
(* the join of the tasks it cancelled.                                     *)
Collect ==
    /\ up /\ pass.at \in {"collect", "again"}
    /\ collect_expired(pass.seen)
    /\ PassTo([pass EXCEPT !.at = IF @ = "collect" THEN "join" ELSE "rejoin",
                           !.joins = Collectable(pass.seen)])
    /\ UNCHANGED <<up, time, start, executed, watch>> /\ Only
Join ==
    /\ up /\ pass.at \in {"join", "rejoin"} /\ \A q \in pass.joins : ~Alive(q)
    /\ PassTo(IF pass.at = "join" THEN [pass EXCEPT !.at = "list", !.joins = {}] ELSE NoPass)
    /\ Only /\ UNCHANGED vars
JoinFails ==
    /\ up /\ pass.at \in {"join", "rejoin"}
    /\ \E q \in pass.joins : Abort(q) /\ Cut(q)
    /\ pass' = NoPass /\ failed' = TRUE
    /\ UNCHANGED <<objects, package, lease, release, reissue>>

(* pending_result_cleanups *)
(* Mutant: only a result whose locator was published is listed.            *)
ListSucceeded ==
    /\ Pass("list")
    /\ LET todo == {q \in Present(state) : /\ state.handles[q].retention = "CleanupPending"
                                           /\ HasLocator(state.handles[q])}
       IN  PassTo([pass EXCEPT !.todo = todo, !.at = IF todo = {} THEN "again" ELSE "finalize"])
    /\ Only /\ UNCHANGED vars

List ==
    /\ Pass("list")
    /\ LET todo == {q \in Present(state) : state.handles[q].retention = "CleanupPending"}
       IN  PassTo([pass EXCEPT !.todo = todo, !.at = IF todo = {} THEN "again" ELSE "finalize"])
    /\ Only /\ UNCHANGED vars

(* A package whose handle is neither released nor expired fails the pass.  *)
(* Mutant: a live handle is no obstacle.                                   *)
FinalizeAnyway(q) ==
    /\ Pass("finalize") /\ q \in pass.todo
    /\ PassTo([pass EXCEPT !.at = "delete", !.q = {q}, !.local = Takeable(q),
                           !.left = Named(state.handles[q])])
    /\ Take(q)
    /\ Others /\ UNCHANGED <<objects, failed>> /\ UNCHANGED vars

Finalize(q) ==
    /\ Pass("finalize") /\ q \in pass.todo
    /\ IF package[q] = "live"
       THEN pass' = NoPass /\ failed' = TRUE /\ UNCHANGED package
       ELSE /\ PassTo([pass EXCEPT !.at = "delete", !.q = {q}, !.local = Takeable(q),
                                   !.left = Named(state.handles[q])])
            /\ Take(q) /\ UNCHANGED failed
    /\ Others /\ UNCHANGED objects /\ UNCHANGED vars

PassDeletes(q) ==
    /\ Pass("delete") /\ Gives(q)
    /\ \E x \in NextOf(pass.left) :
         Put(q, objects[q] \ {x}) /\ PassTo([pass EXCEPT !.left = @ \ {x}])
    /\ Others /\ UNCHANGED <<package, failed>> /\ UNCHANGED vars
PassFails(q) ==
    /\ Pass("delete") /\ Gives(q) /\ Injects("delete")
    /\ package' = [package EXCEPT ![q] = IF pass.local THEN "retry" ELSE @]
    /\ pass' = NoPass /\ failed' = TRUE
    /\ Others /\ UNCHANGED objects
    /\ UNCHANGED <<state, journal, up, time, start, task, requested, executed, watch>>
PassDeleted(q) ==
    /\ Pass("delete") /\ Gives(q) /\ pass.left = {}
    /\ package' = [package EXCEPT ![q] = IF pass.local THEN "none" ELSE @]
    /\ PassTo([pass EXCEPT !.at = "mark"])
    /\ Others /\ UNCHANGED <<objects, failed>> /\ UNCHANGED vars
PassMarks(q) ==
    /\ Pass("mark") /\ Gives(q) /\ Marks(q)
    /\ LET rest == pass.todo \ {q}
       IN  IF q \in Present(state)
           THEN /\ PassTo([pass EXCEPT !.todo = rest, !.q = {}, !.local = FALSE,
                                       !.at = IF rest = {} THEN "again" ELSE "finalize"])
                /\ UNCHANGED failed
           ELSE pass' = NoPass /\ failed' = TRUE
    /\ Others /\ UNCHANGED <<objects, package>>

-----------------------------------------------------------------------------
(* ReleaseResource for the handle of a result.                             *)
Calls(r, at, q) == up /\ release[r].at = at /\ release[r].q = {q}
CallTo(r, call) == release' = [release EXCEPT ![r] = call]
CallAt(at, q) == [NoCall EXCEPT !.at = at, !.q = {q}]
Alone == Writers /\ UNCHANGED <<lease, pass, failed, reissue>>

ReleaseHandle(r, q) ==
    /\ up /\ r \in load.releases /\ release[r] = NoCall /\ package[q] # "none" /\ lease[q] = "live" /\ ~failed
    /\ package' = [package EXCEPT ![q] = IF @ = "live" THEN "released" ELSE @]
    /\ CallTo(r, CallAt("revoke", q))
    /\ Alone /\ UNCHANGED objects /\ UNCHANGED vars
Revoke(r, q) ==
    /\ Calls(r, "revoke", q)
    /\ IF Kept(q) THEN release_result(q) /\ Quiet ELSE UNCHANGED vars
    /\ CallTo(r, IF state.handles[q].phase = "Succeeded" THEN CallAt("finalize", q) ELSE NoCall)
    /\ Alone /\ UNCHANGED <<objects, package>>

(* When another caller has taken the cleanup, the call goes on at once.    *)
FinalizeReleased(r, q) ==
    /\ Calls(r, "finalize", q)
    /\ CallTo(r, IF package[q] \in {"none", "live"} THEN NoCall
                 ELSE IF ~Takeable(q) THEN CallAt("mark", q)
                 ELSE [at |-> "delete", q |-> {q}, left |-> Named(state.handles[q])])
    /\ Take(q)
    /\ Alone /\ UNCHANGED objects /\ UNCHANGED vars
CallDeletes(r, q) ==
    /\ Calls(r, "delete", q)
    /\ \E x \in NextOf(release[r].left) :
         Put(q, objects[q] \ {x}) /\ CallTo(r, [release[r] EXCEPT !.left = @ \ {x}])
    /\ Alone /\ UNCHANGED package /\ UNCHANGED vars
CallFails(r, q) ==
    /\ Calls(r, "delete", q) /\ Injects("delete")
    /\ package' = [package EXCEPT ![q] = "retry"] /\ CallTo(r, NoCall)
    /\ Alone /\ UNCHANGED objects
    /\ UNCHANGED <<state, journal, up, time, start, task, requested, executed, watch>>
CallDeleted(r, q) ==
    /\ Calls(r, "delete", q) /\ release[r].left = {}
    /\ package' = [package EXCEPT ![q] = "none"]
    /\ CallTo(r, CallAt("mark", q))
    /\ Alone /\ UNCHANGED objects /\ UNCHANGED vars
CallMarks(r, q) ==
    /\ Calls(r, "mark", q) /\ Marks(q) /\ CallTo(r, NoCall)
    /\ Alone /\ UNCHANGED <<objects, package>>
DropCall(r) ==
    /\ up /\ release[r] # NoCall /\ Injects("drop") /\ CallTo(r, NoCall)
    /\ Alone /\ UNCHANGED <<objects, package>>
    /\ UNCHANGED <<state, journal, up, time, start, task, requested, executed, watch>>

-----------------------------------------------------------------------------
(* The process ends; what it was writing may be there.                     *)
CrashAll ==
    /\ Crash
    /\ \E written \in SUBSET Queries :
         objects' = [q \in Queries |-> objects[q] \cup (IF q \in written THEN InFlight(q) ELSE {})]
    /\ package' = [q \in Queries |-> "none"]
    /\ late' = [q \in Queries |-> {}]
    /\ pass' = NoPass /\ failed' = FALSE /\ reissue' = [q \in Queries |-> 0]
    /\ release' = [r \in Releasers |-> NoCall]
    /\ UNCHANGED <<strays, lease>>

(* Requests are refused once a retention pass has failed.                  *)
Request(q) == ~failed /\ (accept(q) \/ \E id \in Cancellations : CancelQuery(q, id))

Execution(q) ==
    \/ (AwaitRunning(q) \/ Sleep(q) \/ Pin(q) \/ Report(q) \/ RecordPage(q) \/ Shrink(q)
        \/ Seal(q) \/ AppendReady(q) \/ Succeed(q) \/ Fail(q) \/ CloseCancelled(q)
        \/ spawn_task(q) \/ FailStart(q)) /\ Unchanged
    \/ StorePage(q) \/ StoreManifest(q) \/ Register(q) \/ DiscardPackage(q)
Environment(q) ==
    \/ (Request(q) \/ DropStart(q)) /\ Unchanged
    \/ TakeBackPage(q) \/ ExecutionFails(q) \/ EndsOutside(q)
    \/ DropExecution(q) \/ AbortExecution(q) \/ LandsLate(q)
    \/ LeaseEnds(q) \/ TimePasses(q) \/ Reopen(q) \/ Reissue(q)
PassStep ==
    \/ ExpireHandles \/ Collect \/ Join \/ List
    \/ \E q \in Queries : Finalize(q) \/ PassDeletes(q) \/ PassDeleted(q) \/ PassMarks(q)
CallStep(r, q) ==
    \/ Revoke(r, q) \/ FinalizeReleased(r, q)
    \/ CallDeletes(r, q) \/ CallDeleted(r, q) \/ CallMarks(r, q)

RetentionNext ==
    \/ \E q \in Queries : Execution(q) \/ Environment(q) \/ PassFails(q)
    \/ StartPass \/ RefusePass \/ PassStep \/ JoinFails
    \/ \E r \in Releasers : DropCall(r)
                            \/ \E q \in Queries : ReleaseHandle(r, q) \/ CallStep(r, q) \/ CallFails(r, q)
    \/ CrashAll
    \/ (Drain \/ recover \/ RecoverPartly) /\ Unchanged

RetentionSpec == RetentionInit /\ [][RetentionNext]_allVars

(* Tasks and calls go on, deadlines and leases end, requests keep coming,  *)
(* each of which begins a retention pass, and a process that stopped is    *)
(* started again.                                                          *)
TimesOut(q) == time[q] # "Fresh" /\ (ExecutionFails(q) \/ DropExecution(q) \/ EndsOutside(q))
RetentionFairness ==
    /\ \A q \in Queries : /\ WF_allVars(Execution(q)) /\ WF_allVars(TimesOut(q))
                          /\ WF_allVars(TimePasses(q) \/ LeaseEnds(q))
    /\ WF_allVars(StartPass \/ RefusePass \/ PassStep) /\ WF_allVars(recover /\ Unchanged)
RetentionLiveSpec == RetentionSpec /\ RetentionFairness

-----------------------------------------------------------------------------
(* Types. A package is registered only for a query whose intent is in the  *)
(* journal.                                                                *)
RetentionTypeOK ==
    /\ {objects, late, strays} \subseteq [Queries -> SUBSET (0..Pages)]
    /\ package \in [Queries -> {"none", "live", "released", "taken", "retry"}]
    /\ lease \in [Queries -> {"none", "live", "over"}]
    /\ pass.at \in {"idle", "handles", "collect", "join", "list", "finalize", "delete",
                    "mark", "again", "rejoin"}
    /\ failed \in BOOLEAN /\ reissue \in [Queries -> 0..load.reissues]
    /\ \A q \in Queries : package[q] # "none" /\ q \in Records => HasObjects(journal[q])
    /\ \A r \in Releasers : release[r].at \in {"idle", "revoke", "finalize", "delete", "mark"}

(* No object is forgotten: whatever is in the store is named by a durable  *)
(* record that still keeps the result or still owes its deletion, across   *)
(* failed writes, aborted tasks, expired leases and restarts. Excepted is  *)
(* the one object whose put went on after its execution was dropped: it    *)
(* may be written after its deletion has been tried and acknowledged.      *)
(* Concurrent ReleaseResource calls break this too (ReleasedMeansDeleted). *)
ObjectsAreOwned ==
    load.releases = {} =>
        \A q \in Queries :
            objects[q] \subseteq (IF journal[q].retention = "Released" THEN strays[q]
                                 ELSE Named(journal[q]))

(* A result the journal keeps, and would reissue after a restart, has all  *)
(* its objects: no path deletes one before the durable revocation.         *)
KeptResultIsWhole ==
    \A q \in Queries : journal[q].phase = "Succeeded" /\ journal[q].retention = "Reserved"
                       => objects[q] = 0..journal[q].pages

(* A client that holds a live handle can read the whole package: retention *)
(* deletes nothing below a handle that is neither released nor expired.    *)
(* The exceptions are packages registered again after they were revoked:   *)
(* reopened while the query's lease ends, when the session ends before the *)
(* package's own lease; or reopened by two calls, where the result of the  *)
(* first is released before the second registers it.                       *)
LiveHandleReads ==
    (load.reissues = 0 \/ (load.long /\ (load.releases = {} \/ load.reissues = 1))) =>
        \A q \in Queries : package[q] = "live" /\ lease[q] = "live"
                           => objects[q] = Named(journal[q])

(* What is owed is deleted: a cleanup that is pending comes to an end,     *)
(* with passes begun by requests and any number of restarts, unless a pass *)
(* fails: then no other begins until the process is restarted.             *)
CleanupCompletes ==
    \A q \in Queries : journal[q].retention = "CleanupPending"
                       ~> journal[q].retention # "CleanupPending" \/ failed

(* Every accepted query is closed or removed, whatever happened to the     *)
(* call that started it, to its task and to its client: at the latest when *)
(* a retention pass sees that its lease is over.                           *)
QueriesClose ==
    \A q \in Queries : (q \in Phase({"Queued", "Running"}))
                       ~> (q \notin Phase({"Queued", "Running"}) \/ failed)

(* The store holds typed objects, each with a durable owner, but for the   *)
(* puts that outlive their execution.                                      *)
StoreIsOwned == RetentionTypeOK /\ ObjectsAreOwned

(* Results that are kept, or can be read, are whole.                       *)
ResultsAreWhole == KeptResultIsWhole /\ LiveHandleReads

-----------------------------------------------------------------------------
(* What the comments say and the code does not keep.                       *)

(* The durable acknowledgement of a cleanup means "that every              *)
(* locator-bound object was deleted or already absent".                    *)
ReleasedMeansDeleted ==
    \A q \in Queries : journal[q].retention = "Released" => objects[q] = {}

(* "Durable coordinator revocation is the sole authority that may move a   *)
(* retained package into exact object cleanup": a pass that meets no       *)
(* failure cleans up what has been revoked, and the service goes on.       *)
RetentionKeepsServing == load.kinds = {} => ~failed
=============================================================================
