-------------------------- MODULE WorkspaceUpdates --------------------------
(***************************************************************************)
(* How a workspace keeps its selected epoch up to date with the source     *)
(* tree, and what a query may be told about it.  Four kinds of threads     *)
(* share a few atomics (WorkspaceObservation in                            *)
(* src/src/fabric/workspace_updates.rs, FreshnessBarrier in                *)
(* src/src/freshness.rs):                                                  *)
(*   - the debounced watcher callback counts a source event and requests a *)
(*     census;                                                             *)
(*   - the owner of the watch requests one after every installation;       *)
(*   - the update loop (production_workspace_startup/updates.rs) waits for *)
(*     a hint, walks the tree, builds and activates a successor epoch and  *)
(*     advances the two freshness barriers;                                *)
(*   - queries (programmatic_query_backend.rs) request a census, wait for  *)
(*     their watermark, pin the selected epoch and read its label.         *)
(* The loads and stores of the atomics are separate steps wherever another *)
(* thread can come between them.                                           *)
(*                                                                         *)
(* Left out: rescan_watermark and the watch health flag, which no one but  *)
(* the status report reads; the deployment and Git digests, which are      *)
(* compared wherever the content digest is.                                *)
(***************************************************************************)
EXTENDS Naturals, FiniteSets, FiniteSetsExt

CONSTANTS Files,        \* paths of the source tree
          Contents,     \* what a file may hold
          Queries,      \* query admissions, one each
          Policies,     \* the freshness policies they ask for
          MaxRetries,   \* bound: retries of one query before its deadline
          Workloads     \* bound: what one behaviour may at most contain:
                        \* files and edits of them, periodic requests (ticks and
                        \* watch installations), faults (lost events, errors,
                        \* the cancellation) and the queries that arrive

ASSUME UpdatesAssumption ==
    /\ Policies \subseteq {"Best", "Source", "Semantic"}
    /\ Workloads \subseteq [files : SUBSET Files, edits : Nat, requests : Nat, faults : Nat,
                       queries : SUBSET Queries]
    /\ Queries \cap {"callback", "watch", "loop"} = {}

VARIABLES
    disk,        \* the tree
    unseen,      \* an edit's event is still inside the debounce window
    lost,        \* an event was dropped by the operating system
    counted,     \* the callback has counted an event and not requested yet
    events,      \* WorkspaceObservation.events
    full,        \* WorkspaceObservation.freshness
    source,      \* WorkspaceObservation.source_freshness
    published,   \* WorkspaceObservation.published_generation
    wake,        \* the wake channel of capacity one holds a hint
    posting,     \* watermark a thread has admitted in full and not mirrored
    generation,  \* the durable source generation of the workspace
    slot,        \* the selected epoch
    open,        \* the admission gate lets queries in
    unresolved,  \* candidate of an activation whose outcome is not known
    validation,  \* candidate PublishedCandidateValidation vouches for
    loop,        \* where the update loop is
    seen,        \* the census in progress, or the last one
    build,       \* the candidate build in progress
    query,       \* the query admissions
    cancelled,   \* the loop's scope is cancelled
    left         \* what is left of the workload

tree == <<disk, unseen, lost>>
observation == <<counted, events, full, source, published, wake, posting>>
epochs == <<generation, slot, open, unresolved, validation>>
updater == <<loop, seen, build>>
vars == <<tree, observation, epochs, updater, query, cancelled, left>>

None == [content |-> <<>>, gen |-> 0, pending |-> FALSE]
Threads == {"callback", "watch", "loop"} \cup Queries
Members == DOMAIN disk
Trees == [Members -> Contents]

-----------------------------------------------------------------------------
(* FreshnessBarrier and WorkspaceObservation                               *)

\* Mutant: whatever is admitted by now counts as observed.
RestoredToLatest(b, w) == [b EXCEPT !.unavailable = FALSE, !.reconciled = b.admitted]

Restored(b, w) == [b EXCEPT !.unavailable = FALSE,
                            !.reconciled = Max({@, Min({w, b.admitted})})]

State(b) == IF b.unavailable THEN "Unavailable"
            ELSE IF b.reconciled >= b.admitted THEN "Current"
            ELSE "PotentiallyStale"

\* request: the watermark is admitted in one barrier, then mirrored into the
\* other and followed by a hint.
Admit(t) ==
    /\ full' = [full EXCEPT !.admitted = @ + 1]
    /\ posting' = [posting EXCEPT ![t] = full.admitted + 1]

Mirror(t) ==
    /\ posting[t] # 0
    /\ source' = [source EXCEPT !.admitted = Max({@, posting[t]})]
    /\ posting' = [posting EXCEPT ![t] = 0]
    /\ wake' = TRUE

\* Mutant: a query is registered only once it sleeps.
WaitsOnceAsleep(q, policies) == query[q].at = "Asleep" /\ query[q].policy \in policies

\* notify_waiters reaches the queries that have registered on the barrier.
Waits(q, policies) ==
    query[q].at \in {"Check", "Await", "Asleep"} /\ query[q].policy \in policies

Notify(policies) ==
    query' = [q \in Queries |->
                IF Waits(q, policies) THEN [query[q] EXCEPT !.notified = TRUE] ELSE query[q]]

-----------------------------------------------------------------------------
idleLoop == [pc |-> "Select", then |-> "Select", recover |-> FALSE, stage |-> "Source",
             observed |-> [content |-> <<>>, events |-> 0], semantic |-> FALSE]
idleCensus == [purpose |-> "First", watermark |-> 0, events |-> 0, gen |-> 0, content |-> <<>>]
idleBuild == [at |-> "Idle", content |-> <<>>, gen |-> 0]

Fresh(n) == [admitted |-> n, reconciled |-> 0, unavailable |-> FALSE]

\* The update loop starts after the first watch is installed and an epoch is
\* selected: the genesis epoch, or the one a previous process left, which may
\* be older than the tree and than the durable generation.
Init ==
    /\ left \in Workloads
    /\ \E c \in Contents : disk = [f \in left.files |-> c]
    /\ unseen = FALSE /\ lost = FALSE /\ counted = FALSE /\ events = 0
    /\ full = Fresh(1) /\ source = Fresh(1) /\ published = 0 /\ wake = TRUE
    /\ posting = [t \in Threads |-> 0]
    /\ generation \in {0, 1}
    /\ \E c \in Trees, p \in BOOLEAN : slot = [content |-> c, gen |-> 0, pending |-> p]
    /\ open = TRUE /\ unresolved = None /\ validation = None
    /\ loop = idleLoop /\ seen = idleCensus /\ build = idleBuild
    /\ query = [q \in Queries |->
                  [at |-> "Idle", policy |-> "Best", target |-> 0, notified |-> FALSE,
                   pin |-> None, label |-> "None", tries |-> 0,
                   held |-> [f \in Members |-> {}]]]
    /\ cancelled = FALSE

-----------------------------------------------------------------------------
(* The source tree, the watcher callback and the owner of the watch        *)

Unfinished(q) == query[q].at \notin {"Idle", "Done", "Refused", "Deadline", "Unavailable"}

\* held records, for the properties, what each file has held since a query
\* asked for current source.
Edit(f, c) ==
    /\ left.edits > 0
    /\ disk' = [disk EXCEPT ![f] = c]
    /\ unseen' = TRUE
    /\ query' = [q \in Queries |->
                   IF Unfinished(q) THEN [query[q] EXCEPT !.held[f] = @ \cup {c}] ELSE query[q]]
    /\ left' = [left EXCEPT !.edits = @ - 1]
    /\ UNCHANGED <<lost, observation, epochs, updater, cancelled>>

Fault ==
    /\ left.faults > 0
    /\ left' = [left EXCEPT !.faults = @ - 1]

LoseEvent ==
    /\ unseen
    /\ unseen' = FALSE /\ lost' = TRUE
    /\ Fault
    /\ UNCHANGED <<disk, observation, epochs, updater, query, cancelled>>

\* observe_events: event counts first and requests afterwards.
CountEvent ==
    /\ unseen /\ ~counted /\ posting["callback"] = 0
    /\ unseen' = FALSE /\ counted' = TRUE /\ events' = events + 1
    /\ UNCHANGED <<disk, lost, full, source, published, wake, posting, epochs, updater,
                   query, cancelled, left>>

RequestForEvent ==
    /\ counted
    /\ Admit("callback")
    /\ counted' = FALSE
    /\ UNCHANGED <<tree, events, source, published, wake, epochs, updater, query, cancelled, left>>

\* The owner of the watch requests a census after every installation.
WatchInstalled ==
    /\ left.requests > 0 /\ posting["watch"] = 0
    /\ Admit("watch")
    /\ left' = [left EXCEPT !.requests = @ - 1]
    /\ UNCHANGED <<tree, counted, events, source, published, wake, epochs, updater, query, cancelled>>

MirrorHint(t) ==
    /\ Mirror(t)
    /\ UNCHANGED <<tree, counted, events, full, published, epochs, updater, query, cancelled, left>>

Cancel ==
    /\ ~cancelled
    /\ cancelled' = TRUE
    /\ Fault
    /\ UNCHANGED <<tree, observation, epochs, updater, query>>

-----------------------------------------------------------------------------
(* run: the select at the top of the update loop and its four outcomes     *)

At(pc) == loop.pc = pc
Goes(pc) == loop' = [loop EXCEPT !.pc = pc]

\* What reconcile holds ends with it; needs_recovery is the loop's.
Leaves(pc) == loop' = [idleLoop EXCEPT !.pc = pc, !.recover = loop.recover]

\* observation.request(true) by the loop itself, which goes on at pc.
AskAgain(pc) ==
    /\ Admit("loop")
    /\ loop' = [loop EXCEPT !.pc = "Mirror", !.then = pc]

\* Mutant: an interrupted reconciliation leaves no request behind.
UnsettledSilently ==
    /\ Leaves("Select")
    /\ seen' = idleCensus /\ build' = idleBuild
    /\ UNCHANGED <<full, posting>>

\* Ok(false) and a capture that met a changing source: still pending work.
Unsettled ==
    /\ Admit("loop")
    /\ Leaves("Mirror")
    /\ seen' = idleCensus /\ build' = idleBuild

\* Any other error.  recover keeps its value.
Errs ==
    /\ Fault
    /\ Leaves("Error")
    /\ seen' = idleCensus /\ build' = idleBuild

Select ==
    /\ At("Select")
    /\ \/ cancelled /\ Goes("Stopped") /\ UNCHANGED <<full, posting, wake, left>>
       \/ /\ ~cancelled /\ left.requests > 0
          /\ left' = [left EXCEPT !.requests = @ - 1]
          /\ AskAgain("Begin") /\ UNCHANGED wake
       \/ /\ ~cancelled /\ wake
          /\ wake' = FALSE /\ Goes("Begin") /\ UNCHANGED <<full, posting, left>>
    /\ UNCHANGED <<tree, counted, events, source, published, epochs, seen, build, query, cancelled>>

LoopMirrors ==
    /\ At("Mirror")
    /\ Mirror("loop")
    /\ Goes(loop.then)
    /\ UNCHANGED <<tree, counted, events, full, published, epochs, seen, build, query,
                   cancelled, left>>

MarkUnavailable ==
    /\ At("Error")
    /\ IF cancelled
       THEN Goes("Stopped") /\ UNCHANGED <<full, source, query>>
       ELSE /\ Goes("Backoff")
            /\ full' = [full EXCEPT !.unavailable = TRUE]
            /\ source' = [source EXCEPT !.unavailable = TRUE]
            /\ Notify(Policies)
    /\ UNCHANGED <<tree, counted, events, published, wake, posting, epochs, seen, build,
                   cancelled, left>>

\* Mutant: the loop leaves its pause without a request.
ResumeSilently ==
    /\ At("Backoff")
    /\ IF cancelled
       THEN Goes("Stopped") /\ UNCHANGED wake
       ELSE Goes("Select") /\ wake' \in {wake, FALSE}
    /\ UNCHANGED <<tree, counted, events, full, posting, source, published, epochs, seen, build,
                   query, cancelled, left>>

\* Half a second, a hint or the cancellation ends the pause.
Resume ==
    /\ At("Backoff")
    /\ IF cancelled
       THEN Goes("Stopped") /\ UNCHANGED <<full, posting, wake>>
       ELSE AskAgain("Select") /\ wake' \in {wake, FALSE}
    /\ UNCHANGED <<tree, counted, events, source, published, epochs, seen, build, query,
                   cancelled, left>>

-----------------------------------------------------------------------------
(* reconcile: recovery of an unresolved publication, then the first census *)

Census(purpose) ==
    /\ Goes("Observe")
    /\ seen' = [idleCensus EXCEPT !.purpose = purpose]

\* recover_publication settles the activation one way or the other, or fails.
RecoverPublication ==
    /\ At("Begin") /\ loop.recover
    /\ \/ /\ slot' \in IF unresolved = None THEN {slot} ELSE {slot, unresolved}
          /\ unresolved' = None /\ open' = TRUE
          /\ loop' = [loop EXCEPT !.recover = FALSE]
          /\ UNCHANGED <<seen, build, left>>
       \/ Errs /\ UNCHANGED <<slot, unresolved, open>>
    /\ UNCHANGED <<tree, observation, generation, validation, query, cancelled>>

\* census: the watermark and the event revision are read before the walk.
ObserveWatermark ==
    /\ At("Observe") \/ (At("Begin") /\ ~loop.recover)
    /\ \/ /\ seen' = [seen EXCEPT !.watermark = full.admitted, !.events = events,
                                  !.gen = generation]
          /\ Goes("Walk") /\ UNCHANGED <<build, left>>
       \/ Errs
    /\ UNCHANGED <<tree, observation, epochs, query, cancelled>>

\* The walk reads one member after another.
ReadFile(f) ==
    /\ At("Walk") /\ f \notin DOMAIN seen.content
    /\ seen' = [seen EXCEPT !.content =
                  [g \in DOMAIN seen.content \cup {f} |-> IF g = f THEN disk[f] ELSE @[g]]]
    /\ UNCHANGED <<tree, observation, epochs, loop, build, query, cancelled, left>>

\* walk_selected_with_fence refuses a walk an event was counted in.
Fenced(purpose) ==
    /\ At("Walk") /\ DOMAIN seen.content = Members
    /\ seen.purpose = purpose
    /\ events = seen.events

SourceChanged ==
    /\ At("Walk") /\ DOMAIN seen.content = Members
    /\ events # seen.events
    /\ Unsettled
    /\ UNCHANGED <<tree, counted, events, source, published, wake, epochs, query, cancelled, left>>

\* matches_observed_inputs and the generation of the selected epoch.
Matches(e) == e.content = seen.content /\ e.gen = seen.gen

\* source_reconciled and reconciled publish the generation first.
Publishes(semantic, pc) == [loop EXCEPT !.pc = "Publish", !.then = pc, !.semantic = semantic]

FirstCensus ==
    /\ Fenced("First")
    /\ loop' = [(IF ~Matches(slot) THEN [loop EXCEPT !.pc = "Advance"]
                 ELSE IF slot.pending THEN Publishes(FALSE, "Build")
                 ELSE Publishes(TRUE, "Select"))
                EXCEPT !.observed = [content |-> seen.content, events |-> seen.events],
                       !.stage = IF Matches(slot) THEN "Semantic" ELSE "Source"]
    /\ UNCHANGED <<tree, observation, epochs, seen, build, query, cancelled, left>>

AdvanceGeneration ==
    /\ At("Advance")
    /\ \/ generation' = seen.gen + 1 /\ Goes("Build") /\ UNCHANGED <<seen, build, left>>
       \/ Errs /\ UNCHANGED generation
    /\ UNCHANGED <<tree, observation, slot, open, unresolved, validation, query, cancelled>>

PublishGeneration ==
    /\ At("Publish")
    /\ published' = seen.gen
    /\ Goes("RestoreSource")
    /\ UNCHANGED <<tree, counted, events, full, source, wake, posting, epochs, seen, build,
                   query, cancelled, left>>

\* On to the build of the next stage, or back to the select.
Continue ==
    /\ IF loop.then = "Build" THEN Goes("Build") ELSE Leaves("Select")
    /\ seen' = idleCensus

RestoreSource ==
    /\ At("RestoreSource")
    /\ source' = Restored(source, seen.watermark)
    /\ Notify({"Source", "Best"})
    /\ IF loop.semantic THEN Goes("RestoreFull") /\ UNCHANGED seen ELSE Continue
    /\ UNCHANGED <<tree, counted, events, full, published, wake, posting, epochs, build,
                   cancelled, left>>

RestoreFull ==
    /\ At("RestoreFull")
    /\ full' = Restored(full, seen.watermark)
    /\ Notify({"Semantic"})
    /\ Continue
    /\ UNCHANGED <<tree, counted, events, source, published, wake, posting, epochs, build,
                   cancelled, left>>

-----------------------------------------------------------------------------
(* build_observed_candidate: an owned build beside a loop that takes hints *)

\* The capture walks the tree, and walks it again before a provider runs.
Capture ==
    /\ At("Build") /\ build.at = "Idle"
    /\ build' = [at |-> "Check", content |-> disk, gen |-> generation]
    /\ UNCHANGED <<tree, observation, epochs, loop, seen, query, cancelled, left>>

CheckCapture ==
    /\ build.at = "Check"
    /\ build' = [build EXCEPT !.at = IF disk = build.content THEN "Ready" ELSE "Changed"]
    /\ UNCHANGED <<tree, observation, epochs, loop, seen, query, cancelled, left>>

BuildEnds ==
    /\ At("Build")
    /\ \/ build.at = "Ready" /\ Census("Final") /\ UNCHANGED <<full, posting, build, left>>
       \/ build.at = "Changed" /\ Unsettled /\ UNCHANGED left
       \/ build.at = "Check" /\ Errs /\ UNCHANGED <<full, posting>>
    /\ UNCHANGED <<tree, counted, events, source, published, wake, epochs, query, cancelled>>

Building == At("Build") /\ build.at \in {"Idle", "Check"}

\* Only the build's own scope is cancelled; it is joined before Ok(None).
BuildCancelled ==
    /\ Building /\ cancelled
    /\ Unsettled
    /\ UNCHANGED <<tree, counted, events, source, published, wake, epochs, query, cancelled, left>>

BuildTick ==
    /\ Building /\ ~cancelled
    /\ left.requests > 0
    /\ left' = [left EXCEPT !.requests = @ - 1]
    /\ AskAgain("Build")
    /\ UNCHANGED <<tree, counted, events, source, published, wake, epochs, seen, build, query,
                   cancelled>>

BuildHint ==
    /\ Building /\ ~cancelled /\ wake
    /\ wake' = FALSE
    /\ IF events # loop.observed.events
       THEN Unsettled
       ELSE Census("Mid") /\ UNCHANGED <<full, posting, build>>
    /\ UNCHANGED <<tree, counted, events, source, published, epochs, query, cancelled, left>>

SameAsObserved ==
    /\ seen.content = loop.observed.content
    /\ seen.events = loop.observed.events

MidCensus ==
    /\ Fenced("Mid")
    /\ IF SameAsObserved
       THEN /\ loop' = IF Matches(slot) THEN Publishes(FALSE, "Build")
                       ELSE [loop EXCEPT !.pc = "Build"]
            /\ UNCHANGED <<full, posting, seen, build>>
       ELSE Unsettled
    /\ UNCHANGED <<tree, counted, events, source, published, wake, epochs, query, cancelled, left>>

-----------------------------------------------------------------------------
(* The final fence and the activation                                      *)

Candidate == [content |-> build.content, gen |-> build.gen, pending |-> loop.stage = "Source"]

\* The last look at the event revision comes after the candidate's inventory
\* is read back.
FinalFence == Matches(Candidate) /\ SameAsObserved /\ events = seen.events

FinalCensus ==
    /\ Fenced("Final")
    /\ Goes("Verify")
    /\ UNCHANGED <<tree, observation, epochs, seen, build, query, cancelled, left>>

\* The validation of the candidate replaces the previous one, and the
\* activation command is submitted.
Submit ==
    /\ At("Verify")
    /\ IF FinalFence
       THEN /\ validation' = Candidate /\ unresolved' = Candidate /\ open' = FALSE
            /\ loop' = [loop EXCEPT !.pc = "Activate", !.recover = TRUE]
            /\ build' = idleBuild
            /\ UNCHANGED <<full, posting, seen>>
       ELSE Unsettled /\ UNCHANGED <<validation, unresolved, open>>
    /\ UNCHANGED <<tree, counted, events, source, published, wake, generation, slot, query,
                   cancelled, left>>

\* A source epoch is followed by its semantic successor.
Activated ==
    /\ At("Activate")
    /\ slot' = unresolved
    /\ unresolved' = None /\ open' = TRUE
    /\ loop' = [(IF loop.stage = "Source" THEN Publishes(FALSE, "Build")
                 ELSE Publishes(TRUE, "Select"))
                EXCEPT !.recover = FALSE, !.stage = "Semantic"]
    /\ UNCHANGED <<tree, observation, generation, validation, seen, build, query, cancelled, left>>

\* Mutant: a failed activation clears the obligation to recover it.
ActivationErrsForgotten ==
    /\ At("Activate")
    /\ Fault
    /\ loop' = [idleLoop EXCEPT !.pc = "Error"]
    /\ seen' = idleCensus /\ build' = idleBuild
    /\ \/ unresolved' = None /\ open' = TRUE
       \/ UNCHANGED <<unresolved, open>>
    /\ UNCHANGED <<tree, observation, generation, slot, validation, query, cancelled>>

\* The command failed, or was not settled by the recovery that follows it.
ActivationErrs ==
    /\ At("Activate")
    /\ Errs
    /\ \/ unresolved' = None /\ open' = TRUE
       \/ UNCHANGED <<unresolved, open>>
    /\ UNCHANGED <<tree, observation, generation, slot, validation, query, cancelled>>

-----------------------------------------------------------------------------
(* Query admission: await_freshness, then admit_execution_request          *)

Barrier(q) == IF query[q].policy = "Semantic" THEN full ELSE source

Ended(q, at) == [query[q] EXCEPT !.at = at, !.target = 0, !.notified = FALSE, !.tries = 0]

QueryGoes(q, at) ==
    query' = [query EXCEPT ![q] =
                IF at \in {"Unavailable", "Refused", "Deadline"}
                THEN [Ended(q, at) EXCEPT !.pin = None, !.held = [f \in Members |-> {}]]
                ELSE [@ EXCEPT !.at = at]]

others == <<tree, counted, events, published, epochs, updater, cancelled, left>>

Arrive(q, policy) ==
    /\ q \in left.queries
    /\ left' = [left EXCEPT !.queries = @ \ {q}]
    /\ query' = [query EXCEPT ![q].at = IF policy = "Best" THEN "Lease" ELSE "Request",
                              ![q].policy = policy,
                              ![q].held = [f \in Members |-> {disk[f]}]]
    /\ UNCHANGED <<tree, observation, epochs, updater, cancelled>>

RequestCensus(q) ==
    /\ query[q].at = "Request"
    /\ Admit(q)
    /\ QueryGoes(q, "Mirror")
    /\ UNCHANGED <<source, wake, others>>

MirrorCensus(q) ==
    /\ query[q].at = "Mirror"
    /\ Mirror(q)
    /\ QueryGoes(q, "Target")
    /\ UNCHANGED <<full, others>>

\* admit_query captures the admitted watermark once, and enables a
\* notification before it reads the watermarks.
Register(q) ==
    /\ query[q].at = "Target"
    /\ query' = [query EXCEPT ![q].at = "Check", ![q].target = Barrier(q).admitted]
    /\ UNCHANGED <<full, source, wake, posting, others>>

CheckWatermark(q) ==
    /\ query[q].at = "Check"
    /\ QueryGoes(q, IF Barrier(q).unavailable THEN "Unavailable"
                    ELSE IF Barrier(q).reconciled >= query[q].target THEN "Lease"
                    ELSE "Await")
    /\ UNCHANGED <<full, source, wake, posting, others>>

Sleep(q) ==
    /\ query[q].at = "Await"
    /\ QueryGoes(q, "Asleep")
    /\ UNCHANGED <<full, source, wake, posting, others>>

\* A woken query enables the next notification first.
Awake(q) ==
    /\ query[q].at = "Asleep" /\ query[q].notified
    /\ query' = [query EXCEPT ![q].at = "Check", ![q].notified = FALSE]
    /\ UNCHANGED <<full, source, wake, posting, others>>

Deadline(q) ==
    /\ query[q].at = "Asleep"
    /\ QueryGoes(q, "Deadline")
    /\ UNCHANGED <<full, source, wake, posting, others>>

\* The slot is leased before the gate is asked; admit_selected does not
\* compare the leased epoch with the selected one.
LeaseSlot(q) ==
    /\ query[q].at = "Lease"
    /\ query' = [query EXCEPT ![q].at = "Pin", ![q].pin = slot]
    /\ UNCHANGED <<full, source, wake, posting, others>>

\* FRESHNESS_SELECTION_CHANGED: a strict request starts over within its
\* deadline, a best-available one fails.
SelectionChanged(q) ==
    IF query[q].policy = "Best" THEN QueryGoes(q, "Refused")
    ELSE IF query[q].tries = MaxRetries THEN QueryGoes(q, "Deadline")
    ELSE query' = [query EXCEPT ![q].at = "Request", ![q].target = 0, ![q].notified = FALSE,
                                ![q].pin = None, ![q].tries = @ + 1]

Labelled(q, state) ==
    IF query[q].policy # "Best" /\ state # "Current"
    THEN SelectionChanged(q)
    ELSE query' = [query EXCEPT ![q] = [Ended(q, "Done") EXCEPT !.label = state]]

PinEpoch(q) ==
    /\ query[q].at = "Pin"
    /\ IF open THEN QueryGoes(q, "Compare") ELSE SelectionChanged(q)
    /\ UNCHANGED <<full, source, wake, posting, others>>

\* state_for and source_state_for compare the generation first and read the
\* watermarks afterwards.
CompareGeneration(q) ==
    /\ query[q].at = "Compare"
    /\ IF query[q].policy = "Semantic" /\ query[q].pin.pending
       THEN Labelled(q, "PotentiallyStale")
       ELSE IF Barrier(q).unavailable THEN Labelled(q, "Unavailable")
       ELSE IF query[q].pin.gen # published THEN Labelled(q, "PotentiallyStale")
       ELSE QueryGoes(q, "Label")
    /\ UNCHANGED <<full, source, wake, posting, others>>

ReadLabel(q) ==
    /\ query[q].at = "Label"
    /\ Labelled(q, State(Barrier(q)))
    /\ UNCHANGED <<full, source, wake, posting, others>>

-----------------------------------------------------------------------------
Environment ==
    \/ \E f \in Members, c \in Contents : Edit(f, c)
    \/ LoseEvent \/ WatchInstalled \/ Cancel

Callback == CountEvent \/ RequestForEvent \/ MirrorHint("callback") \/ MirrorHint("watch")

Loop ==
    \/ Select \/ LoopMirrors \/ MarkUnavailable \/ Resume
    \/ RecoverPublication
    \/ ObserveWatermark \/ (\E f \in Members : ReadFile(f)) \/ SourceChanged
    \/ FirstCensus \/ AdvanceGeneration
    \/ PublishGeneration \/ RestoreSource \/ RestoreFull
    \/ BuildEnds \/ BuildCancelled \/ BuildTick \/ BuildHint \/ MidCensus
    \/ FinalCensus \/ Submit \/ Activated \/ ActivationErrs

Build == Capture \/ CheckCapture

QueryProceeds(q) ==
    \/ RequestCensus(q) \/ MirrorCensus(q) \/ Register(q)
    \/ CheckWatermark(q) \/ Sleep(q) \/ Awake(q)
    \/ LeaseSlot(q) \/ PinEpoch(q) \/ CompareGeneration(q) \/ ReadLabel(q)

QueryStep(q) == (\E p \in Policies : Arrive(q, p)) \/ QueryProceeds(q) \/ Deadline(q)

Next == Environment \/ Callback \/ Loop \/ Build \/ \E q \in Queries : QueryStep(q)

Spec == Init /\ [][Next]_vars

\* The runtime polls the loop, its build and a query that can go on, and a
\* callback that has begun finishes; no edit, fault, deadline or cancellation
\* has to happen.
Fairness ==
    /\ WF_vars(Loop) /\ WF_vars(Build) /\ WF_vars(Callback)
    /\ \A q \in Queries : WF_vars(QueryProceeds(q))

LiveSpec == Spec /\ Fairness

-----------------------------------------------------------------------------
(* Properties                                                              *)

Labels == {"None", "Current", "PotentiallyStale", "Unavailable"}
Barriers == [admitted : Nat, reconciled : Nat, unavailable : BOOLEAN]

\* The barriers, the slot, the loop and the queries have the types of
\* WorkspaceObservation, WorkspaceSlot and the update owner; a barrier never
\* reports more than was requested (freshness.rs:72-76).
TypeOK ==
    /\ disk \in Trees /\ published \in Nat /\ generation \in Nat
    /\ full \in Barriers /\ source \in Barriers
    /\ full.reconciled <= full.admitted /\ source.reconciled <= source.admitted
    /\ source.admitted <= full.admitted
    /\ slot.content \in Trees /\ slot.gen <= generation
    /\ unresolved # None => unresolved.gen = generation
    /\ \A q \in Queries : query[q].label \in Labels

\* A query that asked for current source (require_source_current, or a
\* semantic policy) and was admitted has pinned an epoch every file of which
\* was on disk, with that content, at a moment since the query arrived; a
\* semantic policy never gets an epoch whose semantic stage is outstanding
\* (programmatic_query_backend.rs:897-898, 1032-1041).
StrictAnswerIsRecent ==
    \A q \in Queries :
        query[q].at = "Done" /\ query[q].policy # "Best" =>
            /\ \A f \in Members : query[q].pin.content[f] \in query[q].held[f]
            /\ query[q].policy = "Semantic" => ~query[q].pin.pending

\* Once every event has been delivered and requested, a source barrier that
\* says Current for the selected epoch means the epoch is what the tree holds
\* (workspace_updates.rs:267-288): no event is swallowed by a census that
\* walked before it, by the hint channel of capacity one, or by a build.
CurrentMeansTheTree ==
    /\ ~unseen /\ ~lost /\ ~counted
    /\ \A t \in Threads : posting[t] = 0
    /\ State(source) = "Current" /\ slot.gen = published
    => slot.content = disk

\* While the outcome of an activation is unknown the validation stays that of
\* its candidate, and no other publication is submitted (updates.rs:319-320).
UnresolvedKeepsItsValidation == unresolved # None => validation = unresolved

\* See UnresolvedKeepsItsValidation: the unresolved candidate is settled, never
\* replaced.
KeepsUnresolved == unresolved # None => unresolved' \in {None, unresolved}

\* A requested census happens: unless the loop is stopped, both barriers catch
\* up with every admitted watermark once edits, requests and faults end, which
\* the bounds of an instance make them do (updates.rs:82-132).
RequestsAreReconciled ==
    []<>(cancelled \/ (full.reconciled = full.admitted /\ source.reconciled = source.admitted))

\* An outage marked by a failed reconciliation ends without another event
\* (updates.rs:115-129).
OutageEnds == full.unavailable \/ source.unavailable ~> cancelled \/
                  ~(full.unavailable \/ source.unavailable)

\* A query asleep on a watermark that is reconciled wakes up without waiting
\* for its deadline (freshness.rs:139-142).
NoLostWakeup ==
    \A q \in Queries :
        query[q].at = "Asleep" /\ Barrier(q).reconciled >= query[q].target
            ~> query[q].at # "Asleep"

\* The barriers are ordered watermarks, and Current is true of the tree.
BarrierTellsTheTruth == TypeOK /\ CurrentMeansTheTree

\* Publications are serial: an unresolved one is settled, with the validation it
\* was submitted under, before there is another.
PublicationsAreSerial ==
    [][UnresolvedKeepsItsValidation' /\ KeepsUnresolved]_vars

-----------------------------------------------------------------------------
(* What a plan and an error message say and the code does not keep.        *)

\* Only explicit best-available semantics may serve older material, and must
\* label it (docs/plans/codefabric_pragmatic_production_outcomes_4_8_detailed_
\* implementation_plan_2026-09-09.md:1507): a snapshot labelled Current belongs
\* to the generation that is published when the label is read.
CurrentLabelIsOfThePublished ==
    [][\A q \in Queries :
         query[q].at = "Label" /\ query'[q].at = "Done" /\ query'[q].label = "Current"
             => query[q].pin.gen = published]_vars

\* A strict request is turned away with "source changed before the selected
\* epoch could be pinned" (programmatic_query_backend.rs:1046) only if the
\* source did change.
RefusalMeansChange ==
    [][\A q \in Queries :
         query[q].at = "Label" /\ query'[q].at \in {"Request", "Deadline"}
             => \/ \E f \in Members : query[q].held[f] # {query[q].pin.content[f]}
                \/ source.unavailable]_vars

=============================================================================
