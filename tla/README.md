# CodeFabric: a TLA+ verification project

CodeFabric serves a code property graph of a workspace to coding agents. An agent
talks to `codefabric mcp serve`, a Python FastMCP adapter, which talks gRPC over a Unix
socket to one `codefabricd` per workspace supervisor; the daemon runs fact providers
(rustc extractor, Pyrefly sidecar, Ruff, tree-sitter) as subprocesses, stores relations
in Delta tables, and serves queries from one immutable *epoch* at a time.

The models follow four paths through the daemon:

1. **writing**: a durable command, journalled in SQLite and executed by a serial actor
   under a fenced writer lease;
2. **activation**: the command that makes a new epoch the selected one, and the gate that
   admits queries to it;
3. **freshness**: the loop that turns changes of the source tree into new epochs, and what
   a query is told about how current its answer is;
4. **querying**: queries accepted, scheduled, executed and watched, and their result
   objects kept, handed out and deleted;

and the two services all of them stand on: resource budgets and task scopes.

Paths below are relative to the repository's crate; `fabric/` is `src/fabric/`.
`PROJECT.json` holds the machine-readable side: components, runs, mutants, the map from
definitions to source lines, findings, hazards and theorems.

## 1. Inventory

| Part | Source | State | Module | Status |
|---|---|---|---|---|
| Command reducer | `fabric/command.rs` | `CommandRecord` | `FabricCommand` | modelled |
| Command journal | `fabric/command_record_sqlite.rs` | one row per operation, unique key | `CommandJournal` | modelled |
| Command actor | `fabric/command_actor.rs` | mailbox, ingress gate, message in progress | `CommandRuntime` | modelled |
| Command runtime | `fabric/command_runtime.rs`, `command_runtime_ports.rs` | lease, actor task, recovery pass | `CommandRuntime` | modelled |
| Runtime manager | `fabric/command_runtime_manager.rs` | runtimes by workspace | `CommandManager` | modelled |
| Writer generation and lease | `fabric/writer_generation_sqlite.rs`, `writer_lease.rs` | OS lock, newest generation | `WriterLease` | modelled |
| Daemon startup | `daemon.rs` | leases acquired so far | `WriterLease` | partly |
| Activation transaction | `fabric/activation*.rs`, `programmatic_activation_command_*.rs` | chain, tickets, stage | `EpochActivation` | partly |
| Epoch admission | `fabric/admission.rs`, `programmatic_activation_admission.rs` | gate, slot, leases | `EpochActivation` | partly |
| Other effect families, router | `fabric/*_command_effect.rs`, `command_effect_*.rs` | none of their own | the effect port of `CommandRuntime` | as a port |
| Delta commit reconciliation | `fabric/delta_commit_reconciliation.rs` | read only | verdicts in `EpochActivation`, `CommandRuntime` | partly |
| Update loop | `fabric/production_workspace_startup*`, `workspace_updates.rs`, `inventory.rs` | watermarks, census, publication | `WorkspaceUpdates` | partly |
| Freshness barrier | `freshness.rs` | admitted and reconciled watermark | `WorkspaceUpdates` | modelled |
| Query admission by freshness | `fabric/programmatic_query_backend.rs` | one query's position | `WorkspaceUpdates` | partly |
| Query coordinator | `fabric/query_coordinator.rs` | handles, queue, counters, journal | `QueryCoordinator` | partly |
| Query service | `query_service.rs` | query tasks, watch streams, retention pass | `QueryCoordinator`, `ResultRetention` | partly |
| Result packages and registry | `fabric/streamed_result_*` | objects, handles, pending deletions | `ResultRetention` | partly |
| Resource budget | `resource_budget.rs` | ledger of a tree of scopes | `ResourceBudget` | partly |
| Task scopes | `cancellation/owned.rs` | registry, tokens, permits | `TaskScopes` | partly |
| The rest | see section 7 | | | not modelled |

What is hard in these parts is listed in `PROJECT.json` under "hazards", each at the line
where it bites, with the properties that would catch it going wrong: port calls whose
answer is lost, crashes between two durable writes, calls dropped at an await, values held
across an await or an unlock, notifications between a check and a sleep, retries of what
was already done, limits and leases that run out.

## 2. How the modules fit together

```
CommandLedger   CommandJournal   WriterAuthority        (abstract)
      ^               ^            ^         ^
      |               |            |         |
      +------ CommandRuntime ------+     WriterLease
                 ^      ^
   its runtime   |      |   its prepare / commit / reconcile port
          CommandManager   EpochActivation -- slot and gate --+
                                                              |
   WorkspaceUpdates (publishes epochs, labels queries) -------+
   QueryCoordinator <== EXTENDS == ResultRetention
   ResourceBudget       TaskScopes
```

An arrow to the first line is a refinement, checked by TLC and proved by TLAPS.
`WriterLease` and `CommandRuntime` are composed through `WriterAuthority`: the lease
provides it for each workspace, and the runtime uses authority only in the ways it allows.
`ResultRetention` composes the result store with the whole of `QueryCoordinator`: its
steps are steps of the coordinator conjoined with what they do to the store. The other
connections are interfaces: `CommandManager` sees of a runtime what `CommandRuntime`
shows, `EpochActivation` is one effect family in full, between the actor that calls it and
the gate, and `WorkspaceUpdates` calls an activation one step with its possible outcomes.

`MC*` modules hold the constants of the instances; `*Proofs` hold theorems and their lemmas.

**Workloads.** Where an instance with everything at once is too large, the environment's
bounds (how many edits, faults, requests; which queries start, are watched, cancelled,
expire) are one record, chosen in `Init` from the constant set `Workloads` and used up by
the actions. One run then covers the union of several small instances: say, a fault beside
an edit, and a fault beside a query. The record bounds the environment only; no step of
the program reads it.

## 3. State and actions against the code

`PROJECT.json` maps every definition to its lines. Here is how to read the modules.

**`FabricCommand`.** An operator returns the set of its possible answers, so a Rust `Err`
is the empty set and `Some(x)` is `{x}`. `reduce_admitted`, `reduce_executing` and so on
are `ReduceAdmitted`, `ReduceExecuting`. `checked_add` on revisions, attempts and probes is bounded by
`MaxRevision`, `MaxAttempt` and `MaxProbe`: past the bound the answer is empty, as it is in
the code at the end of the type's range. References are opaque.

**`CommandRuntime`.** A step ends wherever a crash can separate two durable writes.

| Code | Action |
|---|---|
| `submit`, `try_submit`; other handle methods | `Submit`; `Request` |
| `run` taking a submit up to the admitted row | `ReceiveSubmit` |
| `process_cancel`, `process_retry`, `process_resume_precommit`, `process_mark_interrupted_commit`, `process_reconcile` up to the transition | `ReceiveRequest`, `ReceiveIndeterminate` |
| `OpenAdmission` | `ReceiveOpenAdmission` |
| `transition` stored, or refused, conflicting or failing | `Transition`, `TransitionFails` |
| `validate_idempotent` and `effects.prepare` / `effects.commit` | `Prepare`, `Commit`, `EffectRefused` |
| `recover_and_open_bounded` | `StartRecovery`, `LoadPage`, `RecoverRow`, `CloseBeforeOpening`, `OpenCommandAdmission`, `AbandonRecovery` |
| `start`, `shutdown`, `Drop` | `StartRuntime`, `StartFails`, `Shutdown`, `ReceiveShutdown`, `DropRuntime`, `StrayLands` |
| the process ends | `Crash`, `ExitAfterDrop` (external) |

- The target has no concurrency control: Delta's own conflict detection would reject some
  double commits, so `ExactlyOnce` rests on the command protocol alone.
- At most one row is ever nonterminal (`OneUnsettledCommand`, proved), so a page of
  recovery is a sweep and the cursor is not modelled.
- `OpenAdmission` is one step: only the actor writes the journal, and the driver that could
  close the gate waits for this reply.
- A journal write in flight when its actor is aborted happened before the abort or not at
  all: both are behaviours of the model.
- The daemon derives the actor's identity from the lease, so a generation determines its
  owner (`OwnerOf`).

**`CommandManager`.** The methods take `&mut self`, so one call runs at a time, as the
variable `call`; each await of a call is a step at which `DropCall` may drop its future,
with the `Drop` of whatever runtime it holds. A runtime is its actor, gate, lease and
whether its journal holds a nonterminal row.

**`WriterLease`.** An acquisition is lock, allocate, confirm: three steps per registry
entry. A write is validate, then mutate. The random lease identity is drawn per
allocation, so the generation stands for the pair, and 0 is "none". The daemon's own
`daemon.lock` singleton is left out: it is taken before and outlives every lease, so
leaving it out only adds behaviours.

**`EpochActivation`.** One activation command of the actor (`job`) and its recovery, stage
by stage; the durable chain of selected epochs, the command records and the ticket store;
the in-memory gate, slot and pins; queries that lease the slot and are then admitted.

| Code | Action |
|---|---|
| `prepare`, then `activate` of `ActivationTransactionCoordinator` | `Begin`, `CloseAdmission`, `Revalidate`, `AppendAndReadback`, `PublishSelected`, `SwapSlot`, `ReconcileCache`, `Reopen`, `Acknowledge`, `Settle` |
| an activation that ends unknown | `PersistTicket`, `Await` |
| `load_reconciliation`, `recover` | `LoadTicket`, `ReadMarker`, `RecoverSelected`, `RecoverSlot`, `RecoverCache`, `RecoverReopen`, `RecoverAcknowledge`, `RecoverSettle`, `RecoverRetry`, `RepersistTicket`, `Observe` |
| startup, shutdown | `Start`, `InstallHead`, `FinishStartup`, `RefuseStartup`, `Drain`, `FinishDrain`, `Crash` |
| a query | `LeaseWorkspace`, `AdmitSelected`, `FinishQuery` |

Ticket, evidence and command record are written one after the other, with a crash
possible between them. An append whose answer is lost may have landed or not. A fault of
the cache or of the acknowledgement is the `Unknown` answer their contracts permit.
`MaxSweeps = 2` stands for the 8 recovery sweeps of the code. Left out: the `NotCommitted`
answer of an append, and the branch for a successor that brings a gate of its own. Three
situations end, in the code and in the model, in a typed error that recovery does not
leave: an append that is uncertain twice (`programmatic_activation_command_sqlite.rs`
1744), a crash between ticket and evidence (`programmatic_activation_command_ports.rs`
622), and a record fault after recovery has reopened the gate. `PreparedSucceeds` excepts
them.

**`WorkspaceUpdates`.** Threads share a few atomics; each load and store is a step where
another thread can come between. Only the two stores of `restore` and of
`mark_unavailable` are merged.

| Code | Action |
|---|---|
| the watcher's callback, the owner of the watch | `CountEvent`, `RequestForEvent`, `WatchInstalled`, `MirrorHint` |
| `run` | `Select`, `LoopMirrors`, `MarkUnavailable`, `Resume`, `Leaves` |
| `census`, `walk_selected_with_fence` | `RecoverPublication`, `ObserveWatermark`, `ReadFile` (one file a step) |
| `reconcile` | `FirstCensus`, `AdvanceGeneration`, `PublishGeneration`, `RestoreSource`, `RestoreFull`, `FinalCensus`, `Submit`, `Activated`, `ActivationErrs` |
| `build_observed_candidate` | `Capture`, `CheckCapture`, `BuildEnds`, `BuildCancelled`, `BuildTick`, `BuildHint`, `MidCensus` |
| `await_freshness`, `admit_query` | `Arrive`, `RequestCensus`, `MirrorCensus`, `Register`, `CheckWatermark`, `Sleep`, `Awake`, `Deadline` |
| `admit_execution_request`, `state_for` | `LeaseSlot`, `PinEpoch`, `CompareGeneration`, `ReadLabel` |

Left out: `rescan_watermark` and the watch health flag, which only the status report reads;
deployment and Git digests, compared wherever the content digest is; watch topology. All
kinds of faults share one bound.

**`QueryCoordinator`.** Every coordinator method holds one lock, so it is one step that
changes memory and journal in the order of the code; a failing journal write leaves the
memory as the method left it. The query's task, the RPCs and the watch stream run between
the locks: `AwaitRunning` checks and `Sleep` sleeps, `ReadEvents` and `ReadPhase` read
under two locks. `accept`, `spawn_task`, `append_event`, `terminal`, `CancelQuery`,
`collect_expired`, `release_result`, `mark_result_cleanup_complete` and `recover` are the
methods of these names; `Pin` to `CloseCancelled` are `execute_accepted_query`.
`RecoverPartly` is a recovery that ends after some of its rewrites. After a crash a client
keeps what it was told until it watches again, from the first event, since cursors carry
the generation of the daemon. `load.refused`, a history, holds the queries whose last record
the journal has refused. The queue, event and page limits are part of a workload, that is,
of one behaviour's configuration. Byte limits are folded into counts of pages and events.
Left out: progress coalescing (the service never sends
two progress events in a row), the metadata reservation, the test-only `cancel`, and a
failing `journal.create`, which changes nothing.

**`ResultRetention`.** Object 0 of a query is its manifest, object *n* its *n*-th page.

| Code | Action |
|---|---|
| `publish_page`, `seal`, trailing deletions, failure cleanup | `StorePage`, `StoreManifest`, `TakeBackPage`, `ExecutionFails`, `EndsOutside` |
| `timeout_at` around the execution, an abort, the put that goes on | `DropExecution`, `AbortExecution`, `LandsLate` |
| `publish_package`, `discard_unjournaled_query`, `reissue_retained` | `Register`, `DiscardPackage`, `Reopen`, `Reissue` |
| the retention pass | `StartPass`, `ExpireHandles`, `Collect`, `Join`, `List`, `Finalize`, `PassDeletes`, `PassDeleted`, `PassMarks`; `RefusePass`, `JoinFails`, `PassFails` |
| `ReleaseResource` | `ReleaseHandle`, `Revoke`, `FinalizeReleased`, `CallDeletes`, `CallDeleted`, `CallMarks`; `CallFails`, `DropCall` |

A package has one handle, standing for its per-page handles. Journal faults stay with
`QueryCoordinator`. `LiveHandleReads` has two exceptions, both of packages
that are registered again after they were revoked: with a session shorter than the package's
lease the query's lease may end between reopening and registration; and when two calls
reopen a result, it may be released through the first before the second registers it. The
new handle then names objects that are being deleted, and its reader gets an error. A
dropped `ReleaseResource` leaves the registry entry taken until restart.

The object store is the local file system, which puts an object in a blocking task: when the
execution that awaits the put is dropped, by its deadline or by an abort, the put goes on.
`late` holds such puts, `LandsLate` lets them land at any time or never, and `strays` is
their history. `delete` waits for the ledger's lock of the object, which the dropped
execution has given back, so it does not wait for them. `RefusePass` is a pass that
`spawn_service_task` refuses because shutdown has cancelled the service's scope; that it
refuses for lack of permits is left out, since there are 32 more than the query tasks can
take (`query_coordinator.rs` 791).

**`ResourceBudget`.** One action is one critical section of the ledger mutex. The last
handle of a scope goes and its node is removed in two steps, since a strong count reaches
zero before `Drop` locks the ledger. The eight dimensions are the set `Dims`. Left out:
peaks and observations, the CPU pool (`resource_budget/native_cpu.rs`), and the allocator
behind a native memory account.

**`TaskScopes`.** An action is what one caller does between two awaits or under one lock:
`Spawn` and `Admit`; `Wait`; `CancelAndJoin`, `CancelToken`, `CancelFlags`, `Snapshot`,
`Pick`, `Expire`, `PickLate`, `JoinReturns`; and for both kinds `Observe`, `Unregister`
and `DropCaller`. A task `SendsResult`, `Ends` (with or without a panic) or, aborted, is
dropped (`AbortTakesEffect`). Nothing makes a cooperative task stop. A spawn reaps
finished tasks of every scope and may report another scope's panic, as in the code. Left
out: two scopes of one path, and the emergency `Drop` of the registry (`owned.rs` 79-98).

## 4. Runs

| Run | Checks | Distinct states |
|---|---|---|
| `journal` | `JournalIsReadable`, `RowsOnlyAdvance`, `UnknownCommitsKeepTheirExecutor` | 8,276 |
| `runtime` | `EffectsMatchJournal`, `ActorIsSerial`, `OnlyCurrentWriterLands`, `ImplementsLedger`, `ImplementsJournal`, `ImplementsAuthority`, `AdmissionReopens` | 310,153 |
| `runtime_fail_closed` | `AdmissionReopens`, violated | stops at the counterexample |
| `manager` | `RuntimesAreOwned`, `CallReturns` | 31,036 |
| `writer_lease` | `LeasesExclude`, `WritesFollowGenerations`, `ImplementsAuthority` | 58,532 |
| `epoch_activation` | `ServedIsSelected`, `RecordsTellTheTruth`, `ClosedGateHasAnOwner`, `NoAdmissionBehindTheChain`, `PreparedSucceeds` | 271,201 |
| `updates` | `BarrierTellsTheTruth`, `StrictAnswerIsRecent` | 3,680,846 |
| `updates_live` | `PublicationsAreSerial`, `RequestsAreReconciled`, `OutageEnds`, `NoLostWakeup` | 177,496 |
| `queries` | `CapacityIsUsed`, `DeliveredIsDurable`, `RestartIsPossible`, `DecidedOnce` | 1,625,052 |
| `results` | `StoreIsOwned`, `ResultsAreWhole`, `CleanupCompletes`, `QueriesClose` | 267,203 |
| `budget` | `LedgersAreExact`, `TreeIsLive`, `LimitsHoldAtEveryLevel` | 208,093 |
| `tasks` | `WorkIsAccountedFor`, `CancellationIsExact`, `CancelAndJoinReturns` | 358,218 |

Several of these are conjunctions, each part with its own definition and comment:

| Property | Its parts, besides the types |
|---|---|
| `JournalIsReadable` | every stored row decodes again |
| `EffectsMatchJournal` | `ExactlyOnce`, `JournalTellsTheTruth` |
| `ActorIsSerial` | `ActorHoldsDurableRow`, `OneUnsettledCommand`, `UnsettledHeadIsCurrent` |
| `RuntimesAreOwned` | `OneMutator`, `NoRuntimeIsLost` |
| `LeasesExclude` | `HolderIsCurrent`, `NothingKeptLocked` |
| `ServedIsSelected` | `OpenServesDurableHead`, `AdmittedEpochWasSelected`, `SelectedAtMostOnce` |
| `RecordsTellTheTruth` | `SettledRecordTellsTheTruth`, `TicketKnowledgeIsTrue` |
| `BarrierTellsTheTruth` | `CurrentMeansTheTree` |
| `PublicationsAreSerial` | `UnresolvedKeepsItsValidation`, `KeepsUnresolved` |
| `CapacityIsUsed` | `CapacityIsExact`, `NothingWaitsIdly` |
| `DecidedOnce` | `KeepsOutcomes`, `ExecutesOnce` |
| `StoreIsOwned` | `ObjectsAreOwned` |
| `ResultsAreWhole` | `KeptResultIsWhole`, `LiveHandleReads` |
| `LedgersAreExact`, `TreeIsLive` | `AccountingIsExact`; `LineageIsLive`, `IndexIsTheTree` |
| `WorkIsAccountedFor` | `CapacityIsExact`, `WorkIsOwned` |
| `CancellationIsExact` | `CancelReachesEveryTask`, `JoinedScopeStaysEmpty`, `CancellationStaysBelow` |

Each property of a passing run has a mutant: a definition of the model changed as a
plausible bug would change the code, under which TLC finds the property violated.

### Bounds, and why they are enough for the cases that matter

- `journal`: two operations sharing one key, two actors and two generations (a takeover
  needs both), two transactions (a retry uses another one), two attempts, one probe.
- `runtime`: an activation that moves the head, a publication, and a client that reuses the
  identities of both. `MaxSent = 2` client messages meet in the mailbox; `MaxFaults = 2`
  allows an unknown commit and a crash. `MaxSweeps` and `QueueCapacity` are reached.
  `Generations` allows a restart after every fault and every shutdown; attempts, probes
  and revisions are bounded above what the faults can reach. The safety properties and
  refinements of this run are also proved for all bounds.
- `manager`: two workspaces (a shutdown of all has a next one), two runtimes of each.
- `writer_lease`: a daemon that registers two workspaces, a process that wants the second,
  three generations (the counter runs out) and three faults.
- `epoch_activation`: two activations (a predecessor and a successor to drain and to
  confuse), two queries, three faults out of ten kinds, two attempts, four generations.
- `updates`: two files edited twice against the walk of a census (a walk can see one edit
  and not the other), an edit against periodic censuses, an edit against a query of each
  policy. `updates_live`: a fault beside an edit, and beside a query.
- `queries`: a watched query beside another, with dropped calls and aborts; three queries
  of two owners competing for two slots, one per owner; the same three with a queue of one,
  four events a query and envelopes for two, where each limit refuses something; two queries
  with two failing journal writes or crashes; a watched query with three failing writes,
  crashes or failed executions (a refused record, a later accepted one, and a restart); a
  watched query beside another, one envelope for both, and two crashes, so that a restart
  finds the page limit exhausted.
- `results`: two queries whose leases run out; one query with aborts, failed executions,
  failed deletions and restarts (two faults), its result reissued by two calls, or by one
  with a short session; one whose result is released by two concurrent calls, with a failed
  deletion; one whose result is reissued after a restart and released, the call dropped or
  not; one whose session ends while its result can be read and released. One query runs at a time: what competes here are the passes and calls that share the
  store.
- `budget`: two dimensions, two scopes below the process, two reservations at a time.
- `tasks`: a data and a control scope, one permit each, two tasks of one name, one caller
  that spawns and one that cancels and joins. The theorems cover any instance.

Deadlock is checked in `journal`, `writer_lease` and `epoch_activation`. The others switch
it off: with the budgets of clients and faults spent there may be nothing left to do.

### Fairness, and why the code justifies it

Faults, clients, edits and cancellations are never fair; they are finite by their bounds.

- `CommandRuntime!FairSpec`: the actor and a running recovery pass (tasks the executor
  polls), starting a runtime when none is up and the exit of a dropped one (the supervisor
  restarts the daemon), and calling recovery while the gate is closed. Production does the
  last at startup (`fabric/production_workspace_startup.rs` 1789-1810), before each source
  activation (1970-2003) and from the update loop (`updates.rs` 318-344).
- `CommandManager!ManagerLiveSpec`: the call that is running, which its executor polls.
- `EpochActivation!LiveSpec`: the actor's activation, recovery, and restart; the three
  reasons above.
- `TaskScopes!LiveSpec`: each caller's steps, its deadline (`tokio::time::timeout`), and the
  drop of an aborted task when it is next polled. A task that runs need not end.
- `WorkspaceUpdates!LiveSpec`: the loop, its build, a callback that has begun, and a query
  that can go on.
- `ResultRetention!RetentionLiveSpec`: each execution and its deadline timer, the passing of
  leases, restart, and retention passes, begun or refused: every request begins one, so the
  assumption is that requests keep coming. A late put need not land.

### What the violated run shows

`runtime_fail_closed` is `runtime` with the diagnostics port production installs,
`FailClosedInterruptionDiagnostics`, which always answers `Ok(None)`. A row left in
*CommitPrepared* by a crash needs a durable diagnostic before it can become
*AwaitingReconciliation*; without one every recovery pass ends in an error and admission
stays closed over every restart, also when the commit had landed and a probe would prove
it. The design document says that "restart rederives and publishes the selected epoch
before opening admission"
(`docs/designs/codefabric_execution_proved_relational_data_fabric_design_v2_2026-08-29.md`
837-838). The state is typed and safe, and the port's name says it is meant; the promise
of the document is not kept.

## 5. Statements the code does not keep

Each module ends with the statements of comments and documents that TLC refutes. To see
the counterexample, name the definition as the only INVARIANT or PROPERTY of the module's
cfg; what else is needed is said in the last column.

| Definition | What the text says | What happens | Besides |
|---|---|---|---|
| `AwaitingIsSettled` | "On restart, recover selected activation and uncertain operations before accepting conflicting mutations." (production outcomes plan, 2898) | startup installs the head and opens the gate (`production_workspace_startup.rs` 1645) before it recovers the command; `recover_selected_epoch` refuses an open gate (`admission.rs` 566), now and at every restart. Recovery within one process, which the integration test exercises, works | |
| `StoredTicketReachesTheMarker` | "The ticket is treated only as a lookup instruction." (`activation_transaction.rs` 1628) | a pass that cannot read the marker stores a stage and knowledge (1676-1682) that `recovery_stage_is_causal` refuses at the next pass (1648) | |
| `ReadyAnswerMeansOpenIngress` | Ready: "actor ingress is open" (`command_runtime_manager.rs` 220) | `retry_recovery` answers the cached Ready (537) after a submit that did not settle has closed the gate. The manager has no production caller | |
| `CurrentLabelIsOfThePublished` | older material is served only under explicit semantics, "and must label it" (production outcomes plan, 1507) | a best-available query leases an epoch and reads the barrier afterwards (`workspace_updates.rs` 270): a publication in between makes an answer of the predecessor Current | no SYMMETRY |
| `RefusalMeansChange` | "source changed before the selected epoch could be pinned" (`programmatic_query_backend.rs` 1046) | a late event or another strict query's request raises the watermark between a strict query's wait and its lease, although the epoch it pinned is of the tree | no SYMMETRY |
| `StreamEndsWithTerminal` | "terminal events are not dropped" (serving specification v2.3, 210) | a query that closes between the two locks of `watch_next` (`query_service.rs` 3081) ends the stream without its terminal event | |
| `EventsAreNotDropped` | the same line | `append_event` (1413) and `terminal` (1486) change the memory before the journal, and leave it so when the write fails: a watcher is sent an event that the next restart does not know | |
| `OutcomeIsFinal` | "emit one TerminalEvent" (serving specification v2.3, 254) | a query whose closing record was refused is Succeeded, or Failed, until the process ends; recovery finds it Running and closes it as Lost | |
| `TurnIsNoticed` | "Wait until fair admission starts this query" (`query_coordinator.rs` 1153) | `Notified` is created after the lock is released (1182): a dispatch in between is lost, and the query holds its slot asleep until its deadline | `FairSpec`, nothing that expires |
| `SlotIsReleased` | "Close once, release running capacity" (`query_coordinator.rs` 1424) | `terminal` returns the journal's error (1500) before it releases the slot; a second call answers AlreadyTerminal | |
| `ReleasedMeansDeleted` | "every locator-bound object was deleted or already absent" (`query_coordinator.rs` 1944) | while one cleanup deletes, another gets `Ok(false)` and marks it complete (`query_service.rs` 2624); if the first then fails, the objects have no durable owner. Also without releases: a put that outlives its dropped execution lands after the deletion | |
| `RetentionKeepsServing` | revocation is "the sole authority that may move a retained package into exact object cleanup" (`streamed_result_registry.rs` 1396) | the query's lease is capped by its session, its handles' lease is not: the pass meets a revoked query with live handles, and `retention_failed` refuses every request until restart | a workload without faults whose sessions do not outlive the leases |

The production outcomes plan is
`docs/plans/codefabric_pragmatic_production_outcomes_4_8_detailed_implementation_plan_2026-09-09.md`,
the serving specification
`docs/authoritative_design/present_state_cpg_fastmcp_serving_specification_v2.3.md`.
The properties of section 4 are stated so that they hold beside these, and say so in their
comments: `PreparedSucceeds` excepts what ends in the first two; `CapacityIsExact`
and `NothingWaitsIdly` speak of workloads in which the journal accepts its writes;
`DeliveredIsDurable` and, from one process to the next, `DecidedOnce` except a query whose
last record the journal has refused; `ObjectsAreOwned` speaks of workloads without
`ReleaseResource` and excepts an object put by a dropped execution once its cleanup is
acknowledged; `CleanupCompletes` and `QueriesClose` allow that a failed pass has stopped
retention.

## 6. Theorems

TLAPS proves these for every value of the constants that meets the named assumptions
(`FabricCommand`'s, `RuntimeAssumption`, `LeaseAssumption`, `ScopeAssumption`,
`BudgetAssumption`, `ActivationAssumption`, `ManagerAssumption`, `UpdatesAssumption`): any
numbers of operations, faults, messages, generations, processes, workspaces, callers, tasks,
reservations, files, edits and queries, any registries, policies and demands, and any tree
of scopes up to three levels deep.

| Theorem | Statement |
|---|---|
| `JournalDecodes` | `Spec => []JournalIsReadable` |
| `JournalRowsOnlyAdvance`, `JournalKeepsExecutors` | the journal's two action properties |
| `RuntimeExactlyOnce` | `Spec => []EffectsMatchJournal` |
| `RuntimeSerialises` | `Spec => []ActorIsSerial` |
| `RuntimeFencesCommits` | `Spec => OnlyCurrentWriterLands` |
| `RuntimeImplementsJournal`, `...Ledger`, `...Authority` | the three refinements of `CommandRuntime` |
| `LeasesAreExclusive` | `Spec => []LeasesExclude` |
| `WritesAreFenced` | `Spec => WritesFollowGenerations` |
| `LeaseImplementsAuthority` | `Spec => ImplementsAuthority`, for each workspace |
| `WorkIsNeverLost` | `Spec => []WorkIsAccountedFor` (`TaskScopes`) |
| `CancellationReaches` | `Spec => []CancellationIsExact` (`TaskScopes`) |
| `BudgetIsExact`, `BudgetTreeIsLive` | `Spec => []LedgersAreExact`, `Spec => []TreeIsLive` |
| `BudgetLimitsHold` | `Spec => LimitsHoldAtEveryLevel` |
| `ServedEpochsAreSelected` | `Spec => []ServedIsSelected` (`EpochActivation`) |
| `JournalTellsTheTruth` | `Spec => []RecordsTellTheTruth` |
| `ClosedGatesAreOwned` | `Spec => []ClosedGateHasAnOwner` |
| `AdmissionFollowsTheChain` | `Spec => NoAdmissionBehindTheChain` |
| `ManagerOwnsItsRuntimes` | `ManagerSpec => []RuntimesAreOwned` (`CommandManager`) |
| `BarriersTellTheTruth` | `Spec => []BarrierTellsTheTruth` (`WorkspaceUpdates`) |
| `StrictAnswersAreRecent` | `Spec => []StrictAnswerIsRecent` |
| `SerialPublications` | `Spec => PublicationsAreSerial` |

The arguments:

- **Reducer** (`FabricCommandProofs`). Every answer of `Reduce` is the record itself or a
  next revision that the decoder accepts, that advances the row and that keeps an unknown
  commit's executor. One lemma per reducer function. The journal theorems
  (`CommandServiceProofs`) follow, because every write to the table is such an answer.
- **Runtime** (`CommandRuntimeProofs`).
  `ExactlyOnce` is not inductive: whether a commit may land depends on the row, on the
  actor and on a commit that outlived its actor. `RuntimeInv` adds `DurableInv` (each row
  agrees with the target, rows are unique by operation and key, at most one is unsettled
  and its head is current), `JobInv` (the actor's row is the durable row and the event it
  will present is true of the target), `GateInv` (an open gate means the only unsettled row
  is the submit in progress) and `StrayInv` (a stray commit exists only while the dropped
  runtime's lock is held, and belongs to a row whose transaction has not landed). One lemma
  per action.
- **Lease** (`WriterLeaseProofs`). `HolderIsCurrent` needs to know why nobody else can
  allocate: `LocksAreAccountedFor` (a held lock belongs to a lease or to the entry being
  acquired), `PhaseInv` (what each phase knows of its own locks and fences) and
  `WritesAreOld`.
- **Refinement** (`CommandRuntimeProofs`). Each action of the runtime maps to one
  abstract step or to a stutter. A started command is *pending*; the abstract effect is the
  target append; settling is the journal write that makes the row terminal.
- **Task scopes** (`TaskScopesProofs`). `JoinedScopeStaysEmpty` is not inductive: it
  depends on what a join that is still running has seen. `TaskInv` has three parts besides
  `CancellationStaysBelow`. `RegistryInv`: the registry holds spawned tasks only, all that have
  not ended among them, no two of one key, and the counters are its cardinalities.
  `CancelInv`: below a scope that is closed to spawns every token is cancelled, so no spawn
  that reaches the registry lock later is admitted. `CallersInv`: a join that has taken its
  snapshot covers, by what it still awaits, every task of its scope that is left in the
  registry; with nothing left to await the scope is empty. Two spawns and a cancellation
  that race are the interesting case: the check of the token and the registration are under
  one lock, so whichever comes second sees the other.
- **Resource budget** (`ResourceBudgetProofs`). The accounting, the lineage and the index
  need each other: a charge walks the lineage, and a node may only go when no reservation,
  handle or child is left below it. `BudgetInv` joins the three with `TreeShape` (a
  workspace budget hangs below the process, an operation below a workspace, and tokens are
  younger than `next`) and `CleanSlate` (a token that was never given out counts nothing).
  A sum over reservations is written as the number of units counted out, the cardinality of
  the union of `{r} \X 1..f[r]`. Replacing one reservation then changes the sum by the
  difference, which follows from the cardinality of unions; moving an amount between two
  reservations, as a split does, keeps it.
- **Activation** (`EpochActivationProofs`). Activations run one after the other, so the
  chain is 1, 2, ... and at most one longer than the settled records: `ChainInv`,
  `RecordInv`. `TicketInv` says that a stored ticket is `Truthful`. `GateInv` says what each
  phase of the gate is worth, and that a gate which is not open is owned (`Owns`) by the one
  unsettled activation. `JobInv` has one clause for each group of stages of the actor
  (`StageInv`): whether its event is durable, where the gate is, what its ticket knows.
  `ServeInv` bounds what is served and leased by the chain. None of the four properties is
  inductive without the stages: a crash, a failed append or a lost acknowledgement leaves
  the record, the ticket, the gate and the chain at different points, and the next pass is
  right only because of what the stage it resumes knew.
- **Manager** (`CommandServiceProofs`). `CallInv` says, by operation and stage, which
  workspaces the running call took out of the map; `RunInv` that only the latest run of a
  workspace can be alive, that a runtime which is being joined has left its loop, and that a
  taken lock was taken by a run.
- **Updates** (`WorkspaceUpdatesProofs`). An edit, its event, the watermark it raises in each
  barrier and the census that reads it are steps of different threads, so no property says
  by itself why the next step is right. `UpdatesInv` says what each intermediate state is
  worth. `BarrierInv`: a watermark admitted in one barrier is on its way to the other.
  `CensusInv`: what a census has read is what the tree holds, unless something that happened
  since it read the watermark is not settled yet. `LoopInv` and `EpochInv`: from its census to
  the reconciliation the loop acts on one generation, the selected epoch is the census's when
  it publishes, and an unresolved candidate is settled before anything else. `QueryInv`, for a
  strict query: from the moment its watermark is admitted, a census of that watermark has read
  only what was on disk since the query arrived, and so has the selected epoch once the
  watermark is reconciled; that is why the pinned epoch is recent although the query read
  barrier, lease and generation at different moments.

Only model-checked: liveness, since fairness is out of the prover's reach, and the safety of
`QueryCoordinator` and `ResultRetention`.

## 7. Not modelled

- **Session and launch-grant authority** (`session_authority.rs`): every operation takes the
  one state lock once, over an in-memory table, and awaits nothing while it holds it. Each
  is an atomic step, and a model would restate its guards.
- **Native lanes** (`fabric/native_execution_lane.rs`, `workspace_native_execution.rs`): a
  lane operation is one owned blocking task of `TaskScopes` that holds a `ResourceBudget`
  charge. What the lane adds (the library's future, its cleanup, the join of its runtime)
  happens in sequence on that task.
- **CDF checkpoints, operational store, workspace registry**: each operation is one
  immediate SQLite transaction that loads, compares and writes, under one logical writer.
- **The log walk of Delta reconciliation**: a search in an immutable log, through the Delta
  library. Its verdicts are modelled.
- **The other effect families**: prepare, commit and reconcile of one Delta table each, the
  port that `CommandRuntime` models with every outcome.
- **Supervisor, sockets, RPC framing, provider subprocesses, MCP adapter**: process and
  socket I/O and parsing. A restarted daemon is the restart of the models.
- **Plans, schemas, query compilation, fact extraction, identity encoding, caches**: data
  over Arrow, DataFusion, Delta and compilers, with no protocol state.

SQLite transactions, file locks and object-store calls are external and taken as atomic; a
put that fails or whose caller is dropped may still take effect.
Payloads, digests and schemas of commands are opaque: the code compares them for equality
only. Acceptance does not bound the number of query records that recovery bounds by
`max_recovery_records` (`query_coordinator.rs` 904); leases remove records with time, and
the models keep `MaxRecords` above what their queries can create.
