--------------------------- MODULE CommandRuntime ---------------------------
(***************************************************************************)
(* One workspace's durable command runtime: the serial actor of            *)
(* fabric/command_actor.rs, its bounded queue and ingress gate, the        *)
(* recovery driver and lifecycle of fabric/command_runtime.rs, the journal *)
(* it writes and the durable target its effects commit to.                 *)
(*                                                                         *)
(* A step of the actor ends where a crash can separate two durable writes: *)
(* at every journal write and at every effect call. Every port call may    *)
(* fail, and a journal write whose acknowledgement is lost may or may not  *)
(* have been stored.                                                       *)
(***************************************************************************)
EXTENDS FabricCommand, Sequences, FiniteSets

CONSTANTS
    Intents,              \* what clients ask for: [op, key, kind]
    HeadMoving,           \* command kinds whose commit selects a new epoch
    EpochOf,              \* the epoch an operation selects
    GenesisHead,          \* the head of a fresh workspace
    QueueCapacity,        \* FabricCommandActorConfig::queue_capacity
    MaxSweeps,            \* maximum_sweeps of recover_and_open_bounded
    DiagnosticsAvailable, \* whether the interruption diagnostic port answers
    MaxFaults,            \* bound: failures of ports, effects and processes
    MaxSent               \* bound: messages sent by clients

ASSUME RuntimeAssumption ==
    /\ Intents \subseteq [op: Ops, key: Keys, kind: Kinds]
    /\ HeadMoving \subseteq Kinds
    /\ EpochOf \in [Ops -> Heads]
    /\ GenesisHead \in Heads
    /\ 1 \in Generations /\ Leases # {} /\ Actors # {}
    /\ QueueCapacity \in Nat \ {0} /\ MaxSweeps \in Nat \ {0}
    /\ DiagnosticsAvailable \in BOOLEAN
    /\ MaxFaults \in Nat /\ MaxSent \in Nat

VARIABLES
    records,     \* durable: the command journal
    generation,  \* durable: the current writer generation
    head,        \* durable: the selected epoch
    target,      \* durable: the commits that landed, in order
    runtime,     \* "down", "up", or "dropped": actor aborted, OS lock kept
    gate,        \* the ingress gate
    queue,       \* the actor's mailbox
    job,         \* the message the actor is processing
    driver,      \* recover_and_open_bounded in progress
    stray,       \* a target commit still running after its actor was aborted
    faults, sent \* bounds

durable == <<records, generation, head, target>>
vars == <<records, generation, head, target, runtime, gate, queue, job, driver, stray,
          faults, sent>>

-----------------------------------------------------------------------------
(* The writer of a generation, messages, and the idle values.              *)

\* The daemon derives its actor identity from the generation it acquired.
OwnerOf(g) == CHOOSE owner \in Owners : owner.fence.generation = g
Owner == OwnerOf(generation)

Context == [current_head |-> head, active_fence |-> Owner.fence]

Message(kind, op, waiter) == [kind |-> kind, op |-> op, waiter |-> waiter]
SubmitMessage(command) == [kind |-> "Submit", command |-> command, waiter |-> FALSE]
OpenAdmissionMessage == [kind |-> "OpenAdmission", waiter |-> TRUE]
ShutdownMessage == [kind |-> "Shutdown", waiter |-> FALSE]

IdleJob == [stage |-> "idle"]
Job(stage, message, row, event) ==
    [stage |-> stage, message |-> message, row |-> row, event |-> event]

IdleDriver == [phase |-> "idle", sweep |-> 0, rows |-> {}]

StartEvent(owner) == [kind |-> "Start", owner |-> owner]

Nonterminal == {rec \in records : ~Terminal(rec)}
Landed(op) == \E i \in DOMAIN target : target[i].op = op

Fault == faults < MaxFaults /\ faults' = faults + 1

-----------------------------------------------------------------------------
(* Replies. A submit that fails or ends nonterminal closes the gate; the   *)
(* recovery driver, when it waits for this reply, moves on or gives up.    *)

ReplyOk(message, row) ==
    /\ job' = IdleJob
    /\ gate' = (gate /\ (message.kind = "Submit" => Terminal(row)))
    /\ driver' = IF message.waiter THEN [driver EXCEPT !.phase = "rows"] ELSE driver

\* Mutant: a submit that fails leaves the gate open.
ReplyErrKeepsGate(message) ==
    /\ job' = IdleJob
    /\ gate' = gate
    /\ driver' = IF message.waiter THEN IdleDriver ELSE driver

\* Mutant: a failed message drops its response without waking the driver.
ReplyErrForgetsDriver(message) ==
    /\ job' = IdleJob
    /\ gate' = (gate /\ message.kind # "Submit")
    /\ UNCHANGED driver

ReplyErr(message) ==
    /\ job' = IdleJob
    /\ gate' = (gate /\ message.kind # "Submit")
    /\ driver' = IF message.waiter THEN IdleDriver ELSE driver

-----------------------------------------------------------------------------
(* Clients. A client builds its command from the head and fence it sees    *)
(* now; both may be stale when the actor takes the message.                *)

Send(message) ==
    /\ runtime = "up" /\ Len(queue) < QueueCapacity
    /\ queue' = Append(queue, message)

ClientSends(message) ==
    /\ sent < MaxSent /\ sent' = sent + 1
    /\ Send(message)
    /\ UNCHANGED <<durable, runtime, gate, job, driver, stray, faults>>

\* submit and try_submit: refused at once while the gate is closed. The same
\* command may be sent again, as it was first built.
Submit ==
    /\ gate
    /\ \/ \E intent \in Intents :
            ClientSends(SubmitMessage(
                [op |-> intent.op, key |-> intent.key, kind |-> intent.kind,
                 expected_head |-> head, writer_fence |-> Owner.fence]))
       \/ \E rec \in records : ClientSends(SubmitMessage(rec.command))

\* cancel, reconcile, retry_proved_not_committed and resume_precommit of the
\* public handle: not gated.
Request ==
    \E kind \in {"Cancel", "Reconcile", "Retry", "ResumePrecommit"}, op \in Ops :
        ClientSends(Message(kind, op, FALSE))

-----------------------------------------------------------------------------
(* The actor: FabricCommandActor::run takes one message at a time.         *)

Receive(kind) ==
    /\ runtime = "up" /\ job = IdleJob
    /\ queue # <<>> /\ Head(queue).kind = kind
    /\ queue' = Tail(queue)
    /\ UNCHANGED <<generation, head, target, runtime, stray, sent>>

\* Mutant: the lookup forgets the idempotency key.
LookupByOperationOnly(command) ==
    {rec \in records : rec.command.op = command.op}

LookupAdmission(command) ==
    {rec \in records : rec.command.op = command.op \/ rec.command.key = command.key}

\* process_submit up to the admitted row: the gate is read again, a known
\* command is answered from the journal, and a fresh one is inserted.
ReceiveSubmit ==
    /\ Receive("Submit")
    /\ LET message == Head(queue)
           command == message.command
           existing == LookupAdmission(command)
           admitted == Admit(command, Context, TRUE)
       IN  \/ /\ gate /\ existing = {}
              /\ \E rec \in admitted :
                   /\ records' = records \cup {rec}
                   /\ \/ /\ job' = Job("transition", message, rec, StartEvent(Owner))
                         /\ UNCHANGED <<gate, driver, faults>>
                      \/ Fault /\ ReplyErr(message)       \* acknowledgement lost
           \/ /\ gate /\ Cardinality(existing) = 1
              /\ \E rec \in existing :
                   IF rec.command = command THEN ReplyOk(message, rec) ELSE ReplyErr(message)
              /\ UNCHANGED <<records, faults>>
           \/ /\ ~gate \/ (existing = {} /\ admitted = {}) \/ Cardinality(existing) > 1
              /\ ReplyErr(message)
              /\ UNCHANGED <<records, faults>>
           \/ /\ gate                                     \* denied, or a port failed
              /\ Fault /\ ReplyErr(message)
              /\ UNCHANGED records

\* What each journalled request does with the row it looks up: the event it
\* presents first, or nothing when the row is in another state.
CancelEvents(row) ==
    IF row.state.kind = "Executing" /\ row.state.owner # Owner
    THEN {StartEvent(Owner)}
    ELSE [kind: {"CancelBeforeCommit"}, owner: {Owner}, cancellation: Refs]

RetryEvents(row) ==
    When(/\ row.state.kind = "RetryReady"
         /\ generation >= row.state.required_fence.generation, {StartEvent(Owner)})

ResumePrecommitEvents(row) ==
    When(row.state.kind \in {"Admitted", "Executing"}, {StartEvent(Owner)})

MarkInterruptedCommitEvents(row) ==
    When(row.state.kind = "CommitPrepared",
         [kind: {"ReportUnknownCommit"}, owner: {Owner},
          transaction: {row.state.transaction}, unknown: Refs])

\* effects.reconcile reads the marker of exactly this transaction; it may always
\* fail to decide.
MarkerPresent(row) ==
    \E i \in DOMAIN target : /\ target[i].op = row.command.op
                             /\ target[i].transaction = row.state.transaction

\* Mutant: the probe trusts the selected head instead of the marker.
ObservationsFromHead(row) ==
    IF head = EpochOf[row.command.op]
    THEN [kind: {"Committed"}, evidence: Refs, result: {row.command.kind}]
    ELSE [kind: {"NotCommitted"}, evidence: Refs]

ReconciledObservations(row) ==
    IF MarkerPresent(row)
    THEN [kind: {"Committed"}, evidence: Refs, result: {row.command.kind}]
    ELSE [kind: {"NotCommitted"}, evidence: Refs]

ReconcileEvents(row, observations) ==
    When(row.state.kind = "AwaitingReconciliation",
         [kind: {"ObserveReconciliation"}, owner: {Owner},
          transaction: {row.state.transaction}, observation: observations])

\* read_reduction_context of the lease-bound port: a row admitted by a writer
\* that is not this one or an older one is unreadable.
ContextReadable(row) == FenceAuthorizes(row.command.writer_fence, Owner.fence)

FirstEvents(kind, row) ==
    When(ContextReadable(row),
         CASE kind = "Cancel" -> CancelEvents(row)
           [] kind = "Retry" -> RetryEvents(row)
           [] kind = "ResumePrecommit" -> ResumePrecommitEvents(row)
           [] kind = "MarkInterruptedCommit" -> MarkInterruptedCommitEvents(row)
           [] OTHER -> ReconcileEvents(row, ReconciledObservations(row)))

\* process_cancel, process_retry, process_resume_precommit,
\* process_mark_interrupted_commit and process_reconcile up to the transition.
ReceiveRequest(kind) ==
    /\ Receive(kind)
    /\ LET message == Head(queue)
           rows == {rec \in records : rec.command.op = message.op}
       IN  \/ \E row \in rows : \E event \in FirstEvents(kind, row) :
                /\ job' = Job("transition", message, row, event)
                /\ UNCHANGED <<gate, driver, faults>>
           \/ /\ \A row \in rows : FirstEvents(kind, row) = {}
              /\ ReplyErr(message)                     \* not found, or wrong state
              /\ UNCHANGED faults
           \/ Fault /\ ReplyErr(message)               \* a port failed
    /\ UNCHANGED records

\* A reconciliation probe that cannot decide.
ReceiveIndeterminate ==
    /\ Receive("Reconcile")
    /\ \E row \in records :
         /\ row.command.op = Head(queue).op
         /\ ContextReadable(row)
         /\ \E event \in ReconcileEvents(row, [kind: {"Indeterminate"}, evidence: Refs]) :
              job' = Job("transition", Head(queue), row, event)
    /\ Fault
    /\ UNCHANGED <<records, gate, driver>>

\* OpenAdmission: the gate opens only on a journal without nonterminal rows.
\* The driver sweeps again, up to MaxSweeps, while work remains.
ReceiveOpenAdmission ==
    /\ Receive("OpenAdmission")
    /\ \/ /\ gate' = (Nonterminal = {})
          /\ driver' = IF ~Head(queue).waiter THEN driver
                       ELSE IF Nonterminal = {} \/ driver.sweep = MaxSweeps THEN IdleDriver
                       ELSE [driver EXCEPT !.phase = "load", !.sweep = @ + 1]
          /\ UNCHANGED faults
       \/ /\ Fault
          /\ gate' = FALSE
          /\ driver' = IF Head(queue).waiter THEN IdleDriver ELSE driver
    /\ UNCHANGED <<records, job>>

\* After a stored transition: a start is followed by the effect or, for a
\* cancellation that had to take the row over, by the cancellation itself; a
\* prepared commit is executed; anything else ends the message.
Continue(message, event, row) ==
    IF event.kind = "Start" /\ message.kind = "Cancel"
    THEN /\ \E ref \in Refs :
              job' = Job("transition", message, row,
                         [kind |-> "CancelBeforeCommit", owner |-> Owner,
                          cancellation |-> ref])
         /\ UNCHANGED <<gate, driver>>
    ELSE IF event.kind \in {"Start", "PrepareCommit"}
    THEN /\ job' = Job(IF event.kind = "Start" THEN "prepare" ELSE "commit",
                       message, row, event)
         /\ UNCHANGED <<gate, driver>>
    ELSE ReplyOk(message, row)

\* The reducer's answer under a context read now.
Answers(row, event) == When(ContextReadable(row), Reduce(row, event, Context))

AtStage(stage) ==
    /\ runtime = "up" /\ job.stage = stage
    /\ UNCHANGED <<generation, runtime, queue, stray, sent>>

\* transition: reduce and compare-and-swap. An idempotent answer is not written.
Transition ==
    /\ AtStage("transition")
    /\ job.row \in records
    /\ \E next \in Answers(job.row, job.event) :
         /\ records' = (records \ {job.row}) \cup {next}
         /\ \/ Continue(job.message, job.event, next) /\ UNCHANGED faults
            \/ Fault /\ ReplyErr(job.message)          \* acknowledgement lost
    /\ UNCHANGED <<head, target>>

\* The reducer refuses, the row has moved (RevisionConflict), or a port fails.
TransitionFails ==
    /\ AtStage("transition")
    /\ \/ /\ Answers(job.row, job.event) = {} \/ job.row \notin records
          /\ UNCHANGED faults
       \/ Fault
    /\ ReplyErr(job.message)
    /\ UNCHANGED <<records, head, target>>

\* validate_idempotent: immediately before an effect, a fresh context must
\* still make the reducer recognise the row as this event's own product.
StillAuthorized == Answers(job.row, job.event) = {job.row}

PrepareOutcomes ==
    [kind: {"PrepareCommit"}, owner: {Owner}, transaction: Transactions]
        \cup [kind: {"ReportKnownFailure"}, owner: {Owner},
              failure: {f \in Failures : f.class = "Permanent"}]
        \cup [kind: {"CancelBeforeCommit"}, owner: {Owner}, cancellation: Refs]

RetryableFailures ==
    [kind: {"ReportKnownFailure"}, owner: {Owner},
     failure: {f \in Failures : f.class # "Permanent"}]

\* effects.prepare writes nothing durable.
Prepare ==
    /\ AtStage("prepare") /\ StillAuthorized
    /\ \/ \E event \in PrepareOutcomes :
            /\ job' = Job("transition", job.message, job.row, event)
            /\ UNCHANGED faults
       \/ \E event \in RetryableFailures :
            Fault /\ job' = Job("transition", job.message, job.row, event)
    /\ UNCHANGED <<records, head, target, gate, driver>>

CommitOf(row) ==
    [op |-> row.command.op, attempt |-> row.state.attempt,
     transaction |-> row.state.transaction, generation |-> row.state.owner.fence.generation]

\* A commit lands: the target history grows, and an activation selects its epoch.
Land(row) ==
    /\ target' = Append(target, CommitOf(row))
    /\ head' = IF row.command.kind \in HeadMoving THEN EpochOf[row.command.op] ELSE head

Confirmation(row) ==
    [kind |-> "ConfirmCommit", owner |-> Owner, transaction |-> row.state.transaction,
     result |-> row.command.kind]

\* Mutant: an unknown outcome is reported as a retryable failure.
UnknownReportedAsFailure(row) ==
    [kind: {"ReportKnownFailure"}, owner: {Owner},
     failure: {f \in Failures : f.class # "Permanent"}]

UnknownReports(row) ==
    [kind: {"ReportUnknownCommit"}, owner: {Owner},
     transaction: {row.state.transaction}, unknown: Refs]

\* effects.commit lands and says so, lands or not without knowing, or proves
\* that it did not land.
Commit ==
    /\ AtStage("commit") /\ StillAuthorized
    /\ \/ /\ Land(job.row)
          /\ job' = Job("transition", job.message, job.row, Confirmation(job.row))
          /\ UNCHANGED <<gate, driver, faults>>
       \/ /\ Fault /\ (Land(job.row) \/ UNCHANGED <<head, target>>)
          /\ \/ /\ \E event \in UnknownReports(job.row) :
                     job' = Job("transition", job.message, job.row, event)
                /\ UNCHANGED <<gate, driver>>
             \/ ReplyErr(job.message)                  \* no typed outcome
       \/ /\ \E failure \in Failures :
               job' = Job("transition", job.message, job.row,
                          [kind |-> "ReportKnownFailure", owner |-> Owner,
                           failure |-> failure])
          /\ Fault
          /\ UNCHANGED <<head, target, gate, driver>>
    /\ UNCHANGED records

\* The check before an effect refuses, or a port fails before the effect acts.
EffectRefused ==
    /\ AtStage("prepare") \/ AtStage("commit")
    /\ (~StillAuthorized /\ UNCHANGED faults) \/ Fault
    /\ ReplyErr(job.message)
    /\ UNCHANGED <<records, head, target>>

-----------------------------------------------------------------------------
(* recover_and_open_bounded. The journal never holds more than one          *)
(* nonterminal row (OneUnsettledCommand), so a page is the whole sweep.    *)

DriverStep(phase) ==
    /\ runtime = "up" /\ driver.phase = phase
    /\ UNCHANGED <<durable, runtime, job, stray, sent>>

StartRecovery ==
    /\ DriverStep("idle")
    /\ \A i \in DOMAIN queue : queue[i].kind # "Shutdown"    \* shutdown owns self
    /\ driver' = [phase |-> "load", sweep |-> 1, rows |-> {}]
    /\ UNCHANGED <<gate, queue, faults>>

\* recover_nonterminal_page: the gate closes before the journal is read.
LoadPage ==
    /\ DriverStep("load")
    /\ gate' = FALSE
    /\ \/ /\ driver' = [driver EXCEPT !.phase = "rows", !.rows = Nonterminal]
          /\ UNCHANGED faults
       \/ Fault /\ driver' = IdleDriver
    /\ UNCHANGED queue

\* One action per row of the page, chosen from the row as it was when the page
\* was read. An interrupted commit needs a durable diagnostic first.
RecoverRow ==
    /\ DriverStep("rows")
    /\ \E row \in driver.rows :
         LET obligation == RecoveryObligation(row)
             kind == CASE obligation = "ReconcileCommit" -> "Reconcile"
                       [] obligation = "RetryProvedNotCommitted" -> "Retry"
                       [] OTHER -> obligation
         IN  \/ /\ obligation = "MarkInterruptedCommit" => DiagnosticsAvailable
                /\ Send(Message(kind, row.command.op, TRUE))
                /\ driver' = [driver EXCEPT !.phase = "waiting", !.rows = @ \ {row}]
             \/ /\ obligation = "MarkInterruptedCommit" /\ ~DiagnosticsAvailable
                /\ driver' = IdleDriver
                /\ UNCHANGED queue
    /\ UNCHANGED <<gate, faults>>

\* open_command_admission after the sweep: the gate closes before the request
\* is ordered behind whatever the actor still has to do.
CloseBeforeOpening ==
    /\ DriverStep("rows") /\ driver.rows = {}
    /\ gate' = FALSE
    /\ \/ /\ driver' = [driver EXCEPT !.phase = "open"]
          /\ UNCHANGED faults
       \/ Fault /\ driver' = IdleDriver               \* stale or unreadable authority
    /\ UNCHANGED queue

OpenCommandAdmission ==
    /\ DriverStep("open")
    /\ Send(OpenAdmissionMessage)
    /\ driver' = [driver EXCEPT !.phase = "waiting"]
    /\ UNCHANGED <<gate, faults>>

\* The caller drops the recovery future: its message stays in the actor.
AbandonRecovery ==
    /\ runtime = "up" /\ driver.phase # "idle"
    /\ Fault
    /\ driver' = IdleDriver
    /\ queue' = [i \in DOMAIN queue |-> [queue[i] EXCEPT !.waiter = FALSE]]
    /\ job' = IF job = IdleJob THEN job ELSE [job EXCEPT !.message.waiter = FALSE]
    /\ UNCHANGED <<durable, runtime, gate, stray, sent>>

-----------------------------------------------------------------------------
(* Lifecycle. The OS lock admits one runtime at a time (WriterLease).      *)

NoActor ==
    /\ gate' = FALSE /\ queue' = <<>> /\ job' = IdleJob /\ driver' = IdleDriver

\* start: a strictly newer generation, and a closed gate.
StartRuntime ==
    /\ runtime = "down" /\ generation + 1 \in Generations
    /\ generation' = generation + 1
    /\ runtime' = "up"
    /\ NoActor
    /\ UNCHANGED <<records, head, target, stray, faults, sent>>

\* The generation was allocated but start failed afterwards.
StartFails ==
    /\ runtime = "down" /\ generation + 1 \in Generations
    /\ Fault
    /\ generation' = generation + 1
    /\ UNCHANGED <<records, head, target, runtime, gate, queue, job, driver, stray, sent>>

\* shutdown consumes the runtime, so no recovery borrows it.
Shutdown ==
    /\ driver.phase = "idle"
    /\ ClientSends(ShutdownMessage)

\* The actor stops in queue order, later messages are dropped unanswered, and
\* the lease is released only once the task has been joined.
ReceiveShutdown ==
    /\ runtime = "up" /\ job = IdleJob
    /\ queue # <<>> /\ Head(queue).kind = "Shutdown"
    /\ runtime' = "down"
    /\ NoActor
    /\ UNCHANGED <<durable, stray, faults, sent>>

\* Mutant: dropping the runtime releases the OS lock at once.
DropReleasesLock ==
    /\ runtime = "up"
    /\ Fault
    /\ runtime' = "down"
    /\ stray' \in IF job.stage = "commit" THEN {{}, {job.row}} ELSE {{}}
    /\ NoActor
    /\ UNCHANGED <<durable, sent>>

\* Drop aborts the actor but keeps the OS lock: an effect whose future is not
\* yet dropped may still be running.
DropRuntime ==
    /\ runtime = "up"
    /\ Fault
    /\ runtime' = "dropped"
    /\ stray' \in IF job.stage = "commit" THEN {{}, {job.row}} ELSE {{}}
    /\ NoActor
    /\ UNCHANGED <<durable, sent>>

StrayLands ==
    /\ \E row \in stray : Land(row)
    /\ stray' = {}
    /\ UNCHANGED <<records, generation, runtime, gate, queue, job, driver, faults, sent>>

\* The process ends: its lock, its actor and its running effects with it.
ProcessEnds ==
    /\ runtime' = "down"
    /\ stray' = {}
    /\ NoActor
    /\ UNCHANGED <<durable, sent>>

Crash == runtime = "up" /\ Fault /\ ProcessEnds
ExitAfterDrop == runtime = "dropped" /\ UNCHANGED faults /\ ProcessEnds

-----------------------------------------------------------------------------
Init ==
    /\ records = {} /\ generation = 1 /\ head = GenesisHead /\ target = <<>>
    /\ runtime = "up" /\ gate = FALSE /\ queue = <<>> /\ job = IdleJob
    /\ driver = IdleDriver /\ stray = {}
    /\ faults = 0 /\ sent = 0

ActorNext ==
    \/ ReceiveSubmit
    \/ \E kind \in {"Cancel", "Reconcile", "Retry", "ResumePrecommit",
                    "MarkInterruptedCommit"} : ReceiveRequest(kind)
    \/ ReceiveIndeterminate
    \/ ReceiveOpenAdmission
    \/ ReceiveShutdown
    \/ Transition \/ TransitionFails
    \/ Prepare \/ Commit \/ EffectRefused

DriverNext == LoadPage \/ RecoverRow \/ CloseBeforeOpening \/ OpenCommandAdmission

Next ==
    \/ Submit \/ Request \/ Shutdown
    \/ ActorNext
    \/ StartRecovery \/ DriverNext \/ AbandonRecovery
    \/ StartRuntime \/ StartFails
    \/ DropRuntime \/ StrayLands \/ Crash \/ ExitAfterDrop

Spec == Init /\ [][Next]_vars

\* The actor and the driver are tasks the executor polls; a dropped runtime's
\* process exits and a workspace without one is started again; the owner calls
\* recovery while the gate is closed.
FairSpec ==
    /\ Spec
    /\ WF_vars(ActorNext) /\ WF_vars(DriverNext)
    /\ WF_vars(StartRuntime) /\ WF_vars(ExitAfterDrop)
    /\ WF_vars(~gate /\ StartRecovery)

-----------------------------------------------------------------------------
(* Properties.                                                             *)

Messages ==
    [kind: {"Submit"}, command: FabricCommands, waiter: BOOLEAN]
        \cup [kind: {"Cancel", "Reconcile", "Retry", "ResumePrecommit",
                     "MarkInterruptedCommit"}, op: Ops, waiter: BOOLEAN]
        \cup [kind: {"OpenAdmission", "Shutdown"}, waiter: BOOLEAN]

Jobs ==
    {IdleJob}
        \cup [stage: {"transition", "prepare", "commit"}, message: Messages,
              row: CommandRecords, event: CommandEvents]

\* The page the driver works through holds nonterminal rows only.
Drivers ==
    [phase: {"idle", "load", "rows", "open", "waiting"}, sweep: 0..MaxSweeps,
     rows: SUBSET {rec \in CommandRecords : ~Terminal(rec)}]

Commits == [op: Ops, attempt: Nat, transaction: Transactions, generation: Generations]

\* The types of the runtime's durable and volatile state; the mailbox never
\* exceeds queue_capacity, and at most one reply is owed to the recovery driver.
TypeOK ==
    /\ records \subseteq CommandRecords
    /\ generation \in Generations /\ head \in Heads
    /\ target \in Seq(Commits)
    /\ runtime \in {"down", "up", "dropped"}
    /\ gate \in BOOLEAN
    /\ queue \in Seq(Messages) /\ Len(queue) <= QueueCapacity
    /\ job \in Jobs
    /\ driver \in Drivers
    /\ stray \subseteq CommandRecords
    /\ faults \in 0..MaxFaults /\ sent \in 0..MaxSent

\* No interleaving of failures, retries, recoveries and restarts makes one
\* operation's target transaction land twice.
ExactlyOnce ==
    \A i, j \in DOMAIN target : target[i].op = target[j].op => i = j

\* What the journal says of an operation is what the target holds: a success
\* names a transaction that landed, and a failed, cancelled, unstarted or
\* retryable command has left nothing behind.
JournalTellsTheTruth ==
    \A rec \in records :
        /\ rec.state.kind = "Succeeded" => MarkerPresent(rec)
        /\ rec.state.kind \in {"Admitted", "Executing", "RetryReady", "Failed", "Cancelled"}
             => ~Landed(rec.command.op)

\* At most one admitted command is unsettled, and while the gate is open only
\* the message the actor is working on can be.
OneUnsettledCommand ==
    /\ \A r1, r2 \in Nonterminal : r1 = r2
    /\ gate /\ Nonterminal # {} => job.stage # "idle" /\ job.message.kind = "Submit"

\* A command that may still prepare or commit was built on the head that is
\* still selected: nothing can move it while the command is unsettled, so
\* recovery never strands a row on StaleExpectedHead.
UnsettledHeadIsCurrent ==
    \A rec \in Nonterminal :
        Landed(rec.command.op) \/ rec.command.expected_head = head

\* The row a serial actor holds across its awaits is still the durable row, so
\* no compare-and-swap of its own ever conflicts.
ActorHoldsDurableRow == job.stage # "idle" => job.row \in records

\* Only the current writer generation's commits land, also after an abort.
OnlyCurrentWriterLands ==
    [][target' # target => target'[Len(target')].generation = generation]_vars

\* Once failures stop, recovery settles every command and admission opens.
AdmissionReopens == []<>(runtime = "up" /\ gate /\ Nonterminal = {})

\* The runtime's journal behaves as the journal promises.
Journal == INSTANCE CommandJournal
    WITH active_fence <- Owner.fence, current_head <- head
ImplementsJournal == Journal!Spec

\* The runtime asks of its writer lease only what WriterAuthority promises, and
\* its effects land only under the authority it holds.
LastWriter == IF target = <<>> THEN 0 ELSE target[Len(target)].generation
Authority == INSTANCE WriterAuthority
    WITH held <- runtime # "down", lastWriter <- LastWriter
ImplementsAuthority == Authority!Spec

\* Each operation takes effect at most once, while it is pending, and its
\* recorded answer is final and right.
OutcomeOf(op) ==
    LET rows == {rec \in records : rec.command.op = op}
        row == CHOOSE rec \in rows : TRUE
    IN  IF rows = {} THEN "absent"
        ELSE IF Terminal(row) THEN row.state.kind ELSE "pending"

Ledger == INSTANCE CommandLedger
    WITH outcome <- [op \in Ops |-> OutcomeOf(op)],
         effects <- [op \in Ops |-> Cardinality({i \in DOMAIN target : target[i].op = op})]
ImplementsLedger == Ledger!Spec

\* Effects happen at most once, and the journal and the target tell the same
\* story of each operation.
EffectsMatchJournal == ExactlyOnce /\ JournalTellsTheTruth

\* The actor is serial: on typed state, one command at a time is unsettled, it
\* is the one the actor holds, and no other command moves the head below it.
ActorIsSerial ==
    TypeOK /\ ActorHoldsDurableRow /\ OneUnsettledCommand /\ UnsettledHeadIsCurrent
=============================================================================
