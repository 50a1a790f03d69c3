--------------------------- MODULE FabricCommand ---------------------------
(***************************************************************************)
(* The pure command contract of the durable fabric-command path: the       *)
(* records the journal holds, the events an actor may present, and the     *)
(* reducer CommandReducer of fabric/command.rs that alone may construct a  *)
(* successor record.                                                       *)
(*                                                                         *)
(* A reduction is a set of successor records: empty when the code returns  *)
(* a CommandContractError, and otherwise the singleton of its answer,      *)
(* which is the record itself for an idempotent replay.                    *)
(***************************************************************************)
EXTENDS Naturals

CONSTANTS
    Ops,          \* operation identities
    Keys,         \* idempotency keys
    Kinds,        \* command kinds; one payload per kind
    Heads,        \* epochs, and Empty
    Leases,       \* writer lease identities
    Actors,       \* actor identities
    Generations,  \* writer generations, nonzero
    Transactions, \* target transaction references
    Refs,         \* opaque diagnostic, cancellation and evidence references
    MaxAttempt,   \* u32::MAX in the code: checked_add on attempts fails here
    MaxProbe,     \* u32::MAX in the code, for reconciliation probes
    MaxRevision   \* u64::MAX in the code, for record revisions

ASSUME GenerationsAssumption == Generations \subseteq Nat \ {0}
ASSUME LimitsAssumption ==
    MaxAttempt \in Nat \ {0} /\ MaxProbe \in Nat /\ MaxRevision \in Nat

-----------------------------------------------------------------------------
(* Identities, commands and failures.                                      *)

Fences == [lease: Leases, generation: Generations]
Owners == [actor: Actors, fence: Fences]

FabricCommands ==
    [op: Ops, key: Keys, kind: Kinds, expected_head: Heads, writer_fence: Fences]

Failures == [class: {"Permanent", "RetryableBeforeCommit"}, diagnostic: Refs]

-----------------------------------------------------------------------------
(* DurableCommandState. Option::None is the empty set, Some(x) is {x}.     *)

Options(S) == {{}} \cup {{x} : x \in S}

AdmittedStates == [kind: {"Admitted"}, attempt: Nat]
ExecutingStates == [kind: {"Executing"}, attempt: Nat, owner: Owners]
PreparedStates ==
    [kind: {"CommitPrepared"}, attempt: Nat, owner: Owners, transaction: Transactions]
AwaitingStates ==
    [kind: {"AwaitingReconciliation"}, attempt: Nat, execution_owner: Owners,
     recovery_owner: Owners, transaction: Transactions, unknown: Refs,
     probe_count: Nat, last_evidence: Options(Refs)]
RetryBases ==
    [kind: {"KnownFailure"}, failure: Failures]
        \cup [kind: {"ReconciledNotCommitted"}, evidence: Refs]
RetryReadyStates ==
    [kind: {"RetryReady"}, next_attempt: Nat, required_fence: Fences, basis: RetryBases]
SucceededStates ==
    [kind: {"Succeeded"}, transaction: Transactions, result: Kinds,
     confirmation: Options(Refs)]     \* None is Direct, Some is Reconciled
FailedStates == [kind: {"Failed"}, failure: Failures]
CancelledStates == [kind: {"Cancelled"}, cancellation: Refs]

DurableCommandStates ==
    AdmittedStates \cup ExecutingStates \cup PreparedStates \cup AwaitingStates
        \cup RetryReadyStates \cup SucceededStates \cup FailedStates \cup CancelledStates

CommandRecords == [command: FabricCommands, state: DurableCommandStates, revision: Nat]

Terminal(rec) == rec.state.kind \in {"Succeeded", "Failed", "Cancelled"}

\* The one restart action a nonterminal record asks for.
RecoveryObligation(rec) ==
    CASE rec.state.kind \in {"Admitted", "Executing"} -> "ResumePrecommit"
      [] rec.state.kind = "CommitPrepared" -> "MarkInterruptedCommit"
      [] rec.state.kind = "AwaitingReconciliation" -> "ReconcileCommit"
      [] rec.state.kind = "RetryReady" -> "RetryProvedNotCommitted"
      [] OTHER -> "None"

-----------------------------------------------------------------------------
(* Fencing rules.                                                          *)

\* validate_new_or_recovery_owner, and the persisted fence check.
FenceAuthorizes(required, fence) ==
    fence = required \/ fence.generation > required.generation

\* validate_recovery_owner: the same owner, or a strictly newer generation.
RecoveryOwnerAuthorizes(current, owner) ==
    owner = current \/ owner.fence.generation > current.fence.generation

-----------------------------------------------------------------------------
(* validate_persisted_invariants: what the journal decoder accepts.        *)

ValidState(command, state, revision) ==
    CASE state.kind = "Admitted" ->
            state.attempt = 1 /\ revision = 0
      [] state.kind = "Executing" ->
            /\ state.attempt # 0 /\ revision + 1 >= 2 * state.attempt
            /\ FenceAuthorizes(command.writer_fence, state.owner.fence)
      [] state.kind = "CommitPrepared" ->
            /\ state.attempt # 0 /\ revision >= 2 * state.attempt
            /\ FenceAuthorizes(command.writer_fence, state.owner.fence)
      [] state.kind = "AwaitingReconciliation" ->
            /\ state.attempt # 0
            /\ revision >= 2 * state.attempt + 1 + state.probe_count
            /\ FenceAuthorizes(command.writer_fence, state.execution_owner.fence)
            /\ RecoveryOwnerAuthorizes(state.execution_owner, state.recovery_owner)
            /\ (state.probe_count = 0) <=> (state.last_evidence = {})
      [] state.kind = "RetryReady" ->
            /\ state.next_attempt >= 2
            /\ IF state.basis.kind = "KnownFailure"
               THEN /\ revision + 2 >= 2 * state.next_attempt
                    /\ state.basis.failure.class # "Permanent"
               ELSE revision >= 2 * state.next_attempt
            /\ FenceAuthorizes(command.writer_fence, state.required_fence)
      [] state.kind = "Succeeded" ->
            /\ revision >= (IF state.confirmation = {} THEN 3 ELSE 4)
            /\ state.result = command.kind
      [] state.kind = "Failed" ->
            revision >= 2 /\ state.failure.class = "Permanent"
      [] OTHER -> revision >= 1

ValidPersisted(rec) == ValidState(rec.command, rec.state, rec.revision)

-----------------------------------------------------------------------------
(* Events and the context a reduction reads.                               *)

Observations ==
    [kind: {"Committed"}, evidence: Refs, result: Kinds]
        \cup [kind: {"NotCommitted", "Indeterminate"}, evidence: Refs]

CommandEvents ==
    [kind: {"Start"}, owner: Owners]
        \cup [kind: {"PrepareCommit"}, owner: Owners, transaction: Transactions]
        \cup [kind: {"ConfirmCommit"}, owner: Owners, transaction: Transactions,
              result: Kinds]
        \cup [kind: {"ReportKnownFailure"}, owner: Owners, failure: Failures]
        \cup [kind: {"ReportUnknownCommit"}, owner: Owners, transaction: Transactions,
              unknown: Refs]
        \cup [kind: {"ObserveReconciliation"}, owner: Owners,
              transaction: Transactions, observation: Observations]
        \cup [kind: {"CancelBeforeCommit"}, owner: Owners, cancellation: Refs]

ReductionContexts == [current_head: Heads, active_fence: Fences]

-----------------------------------------------------------------------------
(* Successor construction.                                                 *)

When(guard, outcomes) == IF guard THEN outcomes ELSE {}

Changed(rec, state) ==
    When(rec.revision < MaxRevision,
         {[command |-> rec.command, state |-> state, revision |-> rec.revision + 1]})

Idempotent(rec) == {rec}

RetryReady(attempt, fence, basis) ==
    [kind |-> "RetryReady", next_attempt |-> attempt + 1,
     required_fence |-> fence, basis |-> basis]

\* Mutant: the retry is fenced by the admitted writer, not by the one that ran.
KnownFailureFencedByAdmission(rec, attempt, fence, failure) ==
    IF failure.class = "Permanent"
    THEN Changed(rec, [kind |-> "Failed", failure |-> failure])
    ELSE When(attempt < MaxAttempt,
              Changed(rec, RetryReady(attempt, rec.command.writer_fence,
                                      [kind |-> "KnownFailure", failure |-> failure])))

\* known_failure_state under CommandFailure::retry_classification.
KnownFailureOutcome(rec, attempt, fence, failure) ==
    IF failure.class = "Permanent"
    THEN Changed(rec, [kind |-> "Failed", failure |-> failure])
    ELSE When(attempt < MaxAttempt,
              Changed(rec, RetryReady(attempt, fence,
                                      [kind |-> "KnownFailure", failure |-> failure])))

-----------------------------------------------------------------------------
(* The reducer, one operator per durable state.                            *)

ReduceAdmitted(rec, event) ==
    LET owned == FenceAuthorizes(rec.command.writer_fence, event.owner.fence)
    IN  CASE event.kind = "Start" ->
               When(owned, Changed(rec, [kind |-> "Executing",
                                         attempt |-> rec.state.attempt,
                                         owner |-> event.owner]))
          [] event.kind = "CancelBeforeCommit" ->
               When(owned, Changed(rec, [kind |-> "Cancelled",
                                         cancellation |-> event.cancellation]))
          [] OTHER -> {}

\* A cancellation is illegal here: the retry decision is already durable.
ReduceRetryReady(rec, event) ==
    CASE event.kind = "Start" ->
           When(FenceAuthorizes(rec.state.required_fence, event.owner.fence),
                Changed(rec, [kind |-> "Executing", attempt |-> rec.state.next_attempt,
                              owner |-> event.owner]))
      [] event.kind = "ReportKnownFailure" ->
           When(rec.state.basis = [kind |-> "KnownFailure", failure |-> event.failure],
                Idempotent(rec))
      [] OTHER -> {}

ReduceExecuting(rec, event) ==
    LET current == rec.state.owner
    IN  CASE event.kind = "Start" ->
               IF event.owner = current THEN Idempotent(rec)
               ELSE When(RecoveryOwnerAuthorizes(current, event.owner),
                         Changed(rec, [kind |-> "Executing",
                                       attempt |-> rec.state.attempt,
                                       owner |-> event.owner]))
          [] event.kind = "PrepareCommit" ->
               When(event.owner = current,
                    Changed(rec, [kind |-> "CommitPrepared",
                                  attempt |-> rec.state.attempt, owner |-> event.owner,
                                  transaction |-> event.transaction]))
          [] event.kind = "ReportKnownFailure" ->
               When(event.owner = current,
                    KnownFailureOutcome(rec, rec.state.attempt, current.fence,
                                        event.failure))
          [] event.kind = "CancelBeforeCommit" ->
               When(event.owner = current,
                    Changed(rec, [kind |-> "Cancelled",
                                  cancellation |-> event.cancellation]))
          [] OTHER -> {}

\* A prepared commit can no longer be cancelled, and a newer writer may only
\* report that its outcome is unknown.
ReducePrepared(rec, event) ==
    LET current == rec.state.owner
        exact == event.owner = current /\ event.transaction = rec.state.transaction
    IN  CASE event.kind = "PrepareCommit" -> When(exact, Idempotent(rec))
          [] event.kind = "ConfirmCommit" ->
               When(exact, Changed(rec, [kind |-> "Succeeded",
                                         transaction |-> event.transaction,
                                         result |-> event.result, confirmation |-> {}]))
          [] event.kind = "ReportKnownFailure" ->
               When(event.owner = current,
                    KnownFailureOutcome(rec, rec.state.attempt, current.fence,
                                        event.failure))
          [] event.kind = "ReportUnknownCommit" ->
               When(/\ RecoveryOwnerAuthorizes(current, event.owner)
                    /\ event.transaction = rec.state.transaction,
                    Changed(rec, [kind |-> "AwaitingReconciliation",
                                  attempt |-> rec.state.attempt,
                                  execution_owner |-> current,
                                  recovery_owner |-> event.owner,
                                  transaction |-> event.transaction,
                                  unknown |-> event.unknown,
                                  probe_count |-> 0, last_evidence |-> {}]))
          [] OTHER -> {}

\* Mutant: an indeterminate probe keeps the previous evidence.
ProbeKeepsOldEvidence(rec, owner, observation) ==
    CASE observation.kind = "Indeterminate" ->
           When(rec.state.probe_count < MaxProbe,
                Changed(rec, [rec.state EXCEPT !.recovery_owner = owner,
                                               !.probe_count = @ + 1]))
      [] OTHER -> {}

\* Mutant: the newest reader also replaces the executor of the transaction.
ProbeReplacesExecutor(rec, owner, observation) ==
    CASE observation.kind = "Indeterminate" ->
           When(rec.state.probe_count < MaxProbe,
                Changed(rec, [rec.state EXCEPT !.execution_owner = owner,
                                               !.recovery_owner = owner,
                                               !.probe_count = @ + 1,
                                               !.last_evidence = {observation.evidence}]))
      [] OTHER -> {}

ApplyReconciliation(rec, owner, observation) ==
    LET evidence == observation.evidence
    IN  CASE observation.kind = "Committed" ->
               Changed(rec, [kind |-> "Succeeded", transaction |-> rec.state.transaction,
                             result |-> observation.result, confirmation |-> {evidence}])
          [] observation.kind = "NotCommitted" ->
               When(rec.state.attempt < MaxAttempt,
                    Changed(rec, RetryReady(rec.state.attempt, owner.fence,
                                            [kind |-> "ReconciledNotCommitted",
                                             evidence |-> evidence])))
          [] OTHER ->
               When(rec.state.probe_count < MaxProbe,
                    Changed(rec, [kind |-> "AwaitingReconciliation",
                                  attempt |-> rec.state.attempt,
                                  execution_owner |-> rec.state.execution_owner,
                                  recovery_owner |-> owner,
                                  transaction |-> rec.state.transaction,
                                  unknown |-> rec.state.unknown,
                                  probe_count |-> rec.state.probe_count + 1,
                                  last_evidence |-> {evidence}]))

ReduceAwaitingReconciliation(rec, event) ==
    LET exact == /\ RecoveryOwnerAuthorizes(rec.state.recovery_owner, event.owner)
                 /\ event.transaction = rec.state.transaction
    IN  CASE event.kind = "ReportUnknownCommit" ->
               When(exact /\ event.unknown = rec.state.unknown, Idempotent(rec))
          [] event.kind = "ObserveReconciliation" ->
               When(exact, ApplyReconciliation(rec, event.owner, event.observation))
          [] OTHER -> {}

\* terminal_replay: an exact repeat of the terminal answer is accepted before
\* any fence is looked at, and everything else is a TerminalConflict.
TerminalReplay(rec, event) ==
    CASE /\ rec.state.kind = "Succeeded" /\ event.kind = "ConfirmCommit" ->
           When(/\ event.transaction = rec.state.transaction
                /\ event.result = rec.state.result, Idempotent(rec))
      [] /\ rec.state.kind = "Succeeded" /\ event.kind = "ObserveReconciliation" ->
           When(/\ event.observation.kind = "Committed"
                /\ event.transaction = rec.state.transaction
                /\ event.observation.result = rec.state.result, Idempotent(rec))
      [] /\ rec.state.kind = "Failed" /\ event.kind = "ReportKnownFailure" ->
           When(event.failure = rec.state.failure, Idempotent(rec))
      [] /\ rec.state.kind = "Cancelled" /\ event.kind = "CancelBeforeCommit" ->
           When(event.cancellation = rec.state.cancellation, Idempotent(rec))
      [] OTHER -> {}

ResultKindMatches(command, event) ==
    /\ event.kind = "ConfirmCommit" => event.result = command.kind
    /\ event.kind = "ObserveReconciliation" =>
         (event.observation.kind = "Committed" => event.observation.result = command.kind)

\* Only Start and PrepareCommit are refused on a moved head: once a commit is
\* prepared, its outcome must be recorded whatever the head has become.
ContextAllows(command, event, context) ==
    /\ event.owner.fence = context.active_fence
    /\ event.kind \in {"Start", "PrepareCommit"} =>
         context.current_head = command.expected_head

Reduce(rec, event, context) ==
    IF ~ResultKindMatches(rec.command, event) THEN {}
    ELSE IF Terminal(rec) THEN TerminalReplay(rec, event)
    ELSE IF ~ContextAllows(rec.command, event, context) THEN {}
    ELSE CASE rec.state.kind = "Admitted" -> ReduceAdmitted(rec, event)
           [] rec.state.kind = "Executing" -> ReduceExecuting(rec, event)
           [] rec.state.kind = "CommitPrepared" -> ReducePrepared(rec, event)
           [] rec.state.kind = "AwaitingReconciliation" ->
                ReduceAwaitingReconciliation(rec, event)
           [] OTHER -> ReduceRetryReady(rec, event)

\* CommandReducer::admit for a command the journal does not know yet.
Admit(command, context, authorized) ==
    When(/\ authorized
         /\ context.current_head = command.expected_head
         /\ context.active_fence = command.writer_fence,
         {[command |-> command, state |-> [kind |-> "Admitted", attempt |-> 1],
           revision |-> 0]})

-----------------------------------------------------------------------------
(* What the journal relies on when it writes a reduction's answer.         *)

\* The generation that last acted on a row.
AuthorityGeneration(rec) ==
    CASE rec.state.kind = "Admitted" -> rec.command.writer_fence.generation
      [] rec.state.kind \in {"Executing", "CommitPrepared"} ->
           rec.state.owner.fence.generation
      [] rec.state.kind = "AwaitingReconciliation" ->
           rec.state.recovery_owner.fence.generation
      [] OTHER -> rec.state.required_fence.generation

\* A step rewrites a row only into the next revision of the same command, never
\* after its terminal answer, and never hands a nonterminal row back to a writer
\* generation older than the one that last acted on it.
RowAdvances(rec, next) ==
    \/ next = rec
    \/ /\ ~Terminal(rec)
       /\ next.command = rec.command
       /\ next.revision = rec.revision + 1
       /\ ~Terminal(next) => AuthorityGeneration(next) >= AuthorityGeneration(rec)

\* Once a commit outcome is unknown, the executor and the transaction that
\* reconciliation must look up never change; the row leaves that state only as
\* the success of that transaction or as the retry of the next attempt.
ReconciliationKeepsExecutor(rec, next) ==
    rec.state.kind = "AwaitingReconciliation" /\ next.command = rec.command =>
        \/ /\ next.state.kind = "AwaitingReconciliation"
           /\ next.state.attempt = rec.state.attempt
           /\ next.state.execution_owner = rec.state.execution_owner
           /\ next.state.transaction = rec.state.transaction
        \/ next.state.kind = "Succeeded" /\ next.state.transaction = rec.state.transaction
        \/ /\ next.state.kind = "RetryReady"
           /\ next.state.next_attempt = rec.state.attempt + 1
=============================================================================
