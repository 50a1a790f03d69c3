------------------------ MODULE FabricCommandProofs ------------------------
(***************************************************************************)
(* Lemmas about the reducer: whatever it answers is the record itself or a *)
(* well-formed next revision of it that the journal's decoder accepts.     *)
(***************************************************************************)
EXTENDS FabricCommand, TLAPS

\* What one reduction guarantees of its answer.
SoundSuccessor(rec, next) ==
    /\ next \in CommandRecords
    /\ ValidPersisted(next)
    /\ RowAdvances(rec, next)
    /\ ReconciliationKeepsExecutor(rec, next)

-----------------------------------------------------------------------------
(* The shape of a state is determined by its kind.                         *)

\* A durable state of a given kind carries exactly that variant's fields.
LEMMA StateShapes ==
    ASSUME NEW s \in DurableCommandStates
    PROVE  /\ s.kind = "Admitted" => s \in AdmittedStates
           /\ s.kind = "Executing" => s \in ExecutingStates
           /\ s.kind = "CommitPrepared" => s \in PreparedStates
           /\ s.kind = "AwaitingReconciliation" => s \in AwaitingStates
           /\ s.kind = "RetryReady" => s \in RetryReadyStates
           /\ s.kind = "Succeeded" => s \in SucceededStates
           /\ s.kind = "Failed" => s \in FailedStates
           /\ s.kind = "Cancelled" => s \in CancelledStates
           /\ s.kind \in {"Admitted", "Executing", "CommitPrepared",
                "AwaitingReconciliation", "RetryReady", "Succeeded", "Failed", "Cancelled"}
<1>1. CASE s \in AdmittedStates
  BY <1>1 DEF AdmittedStates
<1>2. CASE s \in ExecutingStates
  BY <1>2 DEF ExecutingStates
<1>3. CASE s \in PreparedStates
  BY <1>3 DEF PreparedStates
<1>4. CASE s \in AwaitingStates
  BY <1>4 DEF AwaitingStates
<1>5. CASE s \in RetryReadyStates
  BY <1>5 DEF RetryReadyStates
<1>6. CASE s \in SucceededStates
  BY <1>6 DEF SucceededStates
<1>7. CASE s \in FailedStates
  BY <1>7 DEF FailedStates
<1>8. CASE s \in CancelledStates
  BY <1>8 DEF CancelledStates
<1> QED
  BY <1>1, <1>2, <1>3, <1>4, <1>5, <1>6, <1>7, <1>8 DEF DurableCommandStates

\* checked_add on the revision: the successor is the next revision of the same
\* command, in the given state.
LEMMA ChangedIsNext ==
    ASSUME NEW rec \in CommandRecords, NEW state \in DurableCommandStates,
           NEW next \in Changed(rec, state)
    PROVE  /\ next \in CommandRecords
           /\ next.command = rec.command
           /\ next.state = state
           /\ next.revision = rec.revision + 1
  BY DEF Changed, When, CommandRecords

\* Every event carries the owner that presents it.
LEMMA EventOwner ==
    ASSUME NEW event \in CommandEvents
    PROVE  /\ event.owner \in Owners
           /\ event.owner.actor \in Actors
           /\ event.owner.fence \in Fences
           /\ event.owner.fence.generation \in Nat
           /\ event.kind = "PrepareCommit" => event.transaction \in Transactions
  BY Zenon, GenerationsAssumption DEF CommandEvents, Owners, Fences

-----------------------------------------------------------------------------
(* One lemma per durable state: what the reducer answers there is sound.   *)

\* reduce_admitted: a start or a cancellation under an authorised fence.
LEMMA ReduceAdmittedSound ==
    ASSUME NEW rec \in CommandRecords, NEW event \in CommandEvents,
           rec.state.kind = "Admitted", ValidPersisted(rec),
           NEW next \in ReduceAdmitted(rec, event)
    PROVE  SoundSuccessor(rec, next)
<1>1. rec.state \in AdmittedStates /\ rec.command \in FabricCommands /\ rec.revision \in Nat
  BY StateShapes DEF CommandRecords
<1>2. event.owner \in Owners /\ event.owner.fence.generation \in Nat
  BY EventOwner
<1>3. rec.command.writer_fence.generation \in Nat
  BY Zenon, <1>1, GenerationsAssumption DEF FabricCommands, Fences
<1>4. CASE event.kind = "Start"
  <2> DEFINE st == [kind |-> "Executing", attempt |-> rec.state.attempt,
                    owner |-> event.owner]
  <2>1. st \in DurableCommandStates
    BY <1>1, <1>2 DEF DurableCommandStates, ExecutingStates, AdmittedStates
  <2>2. next \in Changed(rec, st) /\ FenceAuthorizes(rec.command.writer_fence, event.owner.fence)
    BY <1>4 DEF ReduceAdmitted, When
  <2>3. /\ next \in CommandRecords /\ next.command = rec.command
        /\ next.state = st /\ next.revision = rec.revision + 1
    BY <2>1, <2>2, ChangedIsNext
  <2> QED
    BY <1>1, <1>2, <1>3, <2>2, <2>3
    DEF SoundSuccessor, ValidPersisted, ValidState, RowAdvances, Terminal,
        AuthorityGeneration, ReconciliationKeepsExecutor, FenceAuthorizes
<1>5. CASE event.kind = "CancelBeforeCommit"
  <2> DEFINE st == [kind |-> "Cancelled", cancellation |-> event.cancellation]
  <2>1. st \in DurableCommandStates
    BY <1>5 DEF DurableCommandStates, CancelledStates, CommandEvents
  <2>2. next \in Changed(rec, st)
    BY <1>5 DEF ReduceAdmitted, When
  <2>3. /\ next \in CommandRecords /\ next.command = rec.command
        /\ next.state = st /\ next.revision = rec.revision + 1
    BY <2>1, <2>2, ChangedIsNext
  <2> QED
    BY <1>1, <2>3
    DEF SoundSuccessor, ValidPersisted, ValidState, RowAdvances, Terminal,
        ReconciliationKeepsExecutor
<1> QED
  BY <1>4, <1>5 DEF ReduceAdmitted

\* known_failure_state: a permanent failure ends the command, a retryable one
\* is fenced by the writer that ran the attempt.
LEMMA KnownFailureSound ==
    ASSUME NEW rec \in CommandRecords, ValidPersisted(rec),
           rec.state.kind \in {"Executing", "CommitPrepared"},
           NEW failure \in Failures,
           NEW next \in KnownFailureOutcome(rec, rec.state.attempt,
                                            rec.state.owner.fence, failure)
    PROVE  SoundSuccessor(rec, next)
<1> DEFINE fence == rec.state.owner.fence
           basis == [kind |-> "KnownFailure", failure |-> failure]
<1>1. /\ rec.command \in FabricCommands /\ rec.revision \in Nat
      /\ rec.state.attempt \in Nat /\ fence \in Fences
  BY StateShapes DEF CommandRecords, ExecutingStates, PreparedStates, Owners
<1>2. /\ rec.command.writer_fence.generation \in Nat /\ fence.generation \in Nat
  BY Zenon, <1>1, GenerationsAssumption DEF FabricCommands, Fences
<1>3. /\ rec.state.attempt # 0 /\ rec.revision + 1 >= 2 * rec.state.attempt
      /\ FenceAuthorizes(rec.command.writer_fence, fence)
  BY <1>1 DEF ValidPersisted, ValidState
<1>4. CASE failure.class = "Permanent"
  <2> DEFINE st == [kind |-> "Failed", failure |-> failure]
  <2>1. st \in DurableCommandStates
    BY DEF DurableCommandStates, FailedStates
  <2>2. next \in Changed(rec, st)
    BY <1>4 DEF KnownFailureOutcome
  <2>3. /\ next \in CommandRecords /\ next.command = rec.command
        /\ next.state = st /\ next.revision = rec.revision + 1
    BY <2>1, <2>2, ChangedIsNext
  <2> QED
    BY <1>1, <1>3, <1>4, <2>3
    DEF SoundSuccessor, ValidPersisted, ValidState, RowAdvances, Terminal,
        ReconciliationKeepsExecutor
<1>5. CASE failure.class # "Permanent"
  <2> DEFINE st == RetryReady(rec.state.attempt, fence, basis)
  <2>1. basis \in RetryBases
    BY DEF RetryBases
  <2>2. st \in DurableCommandStates
    BY <1>1, <2>1 DEF DurableCommandStates, RetryReadyStates, RetryReady
  <2>3. next \in Changed(rec, st)
    BY <1>5 DEF KnownFailureOutcome, When
  <2>4. /\ next \in CommandRecords /\ next.command = rec.command
        /\ next.state = st /\ next.revision = rec.revision + 1
    BY <2>2, <2>3, ChangedIsNext
  <2> QED
    BY <1>1, <1>2, <1>3, <1>5, <2>4
    DEF SoundSuccessor, ValidPersisted, ValidState, RowAdvances, Terminal, RetryReady,
        AuthorityGeneration, ReconciliationKeepsExecutor
<1> QED
  BY <1>4, <1>5

\* reduce_executing: takeover by a newer writer, preparation, failure, cancellation.
LEMMA ReduceExecutingSound ==
    ASSUME NEW rec \in CommandRecords, NEW event \in CommandEvents,
           rec.state.kind = "Executing", ValidPersisted(rec),
           NEW next \in ReduceExecuting(rec, event)
    PROVE  next = rec \/ SoundSuccessor(rec, next)
<1>1. rec.state \in ExecutingStates /\ rec.command \in FabricCommands /\ rec.revision \in Nat
  BY StateShapes DEF CommandRecords
<1>2. /\ event.owner \in Owners /\ event.owner.fence.generation \in Nat
      /\ rec.state.owner \in Owners /\ rec.state.owner.fence.generation \in Nat
      /\ rec.command.writer_fence.generation \in Nat
  BY Zenon, <1>1, EventOwner, GenerationsAssumption DEF ExecutingStates, FabricCommands, Owners, Fences
<1>3. CASE event.kind = "Start"
  <2> DEFINE st == [kind |-> "Executing", attempt |-> rec.state.attempt,
                    owner |-> event.owner]
  <2>1. st \in DurableCommandStates
    BY <1>1, <1>2 DEF DurableCommandStates, ExecutingStates
  <2>2. \/ next = rec
        \/ next \in Changed(rec, st) /\ RecoveryOwnerAuthorizes(rec.state.owner, event.owner)
    BY <1>3 DEF ReduceExecuting, When, Idempotent
  <2>3. ASSUME next \in Changed(rec, st) 
        PROVE /\ next \in CommandRecords /\ next.command = rec.command
              /\ next.state = st /\ next.revision = rec.revision + 1
    BY <2>1, <2>3, ChangedIsNext
  <2> QED
    BY <1>1, <1>2, <2>2, <2>3
    DEF SoundSuccessor, ValidPersisted, ValidState, RowAdvances, Terminal, ExecutingStates,
        AuthorityGeneration, ReconciliationKeepsExecutor, FenceAuthorizes,
        RecoveryOwnerAuthorizes
<1>4. CASE event.kind = "PrepareCommit"
  <2> DEFINE st == [kind |-> "CommitPrepared", attempt |-> rec.state.attempt,
                    owner |-> event.owner, transaction |-> event.transaction]
  <2>1. st \in DurableCommandStates
    BY <1>1, <1>2, <1>4, EventOwner DEF DurableCommandStates, ExecutingStates, PreparedStates
  <2>2. next \in Changed(rec, st) /\ event.owner = rec.state.owner
    BY <1>4 DEF ReduceExecuting, When
  <2>3. /\ next \in CommandRecords /\ next.command = rec.command
        /\ next.state = st /\ next.revision = rec.revision + 1
    BY <2>1, <2>2, ChangedIsNext
  <2> QED
    BY <1>1, <1>2, <2>2, <2>3
    DEF SoundSuccessor, ValidPersisted, ValidState, RowAdvances, Terminal, ExecutingStates,
        AuthorityGeneration, ReconciliationKeepsExecutor
<1>5. CASE event.kind = "ReportKnownFailure"
  <2>1. event.failure \in Failures
    BY <1>5 DEF CommandEvents
  <2>2. next \in KnownFailureOutcome(rec, rec.state.attempt, rec.state.owner.fence, event.failure)
    BY <1>5 DEF ReduceExecuting, When
  <2> QED
    BY <2>1, <2>2, KnownFailureSound
<1>6. CASE event.kind = "CancelBeforeCommit"
  <2> DEFINE st == [kind |-> "Cancelled", cancellation |-> event.cancellation]
  <2>1. st \in DurableCommandStates
    BY <1>6 DEF DurableCommandStates, CancelledStates, CommandEvents
  <2>2. next \in Changed(rec, st)
    BY <1>6 DEF ReduceExecuting, When
  <2>3. /\ next \in CommandRecords /\ next.command = rec.command
        /\ next.state = st /\ next.revision = rec.revision + 1
    BY <2>1, <2>2, ChangedIsNext
  <2> QED
    BY <1>1, <2>3
    DEF SoundSuccessor, ValidPersisted, ValidState, RowAdvances, Terminal,
        ReconciliationKeepsExecutor
<1> QED
  BY <1>3, <1>4, <1>5, <1>6 DEF ReduceExecuting

\* reduce_prepared: confirmation, known failure, or an unknown outcome that a
\* newer writer may report without becoming the executor.
LEMMA ReducePreparedSound ==
    ASSUME NEW rec \in CommandRecords, NEW event \in CommandEvents,
           rec.state.kind = "CommitPrepared", ValidPersisted(rec),
           ResultKindMatches(rec.command, event),
           NEW next \in ReducePrepared(rec, event)
    PROVE  next = rec \/ SoundSuccessor(rec, next)
<1>1. rec.state \in PreparedStates /\ rec.command \in FabricCommands /\ rec.revision \in Nat
  BY StateShapes DEF CommandRecords
<1>2. /\ event.owner \in Owners /\ event.owner.fence.generation \in Nat
      /\ rec.state.owner \in Owners /\ rec.state.owner.fence.generation \in Nat
      /\ rec.command.writer_fence.generation \in Nat
  BY Zenon, <1>1, EventOwner, GenerationsAssumption DEF PreparedStates, FabricCommands, Owners, Fences
<1>3. CASE event.kind = "PrepareCommit"
  BY <1>3 DEF ReducePrepared, When, Idempotent
<1>4. CASE event.kind = "ConfirmCommit"
  <2> DEFINE st == [kind |-> "Succeeded", transaction |-> event.transaction,
                    result |-> event.result, confirmation |-> {}]
  <2>1. st \in DurableCommandStates
    BY <1>4 DEF DurableCommandStates, SucceededStates, Options, CommandEvents
  <2>2. next \in Changed(rec, st) /\ event.result = rec.command.kind
    BY <1>4 DEF ReducePrepared, When, ResultKindMatches
  <2>3. /\ next \in CommandRecords /\ next.command = rec.command
        /\ next.state = st /\ next.revision = rec.revision + 1
    BY <2>1, <2>2, ChangedIsNext
  <2> QED
    BY <1>1, <2>2, <2>3
    DEF SoundSuccessor, ValidPersisted, ValidState, RowAdvances, Terminal, PreparedStates,
        ReconciliationKeepsExecutor
<1>5. CASE event.kind = "ReportKnownFailure"
  <2>1. event.failure \in Failures
    BY <1>5 DEF CommandEvents
  <2>2. next \in KnownFailureOutcome(rec, rec.state.attempt, rec.state.owner.fence, event.failure)
    BY <1>5 DEF ReducePrepared, When
  <2> QED
    BY <2>1, <2>2, KnownFailureSound
<1>6. CASE event.kind = "ReportUnknownCommit"
  <2> DEFINE st == [kind |-> "AwaitingReconciliation", attempt |-> rec.state.attempt,
                    execution_owner |-> rec.state.owner, recovery_owner |-> event.owner,
                    transaction |-> event.transaction, unknown |-> event.unknown,
                    probe_count |-> 0, last_evidence |-> {}]
  <2>1. st \in DurableCommandStates
    <3>1. event.transaction \in Transactions /\ event.unknown \in Refs
      BY <1>6 DEF CommandEvents
    <3>2. {} \in Options(Refs)
      BY DEF Options
    <3>3. rec.state.attempt \in Nat
      BY <1>1 DEF PreparedStates
    <3> QED
      BY <1>2, <3>1, <3>2, <3>3 DEF DurableCommandStates, AwaitingStates
  <2>2. next \in Changed(rec, st) /\ RecoveryOwnerAuthorizes(rec.state.owner, event.owner)
    BY <1>6 DEF ReducePrepared, When
  <2>3. /\ next \in CommandRecords /\ next.command = rec.command
        /\ next.state = st /\ next.revision = rec.revision + 1
    BY <2>1, <2>2, ChangedIsNext
  <2> QED
    BY <1>1, <1>2, <2>2, <2>3
    DEF SoundSuccessor, ValidPersisted, ValidState, RowAdvances, Terminal, PreparedStates,
        AuthorityGeneration, ReconciliationKeepsExecutor, RecoveryOwnerAuthorizes
<1> QED
  BY Zenon, <1>3, <1>4, <1>5, <1>6 DEF ReducePrepared

\* apply_reconciliation: the executor and the transaction survive every probe.
LEMMA ApplyReconciliationSound ==
    ASSUME NEW rec \in CommandRecords, NEW owner \in Owners, NEW observation \in Observations,
           rec.state.kind = "AwaitingReconciliation", ValidPersisted(rec),
           RecoveryOwnerAuthorizes(rec.state.recovery_owner, owner),
           observation.kind = "Committed" => observation.result = rec.command.kind,
           NEW next \in ApplyReconciliation(rec, owner, observation)
    PROVE  SoundSuccessor(rec, next)
<1>1. rec.state \in AwaitingStates /\ rec.command \in FabricCommands /\ rec.revision \in Nat
  BY StateShapes DEF CommandRecords
<1>2. /\ owner.fence \in Fences /\ owner.fence.generation \in Nat
      /\ rec.state.recovery_owner.fence.generation \in Nat
      /\ rec.state.execution_owner.fence.generation \in Nat
      /\ rec.command.writer_fence.generation \in Nat
      /\ rec.state.attempt \in Nat /\ rec.state.probe_count \in Nat
      /\ observation.evidence \in Refs
  BY Zenon, <1>1, GenerationsAssumption
  DEF AwaitingStates, FabricCommands, Owners, Fences, Observations
<1>3. /\ rec.state.attempt # 0
      /\ rec.revision >= 2 * rec.state.attempt + 1 + rec.state.probe_count
      /\ FenceAuthorizes(rec.command.writer_fence, rec.state.execution_owner.fence)
      /\ RecoveryOwnerAuthorizes(rec.state.execution_owner, rec.state.recovery_owner)
  BY <1>1 DEF ValidPersisted, ValidState
<1>4. CASE observation.kind = "Committed"
  <2> DEFINE st == [kind |-> "Succeeded", transaction |-> rec.state.transaction,
                    result |-> observation.result, confirmation |-> {observation.evidence}]
  <2>1. st \in DurableCommandStates
    BY <1>1, <1>4 DEF DurableCommandStates, SucceededStates, AwaitingStates, Options, Observations
  <2>2. next \in Changed(rec, st)
    BY <1>4 DEF ApplyReconciliation
  <2>3. /\ next \in CommandRecords /\ next.command = rec.command
        /\ next.state = st /\ next.revision = rec.revision + 1
    BY <2>1, <2>2, ChangedIsNext
  <2> QED
    BY <1>1, <1>2, <1>3, <1>4, <2>3
    DEF SoundSuccessor, ValidPersisted, ValidState, RowAdvances, Terminal,
        ReconciliationKeepsExecutor
<1>5. CASE observation.kind = "NotCommitted"
  <2> DEFINE st == RetryReady(rec.state.attempt, owner.fence,
                              [kind |-> "ReconciledNotCommitted",
                               evidence |-> observation.evidence])
  <2>1. st \in DurableCommandStates
    BY <1>1, <1>2 DEF DurableCommandStates, RetryReadyStates, RetryReady, RetryBases
  <2>2. next \in Changed(rec, st)
    BY <1>5 DEF ApplyReconciliation, When
  <2>3. /\ next \in CommandRecords /\ next.command = rec.command
        /\ next.state = st /\ next.revision = rec.revision + 1
    BY <2>1, <2>2, ChangedIsNext
  <2> QED
    BY <1>1, <1>2, <1>3, <2>3
    DEF SoundSuccessor, ValidPersisted, ValidState, RowAdvances, Terminal, RetryReady,
        AuthorityGeneration, ReconciliationKeepsExecutor, FenceAuthorizes,
        RecoveryOwnerAuthorizes
<1>6. CASE observation.kind = "Indeterminate"
  <2> DEFINE st == [kind |-> "AwaitingReconciliation", attempt |-> rec.state.attempt,
                    execution_owner |-> rec.state.execution_owner,
                    recovery_owner |-> owner, transaction |-> rec.state.transaction,
                    unknown |-> rec.state.unknown,
                    probe_count |-> rec.state.probe_count + 1,
                    last_evidence |-> {observation.evidence}]
  <2>1. st \in DurableCommandStates
    <3>1. {observation.evidence} \in Options(Refs)
      BY <1>2 DEF Options
    <3> QED
      BY <1>1, <1>2, <3>1 DEF DurableCommandStates, AwaitingStates
  <2>2. next \in Changed(rec, st)
    BY <1>6 DEF ApplyReconciliation, When
  <2>3. /\ next \in CommandRecords /\ next.command = rec.command
        /\ next.state = st /\ next.revision = rec.revision + 1
    BY <2>1, <2>2, ChangedIsNext
  <2> QED
    BY <1>1, <1>2, <1>3, <2>3
    DEF SoundSuccessor, ValidPersisted, ValidState, RowAdvances, Terminal,
        AuthorityGeneration, ReconciliationKeepsExecutor, RecoveryOwnerAuthorizes
<1> QED
  BY <1>4, <1>5, <1>6 DEF Observations

\* reduce_retry_ready: only a start under the required fence, or a newer one.
LEMMA ReduceRetryReadySound ==
    ASSUME NEW rec \in CommandRecords, NEW event \in CommandEvents,
           rec.state.kind = "RetryReady", ValidPersisted(rec),
           NEW next \in ReduceRetryReady(rec, event)
    PROVE  next = rec \/ SoundSuccessor(rec, next)
<1>1. rec.state \in RetryReadyStates /\ rec.command \in FabricCommands /\ rec.revision \in Nat
  BY StateShapes DEF CommandRecords
<1>2. /\ event.owner \in Owners /\ event.owner.fence.generation \in Nat
      /\ rec.state.required_fence.generation \in Nat
      /\ rec.command.writer_fence.generation \in Nat
      /\ rec.state.next_attempt \in Nat
  BY Zenon, <1>1, EventOwner, GenerationsAssumption DEF RetryReadyStates, FabricCommands, Fences
<1>3. /\ rec.state.next_attempt >= 2 /\ rec.revision + 2 >= 2 * rec.state.next_attempt
      /\ FenceAuthorizes(rec.command.writer_fence, rec.state.required_fence)
  BY <1>1, <1>2 DEF ValidPersisted, ValidState
<1>4. CASE event.kind = "Start"
  <2> DEFINE st == [kind |-> "Executing", attempt |-> rec.state.next_attempt,
                    owner |-> event.owner]
  <2>1. st \in DurableCommandStates
    BY <1>2 DEF DurableCommandStates, ExecutingStates
  <2>2. /\ next \in Changed(rec, st)
        /\ FenceAuthorizes(rec.state.required_fence, event.owner.fence)
    BY <1>4 DEF ReduceRetryReady, When
  <2>3. /\ next \in CommandRecords /\ next.command = rec.command
        /\ next.state = st /\ next.revision = rec.revision + 1
    BY <2>1, <2>2, ChangedIsNext
  <2> QED
    BY <1>1, <1>2, <1>3, <2>2, <2>3
    DEF SoundSuccessor, ValidPersisted, ValidState, RowAdvances, Terminal,
        AuthorityGeneration, ReconciliationKeepsExecutor, FenceAuthorizes
<1>5. CASE event.kind # "Start"
  BY <1>5 DEF ReduceRetryReady, When, Idempotent
<1> QED
  BY <1>4, <1>5

\* CommandReducer::reduce: whatever it answers is the record itself or a sound
\* successor of it.
LEMMA ReduceSound ==
    ASSUME NEW rec \in CommandRecords, NEW event \in CommandEvents, NEW context,
           ValidPersisted(rec), NEW next \in Reduce(rec, event, context)
    PROVE  next = rec \/ SoundSuccessor(rec, next)
<1>1. ResultKindMatches(rec.command, event)
  BY DEF Reduce
<1>2. rec.state.kind \in {"Admitted", "Executing", "CommitPrepared",
        "AwaitingReconciliation", "RetryReady", "Succeeded", "Failed", "Cancelled"}
  BY StateShapes DEF CommandRecords
<1>3. CASE Terminal(rec)
  <2>1. next \in TerminalReplay(rec, event)
    BY <1>1, <1>3 DEF Reduce
  <2> QED
    BY <2>1 DEF TerminalReplay, When, Idempotent
<1>4. CASE rec.state.kind = "Admitted"
  <2>1. next \in ReduceAdmitted(rec, event)
    BY <1>1, <1>4 DEF Reduce, Terminal
  <2> QED
    BY <1>4, <2>1, ReduceAdmittedSound
<1>5. CASE rec.state.kind = "Executing"
  <2>1. next \in ReduceExecuting(rec, event)
    BY <1>1, <1>5 DEF Reduce, Terminal
  <2> QED
    BY <1>5, <2>1, ReduceExecutingSound
<1>6. CASE rec.state.kind = "CommitPrepared"
  <2>1. next \in ReducePrepared(rec, event)
    BY <1>1, <1>6 DEF Reduce, Terminal
  <2> QED
    BY <1>1, <1>6, <2>1, ReducePreparedSound
<1>7. CASE rec.state.kind = "AwaitingReconciliation"
  <2>1. next \in ReduceAwaitingReconciliation(rec, event)
    BY <1>1, <1>7 DEF Reduce, Terminal
  <2>2. CASE event.kind = "ObserveReconciliation"
    <3>1. event.owner \in Owners /\ event.observation \in Observations
      BY <2>2 DEF CommandEvents
    <3>2. /\ next \in ApplyReconciliation(rec, event.owner, event.observation)
          /\ RecoveryOwnerAuthorizes(rec.state.recovery_owner, event.owner)
      BY <2>1, <2>2 DEF ReduceAwaitingReconciliation, When
    <3>3. event.observation.kind = "Committed" => event.observation.result = rec.command.kind
      BY <1>1, <2>2 DEF ResultKindMatches
    <3> QED
      BY <1>7, <3>1, <3>2, <3>3, ApplyReconciliationSound
  <2>3. CASE event.kind # "ObserveReconciliation"
    BY <2>1, <2>3 DEF ReduceAwaitingReconciliation, When, Idempotent
  <2> QED
    BY <2>2, <2>3
<1>8. CASE rec.state.kind = "RetryReady"
  <2>1. next \in ReduceRetryReady(rec, event)
    BY <1>1, <1>8 DEF Reduce, Terminal
  <2> QED
    BY <1>8, <2>1, ReduceRetryReadySound
<1> QED
  BY <1>2, <1>3, <1>4, <1>5, <1>6, <1>7, <1>8 DEF Terminal
============================================================================
