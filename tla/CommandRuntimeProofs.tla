------------------------ MODULE CommandRuntimeProofs ------------------------
(***************************************************************************)
(* The safety of the command runtime, for every set of operations, writers *)
(* and transactions, every queue capacity and every number of failures and *)
(* restarts. The inductive invariant relates three things that change in   *)
(* different steps: what a journal row says, what the target holds, and    *)
(* what the actor is about to do with the row it holds. Every step keeps   *)
(* it, and the theorems follow. The refinements: every step of the actor,  *)
(* of recovery and of the lifecycle is a step of CommandJournal and of     *)
(* CommandLedger, or leaves their state alone.                             *)
(***************************************************************************)
EXTENDS CommandRuntime, FabricCommandProofs, FiniteSetTheorems

-----------------------------------------------------------------------------
(* The inductive invariant.                                                *)

\* A row and the target agree; between the preparation of a commit and the
\* record of its outcome, the target may or may not hold the row's transaction,
\* and holds nothing else of the operation.
RowAgrees(rec) ==
    /\ rec.state.kind = "Succeeded" => MarkerPresent(rec)
    /\ rec.state.kind \in {"Admitted", "Executing", "RetryReady", "Failed", "Cancelled"}
         => ~Landed(rec.command.op)
    /\ rec.state.kind \in {"CommitPrepared", "AwaitingReconciliation"} =>
         (Landed(rec.command.op) => MarkerPresent(rec))

DurableInv ==
    /\ \A rec \in records : ValidPersisted(rec) /\ RowAgrees(rec)
    /\ \A r1, r2 \in records : r1.command.op = r2.command.op => r1 = r2
    /\ \A r1, r2 \in records : r1.command.key = r2.command.key => r1 = r2
    /\ \A i \in DOMAIN target : \E rec \in records : rec.command.op = target[i].op
    /\ ExactlyOnce
    /\ \A r1, r2 \in Nonterminal : r1 = r2
    /\ UnsettledHeadIsCurrent

\* An event the actor is about to present is true of the target.
EventFits(row, event) ==
    /\ event.kind = "PrepareCommit" => row.state.kind = "Executing"
    /\ event.kind = "ConfirmCommit" =>
         row.state.kind = "CommitPrepared" /\ MarkerPresent(row)
    /\ event.kind = "ReportKnownFailure" =>
         row.state.kind \in {"Executing", "CommitPrepared"} /\ ~Landed(row.command.op)
    /\ event.kind = "ReportUnknownCommit" => row.state.kind = "CommitPrepared"
    /\ event.kind = "ObserveReconciliation" =>
         /\ row.state.kind = "AwaitingReconciliation"
         /\ event.observation.kind = "Committed" => MarkerPresent(row)
         /\ event.observation.kind = "NotCommitted" => ~MarkerPresent(row)

\* A row whose prepared commit the current writer may execute, once.
Committable(row) ==
    /\ row \in records
    /\ row.state.kind = "CommitPrepared"
    /\ row.state.owner = Owner
    /\ ~Landed(row.command.op)

JobInv ==
    job.stage # "idle" =>
        /\ runtime = "up"
        /\ job.row \in records
        /\ job.event.owner = Owner
        /\ job.stage = "prepare" => job.row.state.kind = "Executing"
        /\ job.stage = "commit" => Committable(job.row)
        /\ job.stage = "transition" => EventFits(job.row, job.event)

\* While the gate is open, an unsettled row is the one a submit is working on.
GateInv ==
    gate => /\ runtime = "up"
            /\ \A rec \in Nonterminal :
                 job.stage # "idle" /\ job.message.kind = "Submit" /\ job.row = rec

StrayInv ==
    /\ stray # {} => runtime = "dropped"
    /\ \A row \in stray : Committable(row)

RuntimeInv == TypeOK /\ DurableInv /\ JobInv /\ GateInv /\ StrayInv

-----------------------------------------------------------------------------
(* Facts about the constants and the reducer.                              *)

\* Every generation has an owner, and it carries that generation.
LEMMA OwnerFacts ==
    ASSUME NEW g \in Generations
    PROVE  /\ OwnerOf(g) \in Owners
           /\ OwnerOf(g).fence \in Fences
           /\ OwnerOf(g).fence.generation = g
<1>1. PICK l \in Leases, a \in Actors : TRUE
  BY RuntimeAssumption
<1>2. [actor |-> a, fence |-> [lease |-> l, generation |-> g]] \in Owners
  BY <1>1 DEF Owners, Fences
<1>3. \E owner \in Owners : owner.fence.generation = g
  BY <1>2
<1>4. OwnerOf(g) \in Owners /\ OwnerOf(g).fence.generation = g
  BY <1>3 DEF OwnerOf
<1> QED
  BY <1>4 DEF Owners

\* What the reducer's answer looks like, by the event presented: the same
\* command, a terminal row unchanged, and for the events that fit their row the
\* state and the transaction the actor expects.
LEMMA ReduceShape ==
    ASSUME NEW rec \in CommandRecords, NEW event \in CommandEvents, NEW context,
           ValidPersisted(rec), NEW next \in Reduce(rec, event, context)
    PROVE  /\ next \in CommandRecords /\ ValidPersisted(next)
           /\ next.command = rec.command
           /\ Terminal(rec) => next = rec
           /\ event.kind = "Start" =>
                /\ rec.state.kind \in {"Admitted", "Executing", "RetryReady"}
                /\ next.state.kind = "Executing"
           /\ event.kind = "PrepareCommit" /\ rec.state.kind = "Executing" =>
                next.state.kind = "CommitPrepared" /\ next.state.owner = event.owner
           /\ event.kind = "ConfirmCommit" /\ rec.state.kind = "CommitPrepared" =>
                /\ next.state.kind = "Succeeded"
                /\ next.state.transaction = rec.state.transaction
           /\ event.kind = "ReportKnownFailure"
                /\ rec.state.kind \in {"Executing", "CommitPrepared"} =>
                next.state.kind \in {"Failed", "RetryReady"}
           /\ event.kind = "ReportUnknownCommit" /\ rec.state.kind = "CommitPrepared" =>
                /\ next.state.kind = "AwaitingReconciliation"
                /\ next.state.transaction = rec.state.transaction
           /\ event.kind = "ObserveReconciliation"
                /\ rec.state.kind = "AwaitingReconciliation" =>
                \/ /\ event.observation.kind = "Committed"
                   /\ next.state.kind = "Succeeded"
                   /\ next.state.transaction = rec.state.transaction
                \/ /\ event.observation.kind = "NotCommitted"
                   /\ next.state.kind = "RetryReady"
                \/ /\ next.state.kind = "AwaitingReconciliation"
                   /\ next.state.transaction = rec.state.transaction
           /\ event.kind = "CancelBeforeCommit" =>
                \/ next = rec
                \/ /\ rec.state.kind \in {"Admitted", "Executing"}
                   /\ next.state.kind = "Cancelled"
<1>1. /\ next \in CommandRecords /\ ValidPersisted(next)
      /\ next.command = rec.command
  BY ReduceSound DEF SoundSuccessor, RowAdvances
<1>2. Terminal(rec) => next \in TerminalReplay(rec, event)
  BY DEF Reduce
<1>3. Terminal(rec) => next = rec
  BY <1>2 DEF TerminalReplay, When, Idempotent
<1>4. rec.state.kind \in {"Admitted", "Executing", "CommitPrepared",
        "AwaitingReconciliation", "RetryReady", "Succeeded", "Failed", "Cancelled"}
  BY StateShapes DEF CommandRecords
<1>5. event.kind = "Start" =>
                /\ rec.state.kind \in {"Admitted", "Executing", "RetryReady"}
                /\ next.state.kind = "Executing"
  BY <1>2, <1>4 DEF Reduce, Terminal, TerminalReplay, ReduceAdmitted, ReduceExecuting,
     ReducePrepared, ReduceAwaitingReconciliation, ReduceRetryReady, When, Changed, Idempotent
<1>6. event.kind = "PrepareCommit" /\ rec.state.kind = "Executing" =>
                next.state.kind = "CommitPrepared" /\ next.state.owner = event.owner
  BY DEF Reduce, Terminal, ReduceExecuting, When, Changed
<1>7. event.kind = "ConfirmCommit" /\ rec.state.kind = "CommitPrepared" =>
                /\ next.state.kind = "Succeeded"
                /\ next.state.transaction = rec.state.transaction
  BY DEF Reduce, Terminal, ReducePrepared, When, Changed
<1>8. event.kind = "ReportKnownFailure"
                /\ rec.state.kind \in {"Executing", "CommitPrepared"} =>
                next.state.kind \in {"Failed", "RetryReady"}
  BY DEF Reduce, Terminal, ReduceExecuting, ReducePrepared, KnownFailureOutcome,
     RetryReady, When, Changed
<1>9. event.kind = "ReportUnknownCommit" /\ rec.state.kind = "CommitPrepared" =>
                /\ next.state.kind = "AwaitingReconciliation"
                /\ next.state.transaction = rec.state.transaction
  BY DEF Reduce, Terminal, ReducePrepared, When, Changed
<1>10. event.kind = "ObserveReconciliation"
                /\ rec.state.kind = "AwaitingReconciliation" =>
                \/ /\ event.observation.kind = "Committed"
                   /\ next.state.kind = "Succeeded"
                   /\ next.state.transaction = rec.state.transaction
                \/ /\ event.observation.kind = "NotCommitted"
                   /\ next.state.kind = "RetryReady"
                \/ /\ next.state.kind = "AwaitingReconciliation"
                   /\ next.state.transaction = rec.state.transaction
  BY DEF Reduce, Terminal, ReduceAwaitingReconciliation, ApplyReconciliation,
     RetryReady, When, Changed
<1>11. event.kind = "CancelBeforeCommit" =>
                \/ next = rec
                \/ /\ rec.state.kind \in {"Admitted", "Executing"}
                   /\ next.state.kind = "Cancelled"
  BY <1>3, <1>4 DEF Reduce, Terminal, ReduceAdmitted, ReduceExecuting,
     ReducePrepared, ReduceAwaitingReconciliation, ReduceRetryReady, When, Changed
<1> QED
  BY Zenon, <1>1, <1>3, <1>5, <1>6, <1>7, <1>8, <1>9, <1>10, <1>11

-----------------------------------------------------------------------------
(* What a journal write does.                                              *)

\* A stored transition keeps the row's agreement with the target, and leaves at
\* most the new row unsettled.
LEMMA SwapStep ==
    ASSUME TypeOK, DurableInv, NEW row \in records, NEW event \in CommandEvents,
           EventFits(row, event), NEW next \in Reduce(row, event, Context),
           records' = (records \ {row}) \cup {next},
           UNCHANGED <<generation, head, target>>
    PROVE  /\ DurableInv'
           /\ records' \subseteq CommandRecords
           /\ Owner' = Owner
           /\ Nonterminal' = (Nonterminal \ {row}) \cup (IF Terminal(next) THEN {} ELSE {next})
           /\ \A op : Landed(op)' <=> Landed(op)
<1>0. PICK context : next \in Reduce(row, event, context)
  OBVIOUS
<1>1. /\ row \in CommandRecords /\ ValidPersisted(row) /\ RowAgrees(row)
  BY DEF TypeOK, DurableInv
<1>2. /\ next \in CommandRecords /\ ValidPersisted(next) /\ next.command = row.command
      /\ Terminal(row) => next = row
  BY <1>0, <1>1, ReduceShape
<1>3. /\ \A op : Landed(op)' <=> Landed(op)
      /\ \A rec : MarkerPresent(rec)' <=> MarkerPresent(rec)
      /\ Owner' = Owner
  BY DEF Landed, MarkerPresent, Owner
<1>4. /\ \A rec : RowAgrees(rec)' <=> RowAgrees(rec)
      /\ next.state.transaction = row.state.transaction => (MarkerPresent(next) <=> MarkerPresent(row))
  BY <1>2, <1>3 DEF RowAgrees, MarkerPresent
<1>5. MarkerPresent(row) => Landed(row.command.op)
  BY DEF MarkerPresent, Landed
<1>6. RowAgrees(next)
  <2>1. CASE event.kind = "Start"
    BY <1>0, <1>1, <1>2, <2>1, ReduceShape DEF RowAgrees
  <2>2. CASE event.kind = "PrepareCommit"
    BY ZenonT(40), <1>0, <1>1, <1>2, <2>2, ReduceShape DEF RowAgrees, EventFits
  <2>3. CASE event.kind = "ConfirmCommit"
    BY <1>0, <1>1, <1>2, <1>4, <2>3, ReduceShape DEF RowAgrees, EventFits
  <2>4. CASE event.kind = "ReportKnownFailure"
    BY <1>0, <1>1, <1>2, <2>4, ReduceShape DEF RowAgrees, EventFits
  <2>5. CASE event.kind = "ReportUnknownCommit"
    BY <1>0, <1>1, <1>2, <1>4, <2>5, ReduceShape DEF RowAgrees, EventFits
  <2>6. CASE event.kind = "ObserveReconciliation"
    BY <1>0, <1>1, <1>2, <1>4, <1>5, <2>6, ReduceShape DEF RowAgrees, EventFits
  <2>7. CASE event.kind = "CancelBeforeCommit"
    BY <1>0, <1>1, <1>2, <2>7, ReduceShape DEF RowAgrees
  <2> QED
    BY Zenon, <2>1, <2>2, <2>3, <2>4, <2>5, <2>6, <2>7 DEF CommandEvents
<1>7. records' \subseteq CommandRecords
  BY <1>2 DEF TypeOK
<1>8. Nonterminal' = (Nonterminal \ {row}) \cup (IF Terminal(next) THEN {} ELSE {next})
  BY DEF Nonterminal
<1>9. \A r1, r2 \in Nonterminal' : r1 = r2
  <2>1. CASE Terminal(row)
    BY <1>2, <1>8, <2>1 DEF DurableInv, Nonterminal
  <2>2. CASE ~Terminal(row)
    BY <1>8, <2>2 DEF DurableInv, Nonterminal
  <2> QED
    BY <2>1, <2>2
<1>10. UnsettledHeadIsCurrent'
  <2>1. ASSUME NEW rec \in Nonterminal'
        PROVE  Landed(rec.command.op) \/ rec.command.expected_head = head
    <3>1. CASE rec \in Nonterminal
      BY <3>1 DEF DurableInv, UnsettledHeadIsCurrent
    <3>2. CASE rec = next /\ rec \notin Nonterminal
      BY Zenon, <1>2, <1>8, <2>1, <3>2 DEF DurableInv, UnsettledHeadIsCurrent, Nonterminal
    <3> QED
      BY Zenon, <1>8, <2>1, <3>1, <3>2
  <2> QED
    BY <1>3, <2>1 DEF UnsettledHeadIsCurrent
<1>11. /\ \A r1, r2 \in records' : r1.command.op = r2.command.op => r1 = r2
       /\ \A r1, r2 \in records' : r1.command.key = r2.command.key => r1 = r2
  BY <1>2 DEF DurableInv
<1>12. \A i \in DOMAIN target' : \E rec \in records' : rec.command.op = target'[i].op
  BY <1>2 DEF DurableInv
<1>13. ExactlyOnce'
  BY DEF ExactlyOnce, DurableInv
<1>14. \A rec \in records' : ValidPersisted(rec) /\ RowAgrees(rec)'
  BY Zenon, <1>2, <1>4, <1>6 DEF DurableInv
<1>15. DurableInv'
  BY Zenon, <1>9, <1>10, <1>11, <1>12, <1>13, <1>14 DEF DurableInv
<1> QED
  BY Zenon, <1>3, <1>7, <1>8, <1>15

-----------------------------------------------------------------------------
(* What the events and the messages carry.                                 *)

\* Every event the actor builds for the current writer is a command event.
LEMMA EventTypes ==
    ASSUME TypeOK, NEW row \in CommandRecords
    PROVE  /\ Owner \in Owners
           /\ StartEvent(Owner) \in CommandEvents
           /\ PrepareOutcomes \subseteq CommandEvents
           /\ RetryableFailures \subseteq CommandEvents
           /\ \A failure \in Failures :
                [kind |-> "ReportKnownFailure", owner |-> Owner, failure |-> failure]
                  \in CommandEvents
           /\ \A ref \in Refs :
                [kind |-> "CancelBeforeCommit", owner |-> Owner, cancellation |-> ref]
                  \in CommandEvents
           /\ row.state.kind = "CommitPrepared" =>
                Confirmation(row) \in CommandEvents /\ UnknownReports(row) \subseteq CommandEvents
<1>1. Owner \in Owners
  BY OwnerFacts DEF TypeOK, Owner
<1>2. row.state.kind = "CommitPrepared" => row.state.transaction \in Transactions
  BY StateShapes DEF CommandRecords, PreparedStates
<1>3. row.command.kind \in Kinds
  BY DEF CommandRecords, FabricCommands
<1> QED
  BY Zenon, <1>1, <1>2, <1>3 DEF StartEvent, CommandEvents, PrepareOutcomes, RetryableFailures,
     Confirmation, UnknownReports

\* The first event of a journalled request is a command event of the current
\* writer, and is true of the target.
LEMMA RequestEvents ==
    ASSUME TypeOK, NEW row \in CommandRecords, NEW kind, NEW event \in FirstEvents(kind, row)
    PROVE  /\ event \in CommandEvents
           /\ event.owner = Owner
           /\ EventFits(row, event)
           /\ Terminal(row) => event.kind = "CancelBeforeCommit"
<1>1. Owner \in Owners
  BY OwnerFacts DEF TypeOK, Owner
<1>2. /\ row.state.kind = "CommitPrepared" => row.state.transaction \in Transactions
      /\ row.state.kind = "AwaitingReconciliation" => row.state.transaction \in Transactions
      /\ row.command.kind \in Kinds
  BY Zenon, StateShapes DEF CommandRecords, PreparedStates, AwaitingStates, FabricCommands
<1>3. CASE event \in CancelEvents(row)
  BY <1>1, <1>3 DEF CancelEvents, StartEvent, CommandEvents, EventFits, Terminal
<1>4. CASE event \in RetryEvents(row) \cup ResumePrecommitEvents(row)
  BY <1>1, <1>4 DEF RetryEvents, ResumePrecommitEvents, When, StartEvent, CommandEvents,
     EventFits, Terminal
<1>5. CASE event \in MarkInterruptedCommitEvents(row)
  BY Zenon, <1>1, <1>2, <1>5 DEF MarkInterruptedCommitEvents, When, CommandEvents, EventFits, Terminal
<1>6. CASE event \in ReconcileEvents(row, ReconciledObservations(row))
  <2>1. ReconciledObservations(row) \subseteq Observations
    BY <1>2 DEF ReconciledObservations, Observations
  <2>2. /\ row.state.kind = "AwaitingReconciliation"
        /\ event \in [kind: {"ObserveReconciliation"}, owner: {Owner},
             transaction: {row.state.transaction}, observation: ReconciledObservations(row)]
    BY Zenon, <1>6 DEF ReconcileEvents, When
  <2>3. event \in CommandEvents /\ event.kind = "ObserveReconciliation" /\ event.owner = Owner
    BY Zenon, <1>1, <1>2, <2>1, <2>2 DEF CommandEvents
  <2>4. /\ event.observation.kind = "Committed" => MarkerPresent(row)
        /\ event.observation.kind = "NotCommitted" => ~MarkerPresent(row)
    BY <2>2 DEF ReconciledObservations
  <2> QED
    BY Zenon, <2>2, <2>3, <2>4 DEF EventFits, Terminal
<1> QED
  BY Zenon, <1>3, <1>4, <1>5, <1>6 DEF FirstEvents, When

\* Replies keep the types of the volatile state.
LEMMA ReplyTypes ==
    ASSUME TypeOK, NEW message \in Messages, NEW row,
           ReplyErr(message) \/ ReplyOk(message, row)
    PROVE  /\ job' = IdleJob /\ job' \in Jobs
           /\ gate' \in BOOLEAN /\ (gate' => gate)
           /\ driver' \in Drivers
<1>1. message.waiter \in BOOLEAN
  BY DEF Messages
<1>2. IdleDriver \in Drivers
  BY RuntimeAssumption DEF IdleDriver, Drivers
<1>3. gate' \in BOOLEAN /\ (gate' => gate)
  BY Zenon DEF ReplyErr, ReplyOk, TypeOK
<1> QED
  BY <1>1, <1>2, <1>3 DEF ReplyErr, ReplyOk, TypeOK, Jobs, Drivers

\* Taking a message off the mailbox.
LEMMA ReceiveTypes ==
    ASSUME TypeOK, queue # <<>>, queue' = Tail(queue)
    PROVE  /\ Head(queue) \in Messages
           /\ queue' \in Seq(Messages) /\ Len(queue') <= QueueCapacity
<1>1. queue \in Seq(Messages) /\ Len(queue) <= QueueCapacity /\ QueueCapacity \in Nat
  BY RuntimeAssumption DEF TypeOK
<1>2. Head(queue) \in Messages /\ Tail(queue) \in Seq(Messages) /\ Len(Tail(queue)) = Len(queue) - 1
  BY <1>1
<1> QED
  BY <1>1, <1>2

\* A sent message fits the mailbox.
LEMMA SendTypes ==
    ASSUME TypeOK, NEW message \in Messages, Send(message)
    PROVE  queue' \in Seq(Messages) /\ Len(queue') <= QueueCapacity
<1>1. queue \in Seq(Messages) /\ Len(queue) < QueueCapacity /\ QueueCapacity \in Nat
  BY RuntimeAssumption DEF TypeOK, Send
<1> QED
  BY <1>1 DEF Send

\* The kinds of a message that a send puts in the mailbox.
LEMMA MessageTypes ==
    /\ \A command \in FabricCommands : SubmitMessage(command) \in Messages
    /\ \A kind \in {"Cancel", "Reconcile", "Retry", "ResumePrecommit",
                    "MarkInterruptedCommit"}, op \in Ops, waiter \in BOOLEAN :
         Message(kind, op, waiter) \in Messages
    /\ OpenAdmissionMessage \in Messages
    /\ ShutdownMessage \in Messages
  BY DEF SubmitMessage, Message, OpenAdmissionMessage, ShutdownMessage, Messages

-----------------------------------------------------------------------------
(* Steps that leave the durable state alone.                               *)

\* What is said of rows and the target depends on the durable state only.
LEMMA Frame ==
    ASSUME DurableInv, UNCHANGED durable
    PROVE  /\ DurableInv'
           /\ Nonterminal' = Nonterminal
           /\ Owner' = Owner
           /\ \A row : Committable(row)' <=> Committable(row)
           /\ \A row, event : EventFits(row, event)' <=> EventFits(row, event)
<1>1. records' = records /\ target' = target /\ head' = head /\ generation' = generation
  BY DEF durable
<1>2. /\ \A op : Landed(op)' <=> Landed(op)
      /\ \A row : MarkerPresent(row)' <=> MarkerPresent(row)
      /\ Nonterminal' = Nonterminal
      /\ Owner' = Owner
  BY <1>1 DEF Landed, MarkerPresent, Nonterminal, Owner
<1>3. \A row : RowAgrees(row)' <=> RowAgrees(row)
  BY <1>2 DEF RowAgrees
<1>4. ExactlyOnce' <=> ExactlyOnce
  BY <1>1 DEF ExactlyOnce
<1>5. UnsettledHeadIsCurrent' <=> UnsettledHeadIsCurrent
  BY Zenon, <1>1, <1>2 DEF UnsettledHeadIsCurrent
<1>6. DurableInv'
  BY Zenon, <1>1, <1>2, <1>3, <1>4, <1>5 DEF DurableInv
<1>7. \A row : Committable(row)' <=> Committable(row)
  BY Zenon, <1>1, <1>2 DEF Committable
<1>8. \A row, event : EventFits(row, event)' <=> EventFits(row, event)
  BY <1>2 DEF EventFits
<1> QED
  BY Zenon, <1>2, <1>6, <1>7, <1>8

\* With the gate open and no submit in progress, nothing is unsettled.
LEMMA OpenMeansSettled ==
    ASSUME GateInv, gate, job.stage = "idle" \/ job.message.kind # "Submit"
    PROVE  Nonterminal = {}
  BY DEF GateInv

\* An answer given without touching the durable state.
LEMMA AnswerStep ==
    ASSUME RuntimeInv, UNCHANGED <<durable, runtime, stray>>,
           job' = IdleJob, gate' => gate /\ Nonterminal = {}
    PROVE  DurableInv' /\ JobInv' /\ GateInv' /\ StrayInv'
<1> USE DEF RuntimeInv
<1>1. /\ DurableInv' /\ Nonterminal' = Nonterminal
      /\ \A row : Committable(row)' <=> Committable(row)
  BY Frame
<1>2. JobInv'
  BY DEF JobInv, IdleJob
<1>3. GateInv'
  BY <1>1 DEF GateInv
<1>4. StrayInv'
  BY <1>1 DEF StrayInv
<1> QED
  BY Zenon, <1>1, <1>2, <1>3, <1>4

\* The actor takes up an event on a durable row without touching the durable
\* state; the message is the one it just received or was working on.
LEMMA TakeUpStep ==
    ASSUME RuntimeInv, UNCHANGED <<durable, runtime, stray, gate>>, runtime = "up",
           NEW message, NEW row \in records, NEW event,
           job' = Job("transition", message, row, event),
           event.owner = Owner, EventFits(row, event),
           gate => Nonterminal = {} \/ (job.stage # "idle" /\ message = job.message /\ row = job.row)
    PROVE  DurableInv' /\ JobInv' /\ GateInv' /\ StrayInv'
<1> USE DEF RuntimeInv
<1>1. /\ DurableInv' /\ Nonterminal' = Nonterminal /\ Owner' = Owner
      /\ \A r : Committable(r)' <=> Committable(r)
      /\ \A r, e : EventFits(r, e)' <=> EventFits(r, e)
  BY Frame
<1>2. /\ job'.stage = "transition" /\ job'.message = message
      /\ job'.row = row /\ job'.event = event
  BY DEF Job
<1>3. records' = records /\ runtime' = runtime /\ gate' = gate /\ stray' = stray
  BY Zenon DEF durable
<1>4. JobInv'
  BY Zenon, <1>1, <1>2, <1>3 DEF JobInv
<1>5. GateInv'
  BY <1>1, <1>2, <1>3 DEF GateInv
<1>6. StrayInv'
  BY Zenon, <1>1, <1>3 DEF StrayInv
<1> QED
  BY Zenon, <1>1, <1>4, <1>5, <1>6

\* A step that touches neither durable state, nor the job's row and event, and
\* does not open the gate.
LEMMA QuietStep ==
    ASSUME RuntimeInv, UNCHANGED <<durable, runtime, stray>>, gate' => gate,
           \/ job' = job
           \/ /\ job'.stage = job.stage /\ job'.row = job.row /\ job'.event = job.event
              /\ job'.message.kind = job.message.kind
    PROVE  DurableInv' /\ JobInv' /\ GateInv' /\ StrayInv'
<1> USE DEF RuntimeInv
<1>1. /\ DurableInv' /\ Nonterminal' = Nonterminal /\ Owner' = Owner
      /\ \A r : Committable(r)' <=> Committable(r)
      /\ \A r, e : EventFits(r, e)' <=> EventFits(r, e)
  BY Frame
<1>2. records' = records /\ runtime' = runtime /\ stray' = stray
  BY DEF durable
<1>3. /\ job'.stage = job.stage /\ job'.row = job.row /\ job'.event = job.event
      /\ job'.message.kind = job.message.kind
  OBVIOUS
<1>4. JobInv'
  BY Zenon, <1>1, <1>2, <1>3 DEF JobInv
<1>5. GateInv'
  BY Zenon, <1>1, <1>2, <1>3 DEF GateInv
<1>6. StrayInv'
  BY Zenon, <1>1, <1>2 DEF StrayInv
<1> QED
  BY Zenon, <1>1, <1>4, <1>5, <1>6

\* The stages of a job, and what a working actor holds.
LEMMA JobTypes ==
    ASSUME TypeOK
    PROVE  /\ job.stage \in {"idle", "transition", "prepare", "commit"}
           /\ job.stage = "idle" => job = IdleJob
           /\ job.stage # "idle" =>
                /\ job.message \in Messages
                /\ job.row \in CommandRecords
                /\ job.event \in CommandEvents
  BY DEF TypeOK, Jobs, IdleJob

\* Clients only add to the mailbox.
LEMMA ClientStep ==
    ASSUME RuntimeInv, Submit \/ Request \/ Shutdown
    PROVE  RuntimeInv'
<1> USE DEF RuntimeInv
<1>1. PICK message \in Messages : ClientSends(message)
  <2>1. CASE Submit
    <3>1. Owner.fence \in Fences
      BY Zenon, OwnerFacts DEF TypeOK, Owner
    <3>2. ASSUME NEW intent \in Intents
          PROVE  [op |-> intent.op, key |-> intent.key, kind |-> intent.kind,
                  expected_head |-> head, writer_fence |-> Owner.fence] \in FabricCommands
      BY Zenon, <3>1, RuntimeAssumption DEF FabricCommands, TypeOK
    <3>3. ASSUME NEW rec \in records PROVE rec.command \in FabricCommands
      BY DEF TypeOK, CommandRecords
    <3> QED
      BY Zenon, <2>1, <3>2, <3>3, MessageTypes DEF Submit
  <2>2. CASE Request
    BY Zenon, <2>2, MessageTypes DEF Request
  <2>3. CASE Shutdown
    BY Zenon, <2>3, MessageTypes DEF Shutdown
  <2> QED
    BY Zenon, <2>1, <2>2, <2>3
<1>2. queue' \in Seq(Messages) /\ Len(queue') <= QueueCapacity
  BY Zenon, <1>1, SendTypes DEF ClientSends
<1>3. UNCHANGED <<durable, runtime, gate, job, driver, stray, faults>> /\ sent' \in 0..MaxSent
  BY <1>1, RuntimeAssumption DEF ClientSends, TypeOK
<1>4. DurableInv' /\ JobInv' /\ GateInv' /\ StrayInv'
  BY Zenon, <1>3, QuietStep
<1> QED
  BY Zenon, <1>2, <1>3, <1>4 DEF TypeOK, durable

\* A failure is counted within its bound.
LEMMA FaultTypes ==
    ASSUME TypeOK, Fault \/ UNCHANGED faults
    PROVE  faults' \in 0..MaxFaults
  BY RuntimeAssumption DEF TypeOK, Fault

\* A journalled request takes up its first event or answers at once.
LEMMA RequestStep ==
    ASSUME RuntimeInv, NEW kind \in {"Cancel", "Reconcile", "Retry", "ResumePrecommit",
                                     "MarkInterruptedCommit"},
           ReceiveRequest(kind)
    PROVE  RuntimeInv'
<1> USE DEF RuntimeInv
<1> DEFINE message == Head(queue)
           rows == {rec \in records : rec.command.op = message.op}
<1>1. /\ message \in Messages /\ message.kind = kind
      /\ queue' \in Seq(Messages) /\ Len(queue') <= QueueCapacity
      /\ UNCHANGED <<generation, head, target, runtime, stray, sent>>
      /\ UNCHANGED records /\ runtime = "up" /\ job = IdleJob
  BY Zenon, ReceiveTypes DEF ReceiveRequest, Receive
<1>2. UNCHANGED <<durable, runtime, stray>> /\ job.stage = "idle"
  BY Zenon, <1>1 DEF durable, IdleJob
<1>3. gate => Nonterminal = {}
  BY <1>2, OpenMeansSettled
<1>4. CASE \E row \in rows : \E event \in FirstEvents(kind, row) :
             /\ job' = Job("transition", message, row, event)
             /\ UNCHANGED <<gate, driver, faults>>
  <2>1. PICK row \in rows : \E event \in FirstEvents(kind, row) :
             /\ job' = Job("transition", message, row, event)
             /\ UNCHANGED <<gate, driver, faults>>
    BY Zenon, <1>4
  <2>2. PICK event \in FirstEvents(kind, row) :
             /\ job' = Job("transition", message, row, event)
             /\ UNCHANGED <<gate, driver, faults>>
    BY Zenon, <2>1
  <2>3. row \in records /\ row \in CommandRecords
    BY DEF TypeOK
  <2>4. event \in CommandEvents /\ event.owner = Owner /\ EventFits(row, event)
    BY <2>3, RequestEvents
  <2>5. job' \in Jobs
    BY Zenon, <1>1, <2>2, <2>3, <2>4 DEF Job, Jobs
  <2>6. DurableInv' /\ JobInv' /\ GateInv' /\ StrayInv'
    BY ZenonT(40), <1>1, <1>2, <1>3, <2>2, <2>3, <2>4, TakeUpStep
  <2> QED
    BY Zenon, <1>1, <2>2, <2>5, <2>6 DEF TypeOK
<1>5. CASE ReplyErr(message) /\ (Fault \/ UNCHANGED faults)
  <2>1. faults' \in 0..MaxFaults
    BY Zenon, <1>5, FaultTypes
  <2>2. DurableInv' /\ JobInv' /\ GateInv' /\ StrayInv'
    BY Zenon, <1>2, <1>3, <1>5, AnswerStep DEF ReplyErr
  <2> QED
    BY Zenon, <1>1, <1>5, <2>1, <2>2, ReplyTypes DEF TypeOK
<1> QED
  BY Zenon, <1>4, <1>5 DEF ReceiveRequest

\* An undecided probe is taken up like any other event.
LEMMA IndeterminateStep ==
    ASSUME RuntimeInv, ReceiveIndeterminate
    PROVE  RuntimeInv'
<1> USE DEF RuntimeInv
<1>1. /\ Head(queue) \in Messages
      /\ queue' \in Seq(Messages) /\ Len(queue') <= QueueCapacity
      /\ UNCHANGED <<generation, head, target, runtime, stray, sent>>
      /\ UNCHANGED <<records, gate, driver>> /\ runtime = "up" /\ job = IdleJob
      /\ faults' \in 0..MaxFaults
  BY Zenon, ReceiveTypes, FaultTypes DEF ReceiveIndeterminate, Receive
<1>2. UNCHANGED <<durable, runtime, stray, gate>> /\ job.stage = "idle"
  BY <1>1 DEF durable, IdleJob
<1>3. gate => Nonterminal = {}
  BY Zenon, <1>2, OpenMeansSettled
<1>4. PICK row \in records :
        \E event \in ReconcileEvents(row, [kind: {"Indeterminate"}, evidence: Refs]) :
          job' = Job("transition", Head(queue), row, event)
  BY DEF ReceiveIndeterminate
<1>5. PICK event \in ReconcileEvents(row, [kind: {"Indeterminate"}, evidence: Refs]) :
          job' = Job("transition", Head(queue), row, event)
  BY Zenon, <1>4
<1>6. row \in CommandRecords /\ Owner \in Owners
  BY Zenon, OwnerFacts DEF TypeOK, Owner
<1>7. /\ row.state.kind = "AwaitingReconciliation"
      /\ event \in [kind: {"ObserveReconciliation"}, owner: {Owner},
           transaction: {row.state.transaction},
           observation: [kind: {"Indeterminate"}, evidence: Refs]]
  BY <1>5 DEF ReconcileEvents, When
<1>8. row.state.transaction \in Transactions
  BY Zenon, <1>6, <1>7, StateShapes DEF CommandRecords, AwaitingStates
<1>9. event \in CommandEvents /\ event.owner = Owner /\ EventFits(row, event)
  BY ZenonT(40), <1>6, <1>7, <1>8 DEF CommandEvents, Observations, EventFits
<1>10. job' \in Jobs
  BY Zenon, <1>1, <1>5, <1>6, <1>9 DEF Job, Jobs
<1>11. DurableInv' /\ JobInv' /\ GateInv' /\ StrayInv'
  BY Zenon, <1>1, <1>2, <1>3, <1>5, <1>9, TakeUpStep
<1> QED
  BY Zenon, <1>1, <1>10, <1>11 DEF TypeOK

\* The gate opens only on an idle actor and a settled journal.
LEMMA OpenAdmissionStep ==
    ASSUME RuntimeInv, ReceiveOpenAdmission
    PROVE  RuntimeInv'
<1> USE DEF RuntimeInv
<1>1. /\ Head(queue) \in Messages
      /\ queue' \in Seq(Messages) /\ Len(queue') <= QueueCapacity
      /\ UNCHANGED <<generation, head, target, runtime, stray, sent>>
      /\ UNCHANGED <<records, job>> /\ runtime = "up" /\ job = IdleJob
      /\ faults' \in 0..MaxFaults
      /\ gate' \in BOOLEAN /\ (gate' => Nonterminal = {})
  BY Zenon, ReceiveTypes, FaultTypes DEF ReceiveOpenAdmission, Receive
<1>2. driver' \in Drivers
  <2>1. Head(queue).waiter \in BOOLEAN
    BY Zenon, <1>1 DEF Messages
  <2>2. driver.sweep # MaxSweeps => driver.sweep + 1 \in 0..MaxSweeps
    BY RuntimeAssumption DEF TypeOK, Drivers
  <2>3. IdleDriver \in Drivers /\ driver \in Drivers
    BY RuntimeAssumption DEF IdleDriver, TypeOK, Drivers
  <2>4. \/ driver' = driver \/ driver' = IdleDriver
        \/ /\ driver.sweep # MaxSweeps
           /\ driver' = [driver EXCEPT !.phase = "load", !.sweep = @ + 1]
    BY <2>1 DEF ReceiveOpenAdmission
  <2> QED
    BY Zenon, <2>2, <2>3, <2>4 DEF Drivers
<1>3. UNCHANGED <<durable, runtime, stray>>
  BY <1>1 DEF durable
<1>4. /\ DurableInv' /\ Nonterminal' = Nonterminal
      /\ \A row : Committable(row)' <=> Committable(row)
  BY Zenon, <1>3, Frame
<1>5. JobInv' /\ GateInv' /\ StrayInv'
  BY Zenon, <1>1, <1>4 DEF JobInv, GateInv, StrayInv, IdleJob
<1> QED
  BY Zenon, <1>1, <1>2, <1>4, <1>5 DEF TypeOK

\* A step of the actor that fails answers its message and writes nothing.
LEMMA FailedStep ==
    ASSUME RuntimeInv, TransitionFails \/ EffectRefused
    PROVE  RuntimeInv'
<1> USE DEF RuntimeInv
<1>1. /\ ReplyErr(job.message) /\ job.stage # "idle"
      /\ UNCHANGED <<records, generation, head, target, runtime, queue, stray, sent>>
      /\ faults' \in 0..MaxFaults
  BY Zenon, FaultTypes DEF TransitionFails, EffectRefused, AtStage
<1>2. job.message \in Messages
  BY Zenon, <1>1, JobTypes
<1>3. gate' => gate /\ Nonterminal = {}
  BY ZenonT(40), <1>1, <1>2, OpenMeansSettled DEF ReplyErr
<1>4. DurableInv' /\ JobInv' /\ GateInv' /\ StrayInv'
  BY Zenon, <1>1, <1>3, AnswerStep DEF ReplyErr, durable
<1> QED
  BY Zenon, <1>1, <1>2, <1>4, ReplyTypes DEF TypeOK

\* effects.prepare chooses the next event of a row that has not landed.
LEMMA PrepareStep ==
    ASSUME RuntimeInv, Prepare
    PROVE  RuntimeInv'
<1> USE DEF RuntimeInv
<1>1. /\ job.stage = "prepare" /\ runtime = "up"
      /\ UNCHANGED <<durable, runtime, stray, gate>>
      /\ UNCHANGED <<queue, driver, sent>> /\ faults' \in 0..MaxFaults
  BY Zenon, FaultTypes DEF Prepare, AtStage, durable
<1>2. PICK event \in PrepareOutcomes \cup RetryableFailures :
        job' = Job("transition", job.message, job.row, event)
  BY DEF Prepare
<1>3. /\ job.message \in Messages /\ job.row \in CommandRecords
      /\ job.row \in records /\ job.row.state.kind = "Executing"
  BY Zenon, <1>1, JobTypes DEF JobInv
<1>4. event \in CommandEvents
  BY Zenon, <1>2, <1>3, EventTypes
<1>5. ~Landed(job.row.command.op)
  BY Zenon, <1>3 DEF DurableInv, RowAgrees
<1>6. event.owner = Owner /\ EventFits(job.row, event)
  BY Zenon, <1>2, <1>3, <1>5 DEF PrepareOutcomes, RetryableFailures, EventFits
<1>7. DurableInv' /\ JobInv' /\ GateInv' /\ StrayInv'
  BY Zenon, <1>1, <1>2, <1>3, <1>6, TakeUpStep
<1>8. job' \in Jobs
  BY Zenon, <1>2, <1>3, <1>4 DEF Job, Jobs
<1> QED
  BY Zenon, <1>1, <1>7, <1>8 DEF TypeOK, durable

\* The recovery driver only reads the journal, closes the gate and sends.
LEMMA DriverInvStep ==
    ASSUME RuntimeInv, StartRecovery \/ DriverNext
    PROVE  RuntimeInv'
<1> USE DEF RuntimeInv
<1>1. UNCHANGED <<durable, runtime, job, stray, sent>>
  BY Zenon DEF StartRecovery, DriverNext, LoadPage, RecoverRow, CloseBeforeOpening,
     OpenCommandAdmission, DriverStep
<1>2. gate' \in BOOLEAN /\ (gate' => gate)
  <2>1. gate' = FALSE \/ gate' = gate
    BY Zenon DEF StartRecovery, DriverNext, LoadPage, RecoverRow, CloseBeforeOpening,
       OpenCommandAdmission
  <2>2. gate \in BOOLEAN
    BY DEF TypeOK
  <2>3. CASE gate' = FALSE
    BY Zenon, <2>3
  <2> QED
    BY Zenon, <2>1, <2>2, <2>3
<1>3. faults' \in 0..MaxFaults
  BY Zenon, FaultTypes DEF StartRecovery, DriverNext, LoadPage, RecoverRow, CloseBeforeOpening,
     OpenCommandAdmission
<1>4. IdleDriver \in Drivers /\ driver \in Drivers /\ 1 \in 0..MaxSweeps
  BY RuntimeAssumption DEF IdleDriver, TypeOK, Drivers
<1>5. driver' \in Drivers
  <2>1. CASE RecoverRow
    <3>1. PICK row \in driver.rows :
            \/ driver' = [driver EXCEPT !.phase = "waiting", !.rows = @ \ {row}]
            \/ driver' = IdleDriver
      BY Zenon, <2>1 DEF RecoverRow
    <3>2. driver.rows \ {row} \subseteq {rec \in CommandRecords : ~Terminal(rec)}
      BY Zenon, <1>4 DEF Drivers
    <3> QED
      BY Zenon, <1>4, <3>1, <3>2 DEF Drivers
  <2>2. Nonterminal \subseteq {rec \in CommandRecords : ~Terminal(rec)}
    BY Zenon DEF Nonterminal, TypeOK
  <2>3. CASE StartRecovery
    BY Zenon, <1>4, <2>3 DEF StartRecovery, Drivers
  <2>4. CASE LoadPage
    BY Zenon, <1>4, <2>2, <2>4 DEF LoadPage, Drivers
  <2>5. CASE CloseBeforeOpening
    BY Zenon, <1>4, <2>5 DEF CloseBeforeOpening, Drivers
  <2>6. CASE OpenCommandAdmission
    BY Zenon, <1>4, <2>6 DEF OpenCommandAdmission, Drivers
  <2> QED
    BY Zenon, <2>1, <2>3, <2>4, <2>5, <2>6 DEF DriverNext
<1>6. queue' \in Seq(Messages) /\ Len(queue') <= QueueCapacity
  <2>1. CASE queue' = queue
    BY <2>1 DEF TypeOK
  <2>2. CASE OpenCommandAdmission
    BY Zenon, <2>2, MessageTypes, SendTypes DEF OpenCommandAdmission
  <2>3. CASE RecoverRow /\ queue' # queue
    <3>1. PICK row \in driver.rows :
            LET obligation == RecoveryObligation(row)
                kind == CASE obligation = "ReconcileCommit" -> "Reconcile"
                          [] obligation = "RetryProvedNotCommitted" -> "Retry"
                          [] OTHER -> obligation
            IN  Send(Message(kind, row.command.op, TRUE))
      BY Zenon, <2>3 DEF RecoverRow
    <3>2. row \in CommandRecords /\ ~Terminal(row) /\ row.command.op \in Ops
      BY <1>4 DEF Drivers, CommandRecords, FabricCommands
    <3>3. RecoveryObligation(row) \in {"ResumePrecommit", "MarkInterruptedCommit",
            "ReconcileCommit", "RetryProvedNotCommitted"}
      BY Zenon, <3>2, StateShapes DEF RecoveryObligation, Terminal, CommandRecords
    <3>4. PICK message \in Messages : Send(message)
      BY Zenon, <3>1, <3>2, <3>3, MessageTypes
    <3> QED
      BY Zenon, <3>4, SendTypes
  <2> QED
    BY Zenon, <2>1, <2>2, <2>3 DEF StartRecovery, DriverNext, LoadPage, CloseBeforeOpening
<1>7. DurableInv' /\ JobInv' /\ GateInv' /\ StrayInv'
  BY Zenon, <1>1, <1>2, QuietStep
<1> QED
  BY Zenon, <1>1, <1>2, <1>3, <1>5, <1>6, <1>7 DEF TypeOK, durable

\* Abandoning a recovery only forgets who waits for the answers.
LEMMA AbandonStep ==
    ASSUME RuntimeInv, AbandonRecovery
    PROVE  RuntimeInv'
<1> USE DEF RuntimeInv
<1>1. /\ UNCHANGED <<durable, runtime, gate, stray, sent>> /\ faults' \in 0..MaxFaults
      /\ driver' \in Drivers
  BY FaultTypes, RuntimeAssumption DEF AbandonRecovery, IdleDriver, Drivers
<1>2. \A message \in Messages :
        /\ [message EXCEPT !.waiter = FALSE] \in Messages
        /\ [message EXCEPT !.waiter = FALSE].kind = message.kind
  BY Zenon DEF Messages
<1>3. queue' \in Seq(Messages) /\ Len(queue') <= QueueCapacity
  <2>1. queue \in Seq(Messages) /\ Len(queue) \in Nat /\ Len(queue) <= QueueCapacity
    BY DEF TypeOK
  <2>2. queue' = [i \in 1..Len(queue) |-> [queue[i] EXCEPT !.waiter = FALSE]]
    BY <2>1 DEF AbandonRecovery
  <2>3. \A i \in 1..Len(queue) : [queue[i] EXCEPT !.waiter = FALSE] \in Messages
    BY <1>2, <2>1
  <2>4. queue' \in [1..Len(queue) -> Messages]
    BY Zenon, <2>2, <2>3
  <2> QED
    BY <2>1, <2>4
<1>4. CASE job = IdleJob
  <2>1. DurableInv' /\ JobInv' /\ GateInv' /\ StrayInv' /\ job' = job
    BY <1>1, <1>4, QuietStep DEF AbandonRecovery
  <2> QED
    BY Zenon, <1>1, <1>3, <2>1 DEF TypeOK, durable
<1>5. CASE job # IdleJob
  <2>1. job.stage # "idle" /\ job \in Jobs
    BY Zenon, <1>5, JobTypes DEF TypeOK
  <2>2. job \in [stage: {"transition", "prepare", "commit"}, message: Messages,
                 row: CommandRecords, event: CommandEvents]
    BY <2>1 DEF Jobs, IdleJob
  <2>3. job' = [job EXCEPT !.message.waiter = FALSE]
    BY <1>5 DEF AbandonRecovery
  <2>4. /\ job'.stage = job.stage /\ job'.row = job.row /\ job'.event = job.event
        /\ job'.message = [job.message EXCEPT !.waiter = FALSE]
        /\ job' \in [stage: {"transition", "prepare", "commit"}, message: Messages,
                     row: CommandRecords, event: CommandEvents]
    BY Zenon, <1>2, <2>2, <2>3
  <2>5. job'.message.kind = job.message.kind /\ job' \in Jobs
    BY Zenon, <1>2, <2>2, <2>4 DEF Jobs
  <2>6. DurableInv' /\ JobInv' /\ GateInv' /\ StrayInv'
    BY Zenon, <1>1, <2>4, <2>5, QuietStep
  <2> QED
    BY Zenon, <1>1, <1>3, <2>5, <2>6 DEF TypeOK, durable
<1> QED
  BY <1>4, <1>5

\* An empty runtime has the types of the volatile state.
LEMMA NoActorTypes ==
    ASSUME NoActor
    PROVE  /\ gate' = FALSE /\ job' = IdleJob /\ job' \in Jobs
           /\ queue' \in Seq(Messages) /\ Len(queue') <= QueueCapacity
           /\ driver' \in Drivers
<1>1. <<>> \in Seq(Messages) /\ Len(<<>>) = 0 /\ 0 <= QueueCapacity
  BY RuntimeAssumption
<1> QED
  BY <1>1, RuntimeAssumption DEF NoActor, Jobs, IdleDriver, Drivers

\* The end of a runtime: by shutdown, drop, crash or exit.
LEMMA EndStep ==
    ASSUME RuntimeInv, ReceiveShutdown \/ DropRuntime \/ Crash \/ ExitAfterDrop
    PROVE  RuntimeInv'
<1> USE DEF RuntimeInv
<1>1. /\ UNCHANGED <<durable, sent>> /\ NoActor /\ faults' \in 0..MaxFaults
      /\ runtime' \in {"down", "dropped"}
  BY FaultTypes DEF ReceiveShutdown, DropRuntime, Crash, ExitAfterDrop, ProcessEnds
<1>2. /\ gate' = FALSE /\ job' = IdleJob /\ job' \in Jobs
      /\ queue' \in Seq(Messages) /\ Len(queue') <= QueueCapacity /\ driver' \in Drivers
  BY Zenon, <1>1, NoActorTypes
<1>3. /\ DurableInv' /\ Nonterminal' = Nonterminal
      /\ \A row : Committable(row)' <=> Committable(row)
  BY Zenon, <1>1, Frame
<1>4. StrayInv' /\ stray' \subseteq CommandRecords
  <2>1. CASE DropRuntime
    BY Zenon, <1>3, <2>1, JobTypes DEF DropRuntime, StrayInv, JobInv
  <2>2. CASE ReceiveShutdown
    BY <1>3, <2>2 DEF ReceiveShutdown, StrayInv, TypeOK
  <2>3. CASE Crash \/ ExitAfterDrop
    BY Zenon, <2>3 DEF Crash, ExitAfterDrop, ProcessEnds, StrayInv
  <2> QED
    BY ZenonT(40), <2>1, <2>2, <2>3
<1>5. JobInv' /\ GateInv'
  BY <1>2 DEF JobInv, GateInv, IdleJob
<1> QED
  BY Zenon, <1>1, <1>2, <1>3, <1>4, <1>5 DEF TypeOK, durable

\* A new generation: nobody is working under the old one.
LEMMA StartStep ==
    ASSUME RuntimeInv, StartRuntime \/ StartFails
    PROVE  RuntimeInv'
<1> USE DEF RuntimeInv
<1>1. /\ runtime = "down" /\ generation' \in Generations
      /\ UNCHANGED <<records, head, target, stray, sent>> /\ faults' \in 0..MaxFaults
      /\ runtime' \in {"up", "down"}
  BY Zenon, FaultTypes DEF StartRuntime, StartFails
<1>2. stray = {} /\ job = IdleJob /\ gate = FALSE
  BY <1>1, JobTypes DEF StrayInv, JobInv, GateInv, TypeOK
<1>3. /\ gate' = FALSE /\ job' = IdleJob /\ job' \in Jobs
      /\ queue' \in Seq(Messages) /\ Len(queue') <= QueueCapacity /\ driver' \in Drivers
  BY Zenon, <1>2, NoActorTypes DEF StartRuntime, StartFails, TypeOK
<1>4. DurableInv'
  <2>1. /\ \A op : Landed(op)' <=> Landed(op)
        /\ \A row : MarkerPresent(row)' <=> MarkerPresent(row)
        /\ Nonterminal' = Nonterminal
    BY Zenon, <1>1 DEF Landed, MarkerPresent, Nonterminal
  <2>2. \A row : RowAgrees(row)' <=> RowAgrees(row)
    BY Zenon, <2>1 DEF RowAgrees
  <2>3. ExactlyOnce' /\ UnsettledHeadIsCurrent'
    BY Zenon, <1>1, <2>1 DEF ExactlyOnce, UnsettledHeadIsCurrent, DurableInv
  <2> QED
    BY Zenon, <1>1, <2>1, <2>2, <2>3 DEF DurableInv
<1>5. JobInv' /\ GateInv' /\ StrayInv'
  BY Zenon, <1>1, <1>2, <1>3 DEF JobInv, GateInv, StrayInv, IdleJob
<1> QED
  BY Zenon, <1>1, <1>3, <1>4, <1>5 DEF TypeOK

-----------------------------------------------------------------------------
(* Steps that write the target.                                            *)

\* A commit of a committable row lands once, as that row's transaction, and
\* touches no other operation.
LEMMA LandStep ==
    ASSUME TypeOK, DurableInv, NEW row, Committable(row), Land(row),
           UNCHANGED <<records, generation>>
    PROVE  /\ DurableInv'
           /\ target' \in Seq(Commits) /\ head' \in Heads
           /\ MarkerPresent(row)'
           /\ Nonterminal' = Nonterminal /\ Owner' = Owner
<1> DEFINE n == Len(target)
           op == row.command.op
           commit == CommitOf(row)
<1>1. /\ row \in records /\ row \in CommandRecords /\ row.state.kind = "CommitPrepared"
      /\ row.state \in PreparedStates /\ row.state.owner = Owner /\ ~Landed(op)
      /\ op \in Ops /\ ~Terminal(row)
  BY ZenonT(40), StateShapes DEF Committable, TypeOK, CommandRecords, FabricCommands, Terminal
<1>2. commit \in Commits /\ commit.op = op /\ commit.transaction = row.state.transaction
  BY Zenon, <1>1 DEF CommitOf, Commits, PreparedStates, Owners, Fences
<1>3. target \in Seq(Commits) /\ n \in Nat /\ DOMAIN target = 1..n
  BY DEF TypeOK
<1>4. /\ target' \in Seq(Commits) /\ DOMAIN target' = 1..(n + 1)
      /\ \A i \in 1..n : target'[i] = target[i]
      /\ target'[n + 1] = commit
  BY SMTT(40), Zenon, <1>2, <1>3 DEF Land
<1>5. head' \in Heads
  BY ZenonT(40), <1>1, RuntimeAssumption DEF Land, TypeOK
<1>6. MarkerPresent(row)' /\ Landed(op)'
  BY <1>2, <1>3, <1>4 DEF MarkerPresent, Landed
<1>7. /\ \A o : o # op => (Landed(o)' <=> Landed(o))
      /\ \A rec : MarkerPresent(rec) => MarkerPresent(rec)'
  BY <1>2, <1>3, <1>4 DEF MarkerPresent, Landed
<1>8. Nonterminal' = Nonterminal /\ Owner' = Owner /\ records' = records
  BY DEF Nonterminal, Owner
<1>9. ASSUME NEW rec \in records PROVE RowAgrees(rec)'
  <2>1. CASE rec = row
    BY Zenon, <1>1, <1>6, <2>1 DEF RowAgrees
  <2>2. CASE rec # row
    <3>1. rec.command.op # op /\ RowAgrees(rec)
      BY Zenon, <1>1, <2>2 DEF DurableInv
    <3> QED
      BY Zenon, <1>7, <3>1 DEF RowAgrees
  <2> QED
    BY Zenon, <2>1, <2>2
<1>10. ExactlyOnce'
  <2>1. \A i \in 1..n : target[i].op # op
    BY <1>1, <1>3 DEF Landed
  <2> QED
    BY SMTT(40), Zenon, <1>2, <1>3, <1>4, <2>1 DEF ExactlyOnce, DurableInv
<1>11. UnsettledHeadIsCurrent'
  <2>1. \A rec \in Nonterminal : rec = row
    BY ZenonT(40), <1>1 DEF DurableInv, Nonterminal
  <2> QED
    BY Zenon, <1>6, <1>8, <2>1 DEF UnsettledHeadIsCurrent
<1>12. \A i \in DOMAIN target' : \E rec \in records' : rec.command.op = target'[i].op
  BY <1>1, <1>2, <1>3, <1>4, <1>8 DEF DurableInv
<1>13. DurableInv'
  BY Zenon, <1>8, <1>9, <1>10, <1>11, <1>12 DEF DurableInv
<1> QED
  BY Zenon, <1>4, <1>5, <1>6, <1>8, <1>13

\* A commit that outlived its actor lands under the lock its process still has.
LEMMA StrayStep ==
    ASSUME RuntimeInv, StrayLands
    PROVE  RuntimeInv'
<1> USE DEF RuntimeInv
<1>1. PICK row \in stray : Land(row)
  BY DEF StrayLands
<1>2. /\ stray' = {} /\ runtime = "dropped"
      /\ UNCHANGED <<records, generation, runtime, gate, queue, job, driver, faults, sent>>
  BY <1>1 DEF StrayLands, StrayInv
<1>3. /\ DurableInv' /\ target' \in Seq(Commits) /\ head' \in Heads
  BY Zenon, <1>1, <1>2, LandStep DEF StrayInv
<1>4. JobInv' /\ GateInv' /\ StrayInv'
  BY ZenonT(40), <1>2 DEF JobInv, GateInv, StrayInv
<1> QED
  BY Zenon, <1>2, <1>3, <1>4 DEF TypeOK

\* effects.commit: the row is still the actor's, and whatever it reports is true
\* of the target.
LEMMA CommitStep ==
    ASSUME RuntimeInv, Commit
    PROVE  RuntimeInv'
<1> USE DEF RuntimeInv
<1>0. PICK row : row = job.row
  BY Zenon
<1>1. /\ job.stage = "commit" /\ runtime = "up"
      /\ UNCHANGED <<records, generation, runtime, queue, stray, sent>>
      /\ faults' \in 0..MaxFaults
  BY Zenon, FaultTypes DEF Commit, AtStage
<1>2. /\ Committable(row) /\ job.message \in Messages /\ row \in CommandRecords
      /\ row \in records /\ row.state.kind = "CommitPrepared"
  BY Zenon, <1>0, <1>1, JobTypes DEF JobInv, Committable
<1>3. stray = {}
  BY <1>1 DEF StrayInv
<1>4. ASSUME Land(row) \/ UNCHANGED <<head, target>>
      PROVE  /\ DurableInv' /\ target' \in Seq(Commits) /\ head' \in Heads
             /\ Nonterminal' = Nonterminal /\ Owner' = Owner
             /\ Land(row) => MarkerPresent(row)'
             /\ ~Land(row) => ~Landed(row.command.op)'
  <2>1. CASE Land(row)
    BY Zenon, <1>1, <1>2, <2>1, LandStep
  <2>2. CASE ~Land(row)
    <3>1. UNCHANGED durable
      BY Zenon, <1>1, <1>4, <2>2 DEF durable
    <3>2. DurableInv' /\ Nonterminal' = Nonterminal /\ Owner' = Owner /\ Committable(row)
      BY Zenon, <1>2, <3>1, Frame
    <3>3. ~Landed(row.command.op)'
      BY <3>1, <3>2 DEF Committable, Landed, durable
    <3> QED
      BY Zenon, <1>4, <2>2, <3>2, <3>3 DEF TypeOK
  <2> QED
    BY ZenonT(40), <2>1, <2>2
<1>5. ASSUME NEW event \in CommandEvents, job' = Job("transition", job.message, row, event),
             event.owner = Owner, Land(row) \/ UNCHANGED <<head, target>>,
             UNCHANGED <<gate, driver>>,
             \/ event.kind = "ConfirmCommit" /\ Land(row)
             \/ event.kind = "ReportUnknownCommit"
             \/ event.kind = "ReportKnownFailure" /\ ~Landed(row.command.op)'
      PROVE  RuntimeInv'
  <2>1. /\ job'.stage = "transition" /\ job'.message = job.message
        /\ job'.row = row /\ job'.event = event /\ job' \in Jobs
    BY ZenonT(40), <1>0, <1>2, <1>5 DEF Job, Jobs
  <2>2. EventFits(row, event)'
    BY Zenon, <1>2, <1>4, <1>5 DEF EventFits
  <2>3. JobInv'
    BY ZenonT(40), <1>1, <1>2, <1>4, <1>5, <2>1, <2>2 DEF JobInv
  <2>4. GateInv'
    BY Zenon, <1>0, <1>1, <1>4, <1>5, <2>1 DEF GateInv
  <2>5. StrayInv'
    BY <1>1, <1>3 DEF StrayInv
  <2> QED
    BY ZenonT(40), <1>1, <1>4, <1>5, <2>1, <2>3, <2>4, <2>5 DEF TypeOK
<1>6. CASE /\ Land(row) /\ UNCHANGED <<gate, driver>>
           /\ job' = Job("transition", job.message, row, Confirmation(row))
  <2>1. Confirmation(row) \in CommandEvents
    BY Zenon, <1>2, EventTypes
  <2>2. Confirmation(row).kind = "ConfirmCommit" /\ Confirmation(row).owner = Owner
    BY Zenon DEF Confirmation
  <2> QED
    BY ZenonT(40), <1>5, <1>6, <2>1, <2>2
<1>7. CASE /\ Land(row) \/ UNCHANGED <<head, target>>
           /\ \E event \in UnknownReports(row) :
                job' = Job("transition", job.message, row, event)
           /\ UNCHANGED <<gate, driver>>
  <2>1. PICK event \in UnknownReports(row) : job' = Job("transition", job.message, row, event)
    BY Zenon, <1>7
  <2>2. event \in CommandEvents
    BY <1>2, EventTypes
  <2>3. event.kind = "ReportUnknownCommit" /\ event.owner = Owner
    BY Zenon DEF UnknownReports
  <2> QED
    BY Zenon, <1>5, <1>7, <2>1, <2>2, <2>3
<1>8. CASE (Land(row) \/ UNCHANGED <<head, target>>) /\ ReplyErr(job.message)
  <2>1. /\ job' = IdleJob /\ job' \in Jobs /\ gate' \in BOOLEAN /\ driver' \in Drivers
    BY Zenon, <1>2, <1>8, ReplyTypes
  <2>2. gate' => gate /\ Nonterminal = {}
    BY Zenon, <1>2, <1>8, OpenMeansSettled DEF ReplyErr
  <2>3. JobInv' /\ GateInv' /\ StrayInv'
    BY Zenon, <1>1, <1>3, <1>4, <1>8, <2>1, <2>2 DEF JobInv, GateInv, StrayInv, IdleJob
  <2> QED
    BY ZenonT(40), <1>1, <1>4, <1>8, <2>1, <2>3 DEF TypeOK
<1>9. CASE /\ \E failure \in Failures :
                job' = Job("transition", job.message, row,
                           [kind |-> "ReportKnownFailure", owner |-> Owner,
                            failure |-> failure])
           /\ UNCHANGED <<head, target, gate, driver>>
  <2>1. PICK failure \in Failures :
          job' = Job("transition", job.message, row,
                     [kind |-> "ReportKnownFailure", owner |-> Owner, failure |-> failure])
    BY <1>9
  <2> DEFINE event == [kind |-> "ReportKnownFailure", owner |-> Owner, failure |-> failure]
  <2>2. event \in CommandEvents
    BY ZenonT(40), <1>2, EventTypes
  <2>3. ~Landed(row.command.op)'
    BY Zenon, <1>2, <1>9 DEF Committable, Landed
  <2>4. event.kind = "ReportKnownFailure" /\ event.owner = Owner
    OBVIOUS
  <2> HIDE DEF event
  <2> QED
    BY ZenonT(40), <1>5, <1>9, <2>1, <2>2, <2>3, <2>4 DEF event
<1> QED
  BY Zenon, <1>0, <1>6, <1>7, <1>8, <1>9 DEF Commit

-----------------------------------------------------------------------------
(* Steps that write the journal.                                           *)

\* transition: the row moves on and the actor goes on with the stored row.
LEMMA TransitionStep ==
    ASSUME RuntimeInv, Transition
    PROVE  RuntimeInv'
<1> USE DEF RuntimeInv
<1>0. PICK row, event, message : row = job.row /\ event = job.event /\ message = job.message
  BY Zenon
<1>1. /\ job.stage = "transition" /\ runtime = "up" /\ row \in records
      /\ UNCHANGED <<generation, head, target, runtime, queue, stray, sent>>
      /\ faults' \in 0..MaxFaults
  BY Zenon, <1>0, FaultTypes DEF Transition, AtStage
<1>2. /\ message \in Messages /\ row \in CommandRecords /\ event \in CommandEvents
      /\ event.owner = Owner /\ EventFits(row, event)
  BY Zenon, <1>0, <1>1, JobTypes DEF JobInv
<1>3. PICK next \in Answers(row, event) :
        /\ records' = (records \ {row}) \cup {next}
        /\ Continue(message, event, next) \/ ReplyErr(message)
  BY Zenon, <1>0 DEF Transition
<1>4. next \in Reduce(row, event, Context) /\ next \in records'
  BY <1>3 DEF Answers, When
<1>5. /\ DurableInv' /\ records' \subseteq CommandRecords /\ Owner' = Owner
      /\ Nonterminal' = (Nonterminal \ {row}) \cup (IF Terminal(next) THEN {} ELSE {next})
      /\ \A op : Landed(op)' <=> Landed(op)
  BY Zenon, <1>1, <1>2, <1>3, <1>4, SwapStep
<1>6. next \in CommandRecords
  BY Zenon, <1>4, <1>5
<1>7. StrayInv'
  BY Zenon, <1>1 DEF StrayInv
<1>8. ASSUME gate
      PROVE  /\ \A rec \in Nonterminal' : rec = next /\ message.kind = "Submit"
  <2>1. CASE message.kind = "Submit"
    BY Zenon, <1>0, <1>5, <1>8, <2>1 DEF GateInv
  <2>2. CASE message.kind # "Submit"
    <3>1. Nonterminal = {}
      BY Zenon, <1>0, <1>8, <2>2, OpenMeansSettled
    <3>2. Terminal(row) /\ ValidPersisted(row)
      BY ZenonT(40), <1>1, <3>1 DEF Nonterminal, DurableInv
    <3>3. next = row
      BY <1>2, <1>4, <3>2, ReduceShape
    <3> QED
      BY Zenon, <1>5, <3>1, <3>2, <3>3
  <2> QED
    BY Zenon, <2>1, <2>2
<1>9. CASE ReplyOk(message, next) \/ ReplyErr(message)
  <2>1. /\ job' = IdleJob /\ job' \in Jobs /\ gate' \in BOOLEAN /\ driver' \in Drivers
        /\ (gate' => gate)
    BY Zenon, <1>2, <1>9, ReplyTypes
  <2>2. gate' => Nonterminal' = {}
    <3>1. ASSUME gate' PROVE gate /\ (message.kind = "Submit" => Terminal(next))
      BY Zenon, <1>9, <3>1 DEF ReplyOk, ReplyErr
    <3>2. ASSUME gate', NEW rec \in Nonterminal' PROVE FALSE
      <4>1. rec = next /\ Terminal(next)
        BY Zenon, <1>8, <3>1, <3>2
      <4>2. ~Terminal(rec)
        BY <3>2 DEF Nonterminal
      <4> QED
        BY Zenon, <4>1, <4>2
    <3> QED
      BY <3>2
  <2>3. JobInv' /\ GateInv'
    BY Zenon, <1>1, <2>1, <2>2 DEF JobInv, GateInv, IdleJob
  <2> QED
    BY ZenonT(40), <1>1, <1>5, <1>7, <2>1, <2>3 DEF TypeOK
<1>10. ASSUME NEW stage \in {"transition", "prepare", "commit"}, NEW e \in CommandEvents,
              job' = Job(stage, message, next, e), UNCHANGED <<gate, driver>>,
              e.owner = Owner,
              stage = "prepare" => next.state.kind = "Executing",
              stage = "commit" => Committable(next)',
              stage = "transition" => e.kind = "CancelBeforeCommit"
       PROVE  RuntimeInv'
  <2>1. /\ job'.stage = stage /\ job'.message = message
        /\ job'.row = next /\ job'.event = e /\ job' \in Jobs
    BY Zenon, <1>2, <1>6, <1>10 DEF Job, Jobs
  <2>2. stage = "transition" => EventFits(next, e)'
    BY Zenon, <1>10 DEF EventFits
  <2>3. JobInv'
    BY ZenonT(40), <1>1, <1>4, <1>5, <1>10, <2>1, <2>2 DEF JobInv
  <2>4. GateInv'
    BY Zenon, <1>1, <1>8, <1>10, <2>1 DEF GateInv
  <2> QED
    BY ZenonT(40), <1>1, <1>5, <1>7, <1>10, <2>1, <2>3, <2>4 DEF TypeOK
<1>11. CASE event.kind = "Start" /\ message.kind = "Cancel" /\ Continue(message, event, next)
  <2>1. PICK ref \in Refs :
          job' = Job("transition", message, next,
                     [kind |-> "CancelBeforeCommit", owner |-> Owner, cancellation |-> ref])
    BY Zenon, <1>11 DEF Continue
  <2>2. UNCHANGED <<gate, driver>>
    BY <1>11 DEF Continue
  <2>3. PICK e : e = [kind |-> "CancelBeforeCommit", owner |-> Owner, cancellation |-> ref]
    BY Zenon
  <2>4. e \in CommandEvents /\ e.owner = Owner /\ e.kind = "CancelBeforeCommit"
    BY Zenon, <1>2, <2>3, EventTypes
  <2> QED
    BY ZenonT(40), <1>10, <2>1, <2>2, <2>3, <2>4
<1>12. CASE event.kind = "Start" /\ message.kind # "Cancel" /\ Continue(message, event, next)
  <2>1. next.state.kind = "Executing"
    BY <1>1, <1>2, <1>4, <1>12, ReduceShape DEF DurableInv
  <2>2. job' = Job("prepare", message, next, event) /\ UNCHANGED <<gate, driver>>
    BY Zenon, <1>12 DEF Continue
  <2> QED
    BY ZenonT(40), <1>2, <1>10, <2>1, <2>2
<1>13. CASE event.kind = "PrepareCommit" /\ Continue(message, event, next)
  <2>1. row.state.kind = "Executing" /\ ValidPersisted(row) /\ RowAgrees(row)
    BY ZenonT(40), <1>1, <1>2, <1>13 DEF EventFits, DurableInv
  <2>2. /\ next.state.kind = "CommitPrepared" /\ next.state.owner = event.owner
        /\ next.command = row.command
    BY SMTT(40), Zenon, <1>2, <1>4, <1>13, <2>1, ReduceShape
  <2>3. ~Landed(next.command.op)
    BY <2>1, <2>2 DEF RowAgrees
  <2>4. Committable(next)'
    BY ZenonT(40), <1>2, <1>4, <1>5, <2>2, <2>3 DEF Committable
  <2>5. job' = Job("commit", message, next, event) /\ UNCHANGED <<gate, driver>>
    BY Zenon, <1>13 DEF Continue
  <2> QED
    BY Zenon, <1>2, <1>10, <2>4, <2>5
<1>14. CASE event.kind \notin {"Start", "PrepareCommit"} /\ Continue(message, event, next)
  BY Zenon, <1>9, <1>14 DEF Continue
<1> QED
  BY ZenonT(40), <1>3, <1>9, <1>11, <1>12, <1>13, <1>14

\* process_submit: a fresh command enters a settled journal, and a known one is
\* answered from it.
LEMMA SubmitStep ==
    ASSUME RuntimeInv, ReceiveSubmit
    PROVE  RuntimeInv'
<1> USE DEF RuntimeInv
<1>0. PICK message, command : message = Head(queue) /\ command = message.command
  OBVIOUS
<1>1. /\ message \in Messages /\ message.kind = "Submit" /\ command \in FabricCommands
      /\ queue' \in Seq(Messages) /\ Len(queue') <= QueueCapacity
      /\ UNCHANGED <<generation, head, target, runtime, stray, sent>>
      /\ runtime = "up" /\ job = IdleJob /\ job.stage = "idle"
      /\ faults' \in 0..MaxFaults
  <2>1. message \in Messages /\ message.kind = "Submit"
    BY Zenon, <1>0, ReceiveTypes DEF ReceiveSubmit, Receive
  <2>2. command \in FabricCommands
    BY Zenon, <1>0, <2>1 DEF Messages
  <2> QED
    BY ZenonT(40), <1>0, <2>1, <2>2, ReceiveTypes, FaultTypes DEF ReceiveSubmit, Receive, IdleJob
<1>2. gate => Nonterminal = {}
  BY Zenon, <1>1, OpenMeansSettled
<1>3. \/ /\ gate /\ LookupAdmission(command) = {}
         /\ \E rec \in Admit(command, Context, TRUE) :
              /\ records' = records \cup {rec}
              /\ \/ /\ job' = Job("transition", message, rec, StartEvent(Owner))
                    /\ UNCHANGED <<gate, driver>>
                 \/ ReplyErr(message)
      \/ /\ \E rec \in records : ReplyOk(message, rec)
         /\ UNCHANGED records
      \/ ReplyErr(message) /\ UNCHANGED records
  BY ZenonT(40), <1>0 DEF ReceiveSubmit, LookupAdmission
<1>4. CASE /\ UNCHANGED records
           /\ ReplyErr(message) \/ \E rec \in records : ReplyOk(message, rec)
  <2>1. /\ job' = IdleJob /\ job' \in Jobs /\ gate' \in BOOLEAN /\ driver' \in Drivers
        /\ (gate' => gate)
    BY Zenon, <1>1, <1>4, ReplyTypes
  <2>2. DurableInv' /\ JobInv' /\ GateInv' /\ StrayInv'
    BY ZenonT(40), <1>1, <1>2, <1>4, <2>1, AnswerStep DEF durable
  <2> QED
    BY ZenonT(40), <1>1, <1>4, <2>1, <2>2 DEF TypeOK
<1>5. CASE /\ gate /\ LookupAdmission(command) = {}
           /\ \E rec \in Admit(command, Context, TRUE) :
                /\ records' = records \cup {rec}
                /\ \/ /\ job' = Job("transition", message, rec, StartEvent(Owner))
                      /\ UNCHANGED <<gate, driver>>
                   \/ ReplyErr(message)
  <2>1. PICK rec \in Admit(command, Context, TRUE) :
          /\ records' = records \cup {rec}
          /\ \/ /\ job' = Job("transition", message, rec, StartEvent(Owner))
                /\ UNCHANGED <<gate, driver>>
             \/ ReplyErr(message)
    BY ZenonT(40), <1>5
  <2>2. /\ rec.command = command /\ rec.state = [kind |-> "Admitted", attempt |-> 1]
        /\ rec.revision = 0 /\ command.expected_head = head
        /\ rec \in CommandRecords
    BY <1>1, <2>1 DEF Admit, When, Context, CommandRecords, DurableCommandStates, AdmittedStates
  <2>3. ValidPersisted(rec) /\ ~Terminal(rec)
    BY SMTT(40), Zenon, <2>2 DEF ValidPersisted, ValidState, Terminal
  <2>4. \A r \in records : r.command.op # command.op /\ r.command.key # command.key
    BY Zenon, <1>5 DEF LookupAdmission
  <2>5. /\ \A op : Landed(op)' <=> Landed(op)
        /\ \A r : MarkerPresent(r)' <=> MarkerPresent(r)
        /\ Owner' = Owner
    BY <1>1 DEF Landed, MarkerPresent, Owner
  <2>6. ~Landed(command.op)
    BY ZenonT(40), <2>4 DEF Landed, DurableInv
  <2>7. \A r \in records' : RowAgrees(r)'
    BY <2>1, <2>2, <2>5, <2>6 DEF RowAgrees, DurableInv
  <2>8. Nonterminal' = {rec}
    BY Zenon, <1>2, <1>5, <2>1, <2>3 DEF Nonterminal
  <2>9. UnsettledHeadIsCurrent' /\ ExactlyOnce'
    BY ZenonT(40), <1>1, <2>2, <2>8 DEF UnsettledHeadIsCurrent, ExactlyOnce, DurableInv
  <2>10. DurableInv'
    BY ZenonT(40), <1>1, <2>1, <2>2, <2>3, <2>4, <2>7, <2>8, <2>9 DEF DurableInv
  <2>11. StrayInv' /\ records' \subseteq CommandRecords /\ rec \in records'
    BY Zenon, <1>1, <2>1, <2>2 DEF StrayInv, TypeOK
  <2>12. CASE /\ job' = Job("transition", message, rec, StartEvent(Owner))
              /\ UNCHANGED <<gate, driver>>
    <3>1. StartEvent(Owner) \in CommandEvents
      BY Zenon, <2>2, EventTypes
    <3>2. PICK event : event = StartEvent(Owner)
      OBVIOUS
    <3>3. event.kind = "Start" /\ event.owner = Owner
      BY <3>2 DEF StartEvent
    <3>4. /\ job'.stage = "transition" /\ job'.message = message /\ job'.row = rec
          /\ job'.event = event /\ job' \in Jobs
      BY ZenonT(40), <1>1, <2>2, <2>12, <3>1, <3>2 DEF Job, Jobs
    <3>5. JobInv'
      BY ZenonT(40), <1>1, <2>5, <2>11, <3>3, <3>4 DEF JobInv, EventFits
    <3>6. GateInv'
      BY Zenon, <1>1, <2>8, <3>4 DEF GateInv
    <3> QED
      BY ZenonT(40), <1>1, <2>10, <2>11, <2>12, <3>4, <3>5, <3>6 DEF TypeOK
  <2>13. CASE ReplyErr(message)
    <3>1. /\ job' = IdleJob /\ job' \in Jobs /\ gate' \in BOOLEAN /\ driver' \in Drivers
      BY Zenon, <1>1, <2>13, ReplyTypes
    <3>2. JobInv' /\ GateInv'
      BY ZenonT(40), <1>1, <2>13, <3>1 DEF JobInv, GateInv, IdleJob, ReplyErr
    <3> QED
      BY ZenonT(40), <1>1, <2>10, <2>11, <3>1, <3>2 DEF TypeOK
  <2> QED
    BY Zenon, <2>1, <2>12, <2>13
<1> QED
  BY Zenon, <1>3, <1>4, <1>5

-----------------------------------------------------------------------------
(* The invariant and the theorems.                                         *)

\* A fresh workspace satisfies the invariant.
LEMMA RuntimeInit == Init => RuntimeInv
<1> SUFFICES ASSUME Init PROVE RuntimeInv
  OBVIOUS
<1>1. TypeOK
  <2>1. <<>> \in Seq(Commits) /\ <<>> \in Seq(Messages) /\ Len(<<>>) = 0
    BY SMTT(40), Zenon
  <2>2. IdleDriver \in Drivers /\ 0 \in 0..MaxFaults /\ 0 \in 0..MaxSent /\ 0 <= QueueCapacity
    BY RuntimeAssumption DEF IdleDriver, Drivers
  <2>3. IdleJob \in Jobs
    BY ZenonT(40) DEF Jobs
  <2> QED
    BY ZenonT(40), <2>1, <2>2, <2>3, RuntimeAssumption DEF Init, TypeOK
<1>2. DurableInv
  BY DEF Init, DurableInv, ExactlyOnce, UnsettledHeadIsCurrent, Nonterminal
<1> QED
  BY Zenon, <1>1, <1>2 DEF Init, RuntimeInv, JobInv, GateInv, StrayInv, IdleJob

\* Every step of the runtime keeps the invariant.
LEMMA RuntimeStep == RuntimeInv /\ [Next]_vars => RuntimeInv'
<1> SUFFICES ASSUME RuntimeInv, [Next]_vars PROVE RuntimeInv'
  OBVIOUS
<1>1. CASE Submit \/ Request \/ Shutdown
  BY Zenon, <1>1, ClientStep
<1>2. CASE ReceiveSubmit
  BY Zenon, <1>2, SubmitStep
<1>3. CASE \E kind \in {"Cancel", "Reconcile", "Retry", "ResumePrecommit",
                        "MarkInterruptedCommit"} : ReceiveRequest(kind)
  BY Zenon, <1>3, RequestStep
<1>4. CASE ReceiveIndeterminate \/ ReceiveOpenAdmission
  BY Zenon, <1>4, IndeterminateStep, OpenAdmissionStep
<1>5. CASE Transition
  BY <1>5, TransitionStep
<1>6. CASE TransitionFails \/ EffectRefused
  BY ZenonT(40), <1>6, FailedStep
<1>7. CASE Prepare \/ Commit
  BY Zenon, <1>7, PrepareStep, CommitStep
<1>8. CASE StartRecovery \/ DriverNext
  BY ZenonT(40), <1>8, DriverInvStep
<1>9. CASE AbandonRecovery
  BY <1>9, AbandonStep
<1>10. CASE StartRuntime \/ StartFails
  BY <1>10, StartStep
<1>11. CASE ReceiveShutdown \/ DropRuntime \/ Crash \/ ExitAfterDrop
  BY Zenon, <1>11, EndStep
<1>12. CASE StrayLands
  BY <1>12, StrayStep
<1>13. CASE UNCHANGED vars
  <2>1. /\ UNCHANGED <<records, generation, head, target, runtime, gate, queue, job>>
        /\ UNCHANGED <<driver, stray, faults, sent>>
    BY Zenon, <1>13 DEF vars
  <2>2. DurableInv' /\ JobInv' /\ GateInv' /\ StrayInv'
    BY Zenon, <2>1, QuietStep DEF durable
  <2> QED
    BY Zenon, <2>1, <2>2 DEF RuntimeInv, TypeOK
<1> QED
  BY ZenonT(40), <1>1, <1>2, <1>3, <1>4, <1>5, <1>6, <1>7, <1>8, <1>9, <1>10, <1>11, <1>12, <1>13
  DEF Next, ActorNext

\* Whatever fails, retries, recovers or restarts, and in whatever order: no
\* operation's transaction lands twice, and the journal says of every operation
\* what the target holds.
THEOREM RuntimeExactlyOnce == Spec => []EffectsMatchJournal
<1>1. RuntimeInv => EffectsMatchJournal
  BY DEF EffectsMatchJournal, RuntimeInv, DurableInv, RowAgrees, JournalTellsTheTruth
<1> QED
  BY <1>1, RuntimeInit, RuntimeStep, PTL DEF Spec

\* The runtime's state is typed, the serial actor always works on the durable
\* row, the gate keeps at most one command unsettled, and that command's
\* expected head stays selected until its own commit lands.
THEOREM RuntimeSerialises == Spec => []ActorIsSerial
<1>1. ASSUME RuntimeInv
      PROVE  ActorIsSerial
  BY Zenon, <1>1
  DEF ActorIsSerial, RuntimeInv, DurableInv, JobInv, GateInv, ActorHoldsDurableRow,
      OneUnsettledCommand
<1> QED
  BY <1>1, RuntimeInit, RuntimeStep, PTL DEF Spec

\* A step that extends the target history appends a commit of the current
\* generation.
LEMMA LandingIsCurrent ==
    ASSUME RuntimeInv, [Next]_vars, target' # target
    PROVE  target' # <<>> /\ target'[Len(target')].generation = generation
<1>1. ASSUME RuntimeInv, NEW row, Committable(row), Land(row)
      PROVE  target' # <<>> /\ target'[Len(target')].generation = generation
  <2>1. /\ target \in Seq(Commits) /\ row.state.owner = Owner
        /\ Owner.fence.generation = generation
    BY Zenon, <1>1, OwnerFacts DEF RuntimeInv, TypeOK, Committable, Owner
  <2>2. target' = Append(target, CommitOf(row)) /\ CommitOf(row).generation = generation
    BY Zenon, <1>1, <2>1 DEF Land, CommitOf
  <2>3. Len(target') = Len(target) + 1 /\ target'[Len(target) + 1] = CommitOf(row)
    <3> HIDE DEF CommitOf
    <3>1. \A c, t : t \in Seq(Commits) =>
            Len(Append(t, c)) = Len(t) + 1 /\ Append(t, c)[Len(t) + 1] = c
      OBVIOUS
    <3> QED
      BY Zenon, <2>1, <2>2, <3>1
  <2>4. target' # <<>>
    <3>1. Len(target) \in Nat /\ Len(<<>>) = 0
      BY <2>1
    <3> QED
      BY <2>3, <3>1
  <2> QED
    BY Zenon, <2>2, <2>3, <2>4
<1>2. CASE Commit
  <2>1. Land(job.row) /\ Committable(job.row)
    BY Zenon, <1>2 DEF Commit, AtStage, RuntimeInv, JobInv
  <2> QED
    BY Zenon, <1>1, <2>1
<1>3. CASE StrayLands
  BY Zenon, <1>1, <1>3 DEF StrayLands, RuntimeInv, StrayInv
<1>4. CASE ~Commit /\ ~StrayLands
  BY Zenon, <1>4 DEF Next, ActorNext, DriverNext, vars, durable, Submit, Request, Shutdown,
       ClientSends, ReceiveSubmit, ReceiveRequest, ReceiveIndeterminate,
       ReceiveOpenAdmission, ReceiveShutdown, Receive, Transition, TransitionFails, Prepare,
       EffectRefused, StartRecovery, LoadPage, RecoverRow, CloseBeforeOpening,
       OpenCommandAdmission, DriverStep, AbandonRecovery, StartRuntime, StartFails,
       DropRuntime, Crash, ExitAfterDrop, ProcessEnds
<1> QED
  BY Zenon, <1>2, <1>3, <1>4

\* A commit that lands carries the generation that is current when it lands,
\* including one that outlived the actor that started it.
THEOREM RuntimeFencesCommits == Spec => OnlyCurrentWriterLands
<1>1. RuntimeInv /\ [Next]_vars =>
        [target' # target => target'[Len(target')].generation = generation]_vars
  BY LandingIsCurrent
<1> QED
  BY <1>1, RuntimeInit, RuntimeStep, PTL DEF Spec, OnlyCurrentWriterLands

-----------------------------------------------------------------------------
(* The refinements.                                                        *)

\* The instantiated journal speaks of the same records, events and reducer.
LEMMA SameReducer ==
    /\ \A rec, event, context :
         Journal!Reduce(rec, event, context) = Reduce(rec, event, context)
    /\ \A command, context, authorized :
         Journal!Admit(command, context, authorized) = Admit(command, context, authorized)
    /\ Journal!FabricCommands = FabricCommands
    /\ Journal!Fences = Fences
    /\ Journal!CommandEvents = CommandEvents
<1>1. Journal!Fences = Fences
  BY DEF Journal!Fences, Fences
<1>2. Journal!Owners = Owners /\ Journal!FabricCommands = FabricCommands
  BY Zenon, <1>1 DEF Journal!Owners, Owners, Journal!FabricCommands, FabricCommands
<1>3. Journal!CommandEvents = CommandEvents
  BY Zenon, <1>2 DEF Journal!CommandEvents, CommandEvents, Journal!Failures, Failures,
     Journal!Observations, Observations
<1>4. \A command, context, authorized :
         Journal!Admit(command, context, authorized) = Admit(command, context, authorized)
  BY Zenon DEF Journal!Admit, Admit, Journal!When, When
<1>5. \A rec, event, context :
         Journal!Reduce(rec, event, context) = Reduce(rec, event, context)
  BY DEF Journal!Reduce, Reduce, Journal!ResultKindMatches, ResultKindMatches,
     Journal!Terminal, Terminal, Journal!TerminalReplay, TerminalReplay,
     Journal!ContextAllows, ContextAllows, Journal!ReduceAdmitted, ReduceAdmitted,
     Journal!ReduceExecuting, ReduceExecuting, Journal!ReducePrepared, ReducePrepared,
     Journal!ReduceAwaitingReconciliation, ReduceAwaitingReconciliation,
     Journal!ReduceRetryReady, ReduceRetryReady, Journal!ApplyReconciliation,
     ApplyReconciliation, Journal!KnownFailureOutcome, KnownFailureOutcome,
     Journal!RetryReady, RetryReady, Journal!Changed, Changed, Journal!Idempotent,
     Idempotent, Journal!When, When, Journal!FenceAuthorizes, FenceAuthorizes,
     Journal!RecoveryOwnerAuthorizes, RecoveryOwnerAuthorizes
<1> QED
  BY Zenon, <1>1, <1>2, <1>3, <1>4, <1>5

\* What a runtime step does to the journal's variables.
LEMMA JournalSteps ==
    ASSUME RuntimeInv, [Next]_vars
    PROVE  Journal!Next \/ UNCHANGED <<records, Owner.fence, head>>
<1> DEFINE Quiet == UNCHANGED <<records, generation, head>>
<1> USE DEF RuntimeInv
<1>1. Quiet => UNCHANGED <<records, Owner.fence, head>>
  BY Zenon DEF Owner
<1>2. generation \in Generations /\ Owner.fence \in Fences /\ Owner.fence.generation = generation
  BY Zenon, OwnerFacts DEF TypeOK, Owner
<1>3. Journal!Context = Context
  BY DEF Journal!Context, Context
<1>4. CASE ReceiveSubmit
  <2>0. PICK command : command = Head(queue).command
    BY Zenon
  <2>1. /\ Head(queue) \in Messages /\ Head(queue).kind = "Submit"
        /\ UNCHANGED <<generation, head>>
    BY Zenon, <1>4, ReceiveTypes DEF ReceiveSubmit, Receive
  <2>2. command \in FabricCommands
    BY Zenon, <2>0, <2>1 DEF Messages
  <2>3. \/ UNCHANGED records
        \/ /\ LookupAdmission(command) = {}
           /\ \E rec \in Admit(command, Context, TRUE) : records' = records \cup {rec}
    BY Zenon, <1>4, <2>0 DEF ReceiveSubmit
  <2>4. LookupAdmission(command) = Journal!LookupAdmission(records, command)
    BY DEF LookupAdmission, Journal!LookupAdmission
  <2>5. UNCHANGED <<Owner.fence, head>>
    BY Zenon, <2>1 DEF Owner
  <2> QED
    BY ZenonT(40), <1>1, <1>3, <2>1, <2>2, <2>3, <2>4, <2>5, SameReducer
    DEF Journal!Next, Journal!InsertIfAbsent
<1>5. CASE Transition
  <2>0. PICK row, event : row = job.row /\ event = job.event
    OBVIOUS
  <2>1. /\ row \in records /\ event \in CommandEvents /\ UNCHANGED <<generation, head>>
    BY Zenon, <1>5, <2>0, JobTypes DEF Transition, AtStage
  <2>2. PICK next \in Reduce(row, event, Context) : records' = (records \ {row}) \cup {next}
    BY Zenon, <1>5, <2>0 DEF Transition, Answers, When
  <2>3. UNCHANGED <<Owner.fence, head>>
    BY Zenon, <2>1 DEF Owner
  <2>4. CASE next = row
    BY ZenonT(40), <1>1, <2>1, <2>2, <2>3, <2>4
  <2>5. CASE next # row
    <3>1. Journal!CompareAndSwap(row, event)
      BY ZenonT(40), <1>3, <2>2, <2>3, <2>5, SameReducer DEF Journal!CompareAndSwap
    <3> QED
      BY Zenon, <2>1, <3>1, SameReducer DEF Journal!Next
  <2> QED
    BY Zenon, <2>4, <2>5
<1>6. ASSUME NEW row, Committable(row), Land(row), UNCHANGED <<records, generation>>
      PROVE  Journal!Next
  <2>1. head' \in Heads
    BY Zenon, <1>6, LandStep
  <2> QED
    BY Zenon, <1>6, <2>1 DEF Journal!Next, Journal!AdvanceHead, Owner
<1>7. CASE Commit
  <2>1. UNCHANGED <<records, generation>> /\ (Land(job.row) \/ UNCHANGED head)
    BY Zenon, <1>7 DEF Commit, AtStage
  <2>2. Committable(job.row)
    BY Zenon, <1>7 DEF Commit, AtStage, JobInv
  <2> QED
    BY Zenon, <1>1, <1>6, <2>1, <2>2
<1>8. CASE StrayLands
  BY Zenon, <1>6, <1>8 DEF StrayLands, StrayInv
<1>9. CASE StartRuntime \/ StartFails
  <2>1. /\ generation' = generation + 1 /\ generation' \in Generations
        /\ UNCHANGED <<records, head>>
    BY <1>9 DEF StartRuntime, StartFails
  <2>2. Owner' = OwnerOf(generation')
    BY DEF Owner
  <2>3. Owner'.fence \in Fences /\ Owner'.fence.generation = generation'
    BY Zenon, <2>1, <2>2, OwnerFacts
  <2>4. Owner'.fence.generation > Owner.fence.generation
    BY SMTT(40), Zenon, <1>2, <2>1, <2>3, GenerationsAssumption
  <2> QED
    BY ZenonT(40), <2>1, <2>3, <2>4, SameReducer DEF Journal!Next, Journal!AdvanceFence
<1>10. CASE /\ ~ReceiveSubmit /\ ~Transition /\ ~Commit /\ ~StrayLands
            /\ ~StartRuntime /\ ~StartFails
  <2>1. Quiet
    BY ZenonT(40), <1>10 DEF Next, ActorNext, DriverNext, vars, durable, Submit, Request, Shutdown,
       ClientSends, ReceiveRequest, ReceiveIndeterminate, ReceiveOpenAdmission,
       ReceiveShutdown, Receive, TransitionFails, Prepare, EffectRefused, AtStage,
       StartRecovery, LoadPage, RecoverRow, CloseBeforeOpening, OpenCommandAdmission,
       DriverStep, AbandonRecovery, DropRuntime, Crash, ExitAfterDrop, ProcessEnds
  <2> QED
    BY Zenon, <1>1, <2>1
<1> QED
  BY ZenonT(40), <1>4, <1>5, <1>7, <1>8, <1>9, <1>10

\* The runtime implements the journal: through crashes, takeovers, replays and
\* lost acknowledgements, it writes only what CommandJournal allows.
THEOREM RuntimeImplementsJournal == Spec => ImplementsJournal
<1>1. Init => Journal!Init
  BY Zenon, OwnerFacts, RuntimeAssumption, SameReducer DEF Init, Journal!Init, Owner
<1>2. RuntimeInv /\ [Next]_vars => [Journal!Next]_Journal!journalVars
  BY JournalSteps DEF Journal!journalVars
<1> QED
  BY <1>1, <1>2, RuntimeInit, RuntimeStep, PTL DEF Spec, ImplementsJournal, Journal!Spec

-----------------------------------------------------------------------------
(* The ledger.                                                             *)

Outcomes == [op \in Ops |-> OutcomeOf(op)]
Effects == [op \in Ops |-> Cardinality({i \in DOMAIN target : target[i].op = op})]

\* Under ExactlyOnce an operation's effects are one or none.
LEMMA EffectsCount ==
    ASSUME ExactlyOnce
    PROVE  Effects = [op \in Ops |-> IF Landed(op) THEN 1 ELSE 0]
<1>1. ASSUME NEW op
      PROVE  Cardinality({i \in DOMAIN target : target[i].op = op}) = IF Landed(op) THEN 1 ELSE 0
  <2>1. CASE Landed(op)
    <3>1. PICK i \in DOMAIN target : target[i].op = op
      BY Zenon, <2>1 DEF Landed
    <3>2. {j \in DOMAIN target : target[j].op = op} = {i}
      BY Zenon, <3>1 DEF ExactlyOnce
    <3> QED
      BY Zenon, <2>1, <3>2, FS_Singleton
  <2>2. CASE ~Landed(op)
    <3>1. {j \in DOMAIN target : target[j].op = op} = {}
      BY Zenon, <2>2 DEF Landed
    <3> QED
      BY Zenon, <2>2, <3>1, FS_EmptySet
  <2> QED
    BY Zenon, <2>1, <2>2
<1> QED
  BY Zenon, <1>1 DEF Effects

\* Operations are unique in the journal, so the outcome of one is its row's.
LEMMA OutcomeIsRows ==
    ASSUME \A r1, r2 \in records : r1.command.op = r2.command.op => r1 = r2
    PROVE  /\ \A op : (\A rec \in records : rec.command.op # op) => OutcomeOf(op) = "absent"
           /\ \A rec \in records : OutcomeOf(rec.command.op) =
                IF Terminal(rec) THEN rec.state.kind ELSE "pending"
<1>1. ASSUME NEW op, \A rec \in records : rec.command.op # op
      PROVE  OutcomeOf(op) = "absent"
  BY Zenon, <1>1 DEF OutcomeOf
<1>2. ASSUME NEW rec \in records
      PROVE  OutcomeOf(rec.command.op) = IF Terminal(rec) THEN rec.state.kind ELSE "pending"
  <2>1. {r \in records : r.command.op = rec.command.op} = {rec}
    OBVIOUS
  <2>2. (CHOOSE r \in {rec} : TRUE) = rec
    OBVIOUS
  <2> QED
    BY <2>1, <2>2 DEF OutcomeOf
<1> QED
  BY Zenon, <1>1, <1>2

\* What a runtime step does to the ledger's variables.
LEMMA LedgerSteps ==
    ASSUME RuntimeInv, RuntimeInv', [Next]_vars
    PROVE  Ledger!Next \/ UNCHANGED <<Outcomes, Effects>>
<1> USE DEF RuntimeInv
<1>1. /\ Effects = [op \in Ops |-> IF Landed(op) THEN 1 ELSE 0]
      /\ Effects' = [op \in Ops |-> IF Landed(op)' THEN 1 ELSE 0]
  <2>1. ExactlyOnce /\ ExactlyOnce'
    BY DEF DurableInv
  <2>2. Effects = [op \in Ops |-> IF Landed(op) THEN 1 ELSE 0]
    BY <2>1, EffectsCount
  <2>3. (Effects = [op \in Ops |-> IF Landed(op) THEN 1 ELSE 0])'
    BY <2>1, EffectsCount, PTL
  <2> QED
    BY ZenonT(40), <2>2, <2>3
<1>2. /\ \A op : (\A rec \in records : rec.command.op # op) => OutcomeOf(op) = "absent"
      /\ \A rec \in records : OutcomeOf(rec.command.op) =
           IF Terminal(rec) THEN rec.state.kind ELSE "pending"
  BY OutcomeIsRows DEF DurableInv
<1>3. /\ \A op : (\A rec \in records' : rec.command.op # op) => OutcomeOf(op)' = "absent"
      /\ \A rec \in records' : OutcomeOf(rec.command.op)' =
           IF Terminal(rec) THEN rec.state.kind ELSE "pending"
  <2>1. (\A r1, r2 \in records : r1.command.op = r2.command.op => r1 = r2)'
    BY DEF DurableInv
  <2>2. (/\ \A op : (\A rec \in records : rec.command.op # op) => OutcomeOf(op) = "absent"
         /\ \A rec \in records : OutcomeOf(rec.command.op) =
              IF Terminal(rec) THEN rec.state.kind ELSE "pending")'
    BY <2>1, OutcomeIsRows, PTL
  <2> QED
    BY ZenonT(40), <2>2
<1>4. ASSUME NEW o, {r \in records' : r.command.op = o} = {r \in records : r.command.op = o}
      PROVE  OutcomeOf(o)' = OutcomeOf(o)
  <2>1. CASE \A rec \in records : rec.command.op # o
    BY Zenon, <1>2, <1>3, <1>4, <2>1
  <2>2. CASE \E rec \in records : rec.command.op = o
    BY ZenonT(40), <1>2, <1>3, <1>4, <2>2
  <2> QED
    BY Zenon, <2>1, <2>2
<1>5. ASSUME UNCHANGED target PROVE Effects' = Effects /\ \A op : Landed(op)' <=> Landed(op)
  BY <1>5 DEF Effects, Landed
<1>6. ASSUME UNCHANGED records PROVE Outcomes' = Outcomes
  BY Zenon, <1>4, <1>6 DEF Outcomes
<1>7. CASE ReceiveSubmit /\ records' # records
  <2>0. PICK command : command = Head(queue).command
    BY Zenon
  <2>1. Head(queue) \in Messages /\ Head(queue).kind = "Submit" /\ UNCHANGED target
    BY ZenonT(40), <1>7, ReceiveTypes DEF ReceiveSubmit, Receive
  <2>2. command.op \in Ops
    BY Zenon, <2>0, <2>1 DEF Messages, FabricCommands
  <2>3. PICK rec \in Admit(command, Context, TRUE) :
          LookupAdmission(command) = {} /\ records' = records \cup {rec}
    BY ZenonT(40), <1>7, <2>0 DEF ReceiveSubmit
  <2>4. rec.command = command /\ ~Terminal(rec)
    BY SMTT(40), Zenon, <2>3 DEF Admit, When, Terminal
  <2>5. OutcomeOf(command.op) = "absent" /\ OutcomeOf(command.op)' = "pending"
    BY ZenonT(40), <1>2, <1>3, <2>3, <2>4 DEF LookupAdmission
  <2>6. ASSUME NEW o \in Ops, o # command.op PROVE OutcomeOf(o)' = OutcomeOf(o)
    BY Zenon, <1>4, <2>3, <2>4, <2>6
  <2>7. Outcomes' = [Outcomes EXCEPT ![command.op] = "pending"]
    BY Zenon, <2>2, <2>5, <2>6 DEF Outcomes
  <2>8. Ledger!Accept(command.op)
    BY ZenonT(40), <1>5, <2>1, <2>2, <2>5, <2>7 DEF Ledger!Accept, Outcomes, Effects
  <2> QED
    BY Zenon, <2>2, <2>8 DEF Ledger!Next
<1>8. CASE Transition
  <2>0. PICK row, event : row = job.row /\ event = job.event
    BY Zenon
  <2>1. /\ row \in records /\ row \in CommandRecords /\ event \in CommandEvents
        /\ UNCHANGED target /\ ValidPersisted(row)
    BY ZenonT(40), <1>8, <2>0, JobTypes DEF Transition, AtStage, DurableInv
  <2>2. PICK next \in Reduce(row, event, Context) : records' = (records \ {row}) \cup {next}
    BY Zenon, <1>8, <2>0 DEF Transition, Answers, When
  <2>3. next.command = row.command /\ (Terminal(row) => next = row) /\ row.command.op \in Ops
    <3>1. PICK context : next \in Reduce(row, event, context)
      BY ZenonT(40), <2>2
    <3>2. next.command = row.command /\ (Terminal(row) => next = row)
      BY <2>1, <3>1, ReduceShape
    <3>3. row.command.op \in Ops
      BY Zenon, <2>1 DEF CommandRecords, FabricCommands
    <3> QED
      BY <3>2, <3>3, Zenon
  <2>4. ASSUME NEW o \in Ops, o # row.command.op PROVE OutcomeOf(o)' = OutcomeOf(o)
    BY ZenonT(40), <1>4, <2>1, <2>2, <2>3, <2>4
  <2>5. /\ OutcomeOf(row.command.op) = IF Terminal(row) THEN row.state.kind ELSE "pending"
        /\ OutcomeOf(row.command.op)' = IF Terminal(next) THEN next.state.kind ELSE "pending"
    BY ZenonT(40), <1>2, <1>3, <2>1, <2>2, <2>3
  <2>6. CASE Terminal(row)
    BY ZenonT(40), <1>5, <1>6, <2>1, <2>2, <2>3, <2>6
  <2>7. CASE ~Terminal(row) /\ ~Terminal(next)
    <3>1. Outcomes' = Outcomes
      BY ZenonT(40), <2>4, <2>5, <2>7 DEF Outcomes
    <3> QED
      BY Zenon, <1>5, <2>1, <3>1
  <2>8. CASE ~Terminal(row) /\ Terminal(next)
    <3>1. Outcomes' = [Outcomes EXCEPT ![row.command.op] = next.state.kind]
      BY ZenonT(40), <2>3, <2>4, <2>5, <2>8 DEF Outcomes
    <3>2. RowAgrees(next)'
      BY Zenon, <2>2 DEF DurableInv
    <3>3. MarkerPresent(next)' => Landed(next.command.op)'
      BY Zenon DEF MarkerPresent, Landed
    <3>4. next.state.kind \in IF Landed(row.command.op) THEN {"Succeeded"}
                              ELSE {"Failed", "Cancelled"}
      BY ZenonT(40), <1>5, <2>1, <2>3, <2>8, <3>2, <3>3 DEF RowAgrees, Terminal
    <3>5. Outcomes[row.command.op] = "pending"
      BY Zenon, <2>3, <2>5, <2>8 DEF Outcomes
    <3>6. Effects[row.command.op] = IF Landed(row.command.op) THEN 1 ELSE 0
      BY Zenon, <1>1, <2>3
    <3>7. next.state.kind \in IF Effects[row.command.op] = 1 THEN {"Succeeded"}
                              ELSE {"Failed", "Cancelled"}
      BY <3>4, <3>6
    <3>8. Ledger!Settle(row.command.op)
      BY ZenonT(40), <1>5, <2>1, <3>1, <3>5, <3>7 DEF Ledger!Settle, Outcomes, Effects
    <3> QED
      BY Zenon, <2>3, <3>8 DEF Ledger!Next
  <2> QED
    BY Zenon, <2>6, <2>7, <2>8
<1>9. ASSUME NEW row, Committable(row), Land(row), UNCHANGED <<records, generation>>
      PROVE  Ledger!Next
  <2> DEFINE op == row.command.op
  <2>1. row \in records /\ op \in Ops /\ ~Terminal(row) /\ ~Landed(op)
    BY Zenon, <1>9 DEF Committable, TypeOK, CommandRecords, FabricCommands, Terminal
  <2>2. MarkerPresent(row)'
    BY Zenon, <1>9, LandStep
  <2>3. Landed(op)'
    BY Zenon, <2>2 DEF MarkerPresent, Landed
  <2>4. \A o : o # op => (Landed(o)' <=> Landed(o))
    <3>1. target \in Seq(Commits) /\ target' = Append(target, CommitOf(row)) /\ CommitOf(row).op = op
      BY ZenonT(40), <1>9 DEF Land, CommitOf, TypeOK
    <3>2. /\ DOMAIN target = 1..Len(target) /\ DOMAIN target' = 1..(Len(target) + 1)
          /\ \A i \in 1..Len(target) : target'[i] = target[i]
          /\ target'[Len(target) + 1] = CommitOf(row)
      <4>1. target' \in Seq(Commits)
        BY DEF TypeOK
      <4> QED
        BY <3>1, <4>1
    <3> QED
      BY SMTT(40), Zenon, <3>1, <3>2 DEF Landed
  <2>5. Effects' = [Effects EXCEPT ![op] = 1]
    BY ZenonT(40), <1>1, <2>1, <2>3, <2>4
  <2>6. Outcomes[op] = "pending" /\ Effects[op] = 0
    BY Zenon, <1>1, <1>2, <2>1 DEF Outcomes
  <2>7. Ledger!TakeEffect(op)
    BY Zenon, <1>6, <1>9, <2>5, <2>6 DEF Ledger!TakeEffect, Outcomes, Effects
  <2> QED
    BY ZenonT(40), <2>1, <2>7 DEF Ledger!Next
<1>10. CASE Commit
  <2>1. UNCHANGED <<records, generation>> /\ (Land(job.row) \/ UNCHANGED target)
    BY <1>10 DEF Commit, AtStage
  <2>2. Committable(job.row)
    BY Zenon, <1>10 DEF Commit, AtStage, JobInv
  <2> QED
    BY ZenonT(40), <1>5, <1>6, <1>9, <2>1, <2>2
<1>11. CASE StrayLands
  BY Zenon, <1>9, <1>11 DEF StrayLands, StrayInv
<1>12. CASE UNCHANGED <<records, target>>
  BY Zenon, <1>5, <1>6, <1>12
<1>13. CASE ~ReceiveSubmit /\ ~Transition /\ ~Commit /\ ~StrayLands
  <2>1. UNCHANGED <<records, target>>
    BY ZenonT(40), <1>13 DEF Next, ActorNext, DriverNext, vars, durable, Submit, Request, Shutdown,
       ClientSends, ReceiveRequest, ReceiveIndeterminate, ReceiveOpenAdmission,
       ReceiveShutdown, Receive, TransitionFails, Prepare, EffectRefused,
       StartRecovery, LoadPage, RecoverRow, CloseBeforeOpening, OpenCommandAdmission,
       DriverStep, AbandonRecovery, StartRuntime, StartFails, DropRuntime, Crash,
       ExitAfterDrop, ProcessEnds
  <2> QED
    BY Zenon, <1>12, <2>1
<1>14. CASE ReceiveSubmit /\ records' = records
  <2>1. UNCHANGED <<records, target>>
    BY Zenon, <1>14 DEF ReceiveSubmit, Receive
  <2> QED
    BY <1>12, <2>1
<1> QED
  BY ZenonT(40), <1>7, <1>8, <1>10, <1>11, <1>13, <1>14

\* The runtime keeps the ledger's promise: an accepted operation takes effect at
\* most once, while it is pending, and its final answer says whether it did.
THEOREM RuntimeImplementsLedger == Spec => ImplementsLedger
<1>1. Init => Ledger!Init
  <2> SUFFICES ASSUME Init PROVE Ledger!Init
    OBVIOUS
  <2>1. \A op : OutcomeOf(op) = "absent"
    BY DEF Init, OutcomeOf
  <2>2. \A op : ~Landed(op)
    BY DEF Init, Landed
  <2>3. ExactlyOnce
    BY DEF Init, ExactlyOnce
  <2>4. Effects = [op \in Ops |-> 0]
    BY Zenon, <2>2, <2>3, EffectsCount
  <2> QED
    BY Zenon, <2>1, <2>4 DEF Ledger!Init, Effects
<1>2. RuntimeInv /\ RuntimeInv' /\ [Next]_vars => [Ledger!Next]_Ledger!ledgerVars
  BY Zenon, LedgerSteps DEF Ledger!ledgerVars, Outcomes, Effects
<1> QED
  BY <1>1, <1>2, RuntimeInit, RuntimeStep, PTL DEF Spec, ImplementsLedger, Ledger!Spec

-----------------------------------------------------------------------------
(* The runtime and its writer authority.                                   *)

\* What a step does to the authority: a start takes a new generation, a failed
\* one burns it, an end releases it, and a commit lands only while it is held.
LEMMA AuthoritySteps ==
    ASSUME RuntimeInv, RuntimeInv', [Next]_vars
    PROVE  \/ /\ runtime = "down" /\ generation' = generation + 1 /\ target' = target
           \/ /\ runtime # "down" /\ generation' = generation /\ target' = target
           \/ /\ runtime # "down" /\ runtime' = runtime /\ generation' = generation
              /\ target' # target
           \/ UNCHANGED <<runtime, generation, target>>
<1>1. CASE StartRuntime \/ StartFails
  BY Zenon, <1>1 DEF StartRuntime, StartFails
<1>2. CASE ReceiveShutdown \/ DropRuntime \/ Crash \/ ExitAfterDrop
  BY <1>2 DEF ReceiveShutdown, DropRuntime, Crash, ExitAfterDrop, ProcessEnds, durable
<1>3. CASE Commit
  <2>1. runtime = "up" /\ runtime' = runtime /\ generation' = generation
    BY Zenon, <1>3 DEF Commit, AtStage
  <2> QED
    BY Zenon, <2>1
<1>4. CASE StrayLands
  <2>1. runtime # "down" /\ runtime' = runtime /\ generation' = generation
    BY <1>4 DEF StrayLands, RuntimeInv, StrayInv
  <2> QED
    BY Zenon, <2>1
<1>5. CASE UNCHANGED <<runtime, generation, target>>
  BY Zenon, <1>5
<1>6. \/ StartRuntime \/ StartFails
      \/ ReceiveShutdown \/ DropRuntime \/ Crash \/ ExitAfterDrop
      \/ Commit \/ StrayLands
      \/ UNCHANGED <<runtime, generation, target>>
  BY ZenonT(40) DEF Next, ActorNext, DriverNext, vars, durable, Submit, Request, Shutdown,
     ClientSends, ReceiveSubmit, ReceiveRequest, ReceiveIndeterminate,
     ReceiveOpenAdmission, Receive, AtStage, Transition, TransitionFails, Prepare,
     EffectRefused, StartRecovery, LoadPage, RecoverRow, CloseBeforeOpening,
     OpenCommandAdmission, DriverStep, AbandonRecovery
<1> QED
  BY ZenonT(40), <1>1, <1>2, <1>3, <1>4, <1>5, <1>6

\* The command runtime needs no more of its writer lease than WriterAuthority
\* promises (and WriterLease provides), and every effect that lands is a write
\* of the authority it holds.
THEOREM RuntimeImplementsAuthority == Spec => ImplementsAuthority
<1>1. Init => Authority!Init
  BY DEF Init, Authority!Init, LastWriter
<1>2. ASSUME RuntimeInv, RuntimeInv', [Next]_vars
      PROVE  Authority!Next \/ UNCHANGED Authority!authorityVars
  <2>1. CASE target' = target
    <3>1. LastWriter' = LastWriter
      BY Zenon, <2>1 DEF LastWriter
    <3>2. CASE runtime = "down" /\ generation' = generation + 1
      BY Zenon, <3>1, <3>2 DEF Authority!Next, Authority!Grant, Authority!Burn
    <3>3. CASE runtime # "down" /\ generation' = generation
      BY Zenon, <3>1, <3>3 DEF Authority!Next, Authority!Release, Authority!authorityVars
    <3>4. CASE UNCHANGED <<runtime, generation>>
      BY Zenon, <3>1, <3>4 DEF Authority!authorityVars
    <3> QED
      BY ZenonT(40), <1>2, <2>1, <3>2, <3>3, <3>4, AuthoritySteps
  <2>2. CASE target' # target
    <3>1. runtime # "down" /\ runtime' = runtime /\ generation' = generation
      BY Zenon, <1>2, <2>2, AuthoritySteps
    <3>2. target' # <<>> /\ target'[Len(target')].generation = generation
      BY Zenon, <1>2, <2>2, LandingIsCurrent
    <3>3. LastWriter' = generation
      BY Zenon, <3>2 DEF LastWriter
    <3> QED
      BY Zenon, <3>1, <3>3 DEF Authority!Next, Authority!Write
  <2> QED
    BY Zenon, <2>1, <2>2
<1>3. RuntimeInv /\ RuntimeInv' /\ [Next]_vars => [Authority!Next]_Authority!authorityVars
  BY <1>2
<1> QED
  BY <1>1, <1>3, RuntimeInit, RuntimeStep, PTL DEF Spec, ImplementsAuthority, Authority!Spec
=============================================================================
