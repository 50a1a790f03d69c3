-------------------------- MODULE EpochActivation --------------------------
(***************************************************************************)
(* Activation of epochs in one workspace: the coordinator of               *)
(* fabric/activation_transaction.rs (`activate` and `recover`) with the    *)
(* ports production gives it: the control relation's chain and operation   *)
(* marker (activation_control_delta.rs), the admission gate (admission.rs) *)
(* and workspace slot (production_kernel.rs) behind                        *)
(* programmatic_activation_admission.rs, and the durable tickets of        *)
(* programmatic_activation_command_sqlite.rs. The command actor runs one   *)
(* activation at a time; what it writes to the journal is the record here. *)
(* Around it: process ends and restarts (production_workspace_startup.rs), *)
(* and queries, which lease the slot and are then admitted by the gate.    *)
(*                                                                         *)
(* Activation n selects epoch n; 0 is the empty head. A fence is its       *)
(* generation, which every start renews. The pin of a control provider is  *)
(* the length of the chain it reads.                                       *)
(***************************************************************************)
EXTENDS Naturals, Sequences, FiniteSets

CONSTANTS
    MaxOps,         \* bound: activations the workspace is asked for
    Queries,        \* queries a client may run
    FaultKinds,     \* the failures the environment may inject
    MaxFaults,      \* bound: how many of them
    MaxAttempt,     \* bound: executions of one activation
    MaxSweeps,      \* recovery sweeps of one startup (8 in the code)
    MaxGeneration   \* bound: writer generations told apart

ASSUME ActivationAssumption ==
    /\ MaxOps \in Nat \ {0} /\ MaxFaults \in Nat /\ MaxAttempt \in Nat \ {0}
    /\ MaxSweeps \in Nat \ {0} /\ MaxGeneration \in Nat \ {0}
    /\ FaultKinds \subseteq {"append", "authority", "build", "cache", "acknowledge",
                             "marker", "store", "record", "drain", "crash"}

VARIABLES
    chain,       \* durable: the activation events, oldest first
    record,      \* durable: the command record of each activation
    ticket,      \* durable: the reconciliation row of each activation
    generation,  \* durable: the newest writer generation
    process,     \* "down", "booting", "starting", "up" or "draining"
    sweeps,      \* recovery sweeps this startup has made
    gate,        \* FabricAdmissionRuntime
    slot,        \* the epoch the workspace slot serves
    pinned,      \* the control snapshot the runtime authority reads
    validated,   \* the activation whose candidate this process published
    pending,     \* the installed successor waiting for its reopening
    job,         \* the actor's activation or recovery under way
    query,       \* what each query holds
    faults       \* how many failures were injected, and of which kinds

durable == <<chain, record, ticket, generation>>
vars == <<chain, record, ticket, generation, process, sweeps, gate, slot, pinned,
          validated, pending, job, query, faults>>

Ops == 1..MaxOps

Stages == {"AuthorityRevalidation", "DurableAppendReadback", "EpochSwap",
           "CacheReconciliation", "AdmissionReopen", "Acknowledgement"}
Postures == {"Closed", "Swapped", "Reopened"}
Tickets == [stage : Stages, know : {"NotAttempted", "Unknown", "ReadBack"},
            posture : Postures, reason : {"authority", "append", "admission", "cache",
                                          "acknowledge", "marker", "mismatch"}]
NoTicket == [stage |-> "none"]
NoRow == [attempt |-> 0, ticket |-> NoTicket]

NoBarrier == [id |-> 0, head |-> 0, fence |-> 0]
NoPending == [barrier |-> NoBarrier, epoch |-> 0]
Idle == [pc |-> "idle", op |-> 0, barrier |-> NoBarrier, ticket |-> NoTicket,
         reopened |-> FALSE]

NewRecord == [state |-> "New", attempt |-> 0, fence |-> 0, head |-> 0, pin |-> 0,
              evidence |-> NoTicket]

Free == [lease |-> 0, epoch |-> 0, admission |-> 0]

Fault(kind) ==
    /\ kind \in FaultKinds /\ faults.count < MaxFaults
    /\ faults' = [count |-> faults.count + 1, kinds |-> faults.kinds \cup {kind}]

\* The head of the chain a control provider pinned at version n reads.
HeadAt(n) == IF n = 0 THEN 0 ELSE chain[n].epoch
SelectedHead == HeadAt(Len(chain))

Unsettled(op) == record[op].state # "Succeeded"
\* The activation the actor works on: they are submitted one after the other.
Current(op) == Unsettled(op) /\ \A earlier \in Ops : earlier < op => ~Unsettled(earlier)

-----------------------------------------------------------------------------
(* The gate's operations, as functions of its state.                       *)

recovery_fence_authorizes(execution, active) == active >= execution

Opened(g) == [g EXCEPT !.phase = "Open", !.barrier = NoBarrier, !.epoch = 0,
                       !.admission = @ + 1]

close_admission(g, head, fence) ==
    [g EXCEPT !.phase = "Closed", !.next = @ + 1,
              !.barrier = [id |-> g.next, head |-> head, fence |-> fence]]

\* Swapped, under the barrier the publication holds.
Published(g, barrier, epoch) ==
    [g EXCEPT !.phase = "Swapped", !.barrier = barrier, !.epoch = epoch]

\* recover_selected_epoch: the gates it accepts, and the state it leaves.
RecoveryAccepts(g, op, head, fence, active, allowOpen) ==
    \/ g.phase = "Recovering" /\ g.epoch = op
    \/ g.phase = "Closed" /\ g.barrier.head = head /\ g.barrier.fence = fence
    \/ g.phase = "Swapped" /\ g.epoch = op
          /\ recovery_fence_authorizes(g.barrier.fence, active)
    \/ g.phase = "Open" /\ allowOpen

RecoveredGate(g, op, head, active) ==
    IF g.phase \in {"Recovering", "Closed"}
    THEN [Published(g, [id |-> g.next, head |-> head, fence |-> active], op)
          EXCEPT !.next = @ + 1]
    ELSE g

\* recover_proved_no_selection: the gates it accepts.
NoSelectionAccepts(g, head, fence) ==
    \/ g.phase = "Recovering" /\ g.epoch = head
    \/ g.phase = "Closed" /\ g.barrier.head = head /\ g.barrier.fence = fence
    \/ g.phase = "Open"

NoSelectionGate(g) == IF g.phase = "Open" THEN g ELSE Opened(g)

-----------------------------------------------------------------------------
(* One execution of an activation command: activate().                     *)

\* A next activation is built on the selected workspace; one whose append is
\* proved absent is executed again as it was.
Admissible(op) ==
    \/ process = "up"
    \/ process = "starting" /\ (chain = <<>> \/ record[op].state = "RetryReady")

Begin(op) ==
    /\ Admissible(op) /\ job = Idle /\ Current(op)
    /\ record[op].state \in {"New", "RetryReady"}
    /\ record[op].attempt < MaxAttempt
    /\ record' = [record EXCEPT ![op].state = "Prepared", ![op].attempt = @ + 1,
                                ![op].fence = generation,
                                ![op].evidence = NoTicket,
                                ![op].head = IF record[op].state = "New" THEN slot ELSE @,
                                ![op].pin = IF record[op].state = "New" THEN pinned ELSE @]
    /\ validated' = IF record[op].state = "New" THEN op ELSE validated
    /\ job' = [Idle EXCEPT !.pc = "prove", !.op = op]
    /\ UNCHANGED <<chain, ticket, generation, process, sweeps, gate, slot, pinned, pending,
                   query, faults>>

At(pc) == job.pc = pc /\ UNCHANGED <<generation, sweeps, validated, query>>
This == record[job.op]
Go(pc) == job' = [job EXCEPT !.pc = pc]

\* reconciliation(): the ticket to persist before the outcome is reported.
Needs(pc, stage, know, posture, reason) ==
    job' = [job EXCEPT !.pc = pc,
                       !.ticket = [stage |-> stage, know |-> know, posture |-> posture,
                                   reason |-> reason]]

\* NotSelected has no stored classification, so the effect fails and the
\* record stays where it is: commit prepared, its outcome unrecorded.
Abandon == job' = Idle

CloseAdmission ==
    /\ At("prove")
    /\ IF validated = job.op /\ gate.phase = "Open"
       THEN /\ gate' = close_admission(gate, This.head, This.fence)
            /\ job' = [job EXCEPT !.pc = "revalidate", !.barrier = gate'.barrier]
       ELSE Abandon /\ UNCHANGED gate
    /\ UNCHANGED <<chain, record, ticket, process, slot, pinned, pending, faults>>

Revalidate ==
    /\ At("revalidate")
    /\ \/ /\ UNCHANGED faults
          /\ IF generation = This.fence /\ HeadAt(pinned) = This.head
             THEN Go("append")
             ELSE Needs("persist", "AuthorityRevalidation", "NotAttempted", "Closed", "authority")
       \/ /\ Fault("authority")
          /\ Needs("persist", "AuthorityRevalidation", "NotAttempted", "Closed", "authority")
    /\ UNCHANGED <<chain, record, ticket, process, gate, slot, pinned, pending>>

Event == [epoch |-> job.op, predecessor |-> This.head, fence |-> This.fence]

\* Delta accepts the append only at the version after the pinned one.
Lands == chain' = IF Len(chain) = This.pin THEN Append(chain, Event) ELSE chain

Uncertain == Needs("persist", "DurableAppendReadback", "Unknown", "Closed", "append")

\* Mutant: an append whose acknowledgement is lost is published all the same.
AppendTrusted ==
    /\ At("append")
    /\ \/ Lands /\ UNCHANGED faults
       \/ Fault("append") /\ UNCHANGED chain
    /\ pinned' = Len(chain') /\ Go("publish")
    /\ UNCHANGED <<record, ticket, process, gate, slot, pending>>

\* append_and_readback. Whatever goes wrong is Unknown: the event may be
\* durable, with its acknowledgement or its readback lost, or absent.
AppendAndReadback ==
    /\ At("append")
    /\ \/ /\ UNCHANGED faults
          /\ IF pinned = This.pin /\ Len(chain) = This.pin
             THEN Lands /\ pinned' = pinned + 1 /\ Go("publish")
             ELSE Uncertain /\ UNCHANGED <<chain, pinned>>
       \/ Fault("append") /\ (Lands \/ UNCHANGED chain) /\ Uncertain /\ UNCHANGED pinned
    /\ UNCHANGED <<record, ticket, process, gate, slot, pending>>

Unpublished ==
    /\ Needs("persist", "EpochSwap", "ReadBack", "Closed", "admission")
    /\ UNCHANGED gate

\* install_successor up to the gate: the workspace is built, then published.
PublishSelected ==
    /\ At("publish")
    /\ \/ /\ UNCHANGED faults
          /\ IF gate.phase = "Closed" /\ gate.barrier = job.barrier
             THEN gate' = Published(gate, job.barrier, job.op) /\ Go("swap")
             ELSE Unpublished
       \/ Fault("build") /\ Unpublished
    /\ UNCHANGED <<chain, record, ticket, process, slot, pinned, pending>>

\* The rest of install_successor: the slot serves the successor.
SwapSlot ==
    /\ At("swap")
    /\ slot' = job.op
    /\ pending' = [barrier |-> job.barrier, epoch |-> job.op]
    /\ Go("cache")
    /\ UNCHANGED <<chain, record, ticket, process, gate, pinned, faults>>

ReconcileCache ==
    /\ At("cache")
    /\ \/ Go("reopen") /\ UNCHANGED faults
       \/ /\ Fault("cache")
          /\ Needs("persist", "CacheReconciliation", "ReadBack", "Swapped", "cache")
    /\ UNCHANGED <<chain, record, ticket, process, gate, slot, pinned, pending>>

\* reconcile_and_reopen.
Reopen ==
    /\ At("reopen")
    /\ IF pending = [barrier |-> job.barrier, epoch |-> job.op] /\ slot = job.op
       THEN gate' = Opened(gate) /\ pending' = NoPending /\ Go("acknowledge")
       ELSE /\ Needs("persist", "AdmissionReopen", "ReadBack", "Swapped", "admission")
            /\ UNCHANGED <<gate, pending>>
    /\ UNCHANGED <<chain, record, ticket, process, slot, pinned, faults>>

Acknowledge ==
    /\ At("acknowledge")
    /\ \/ Go("settle") /\ UNCHANGED faults
       \/ /\ Fault("acknowledge")
          /\ Needs("persist", "Acknowledgement", "ReadBack", "Reopened", "acknowledge")
    /\ UNCHANGED <<chain, record, ticket, process, gate, slot, pinned, pending>>

\* The effect reports Committed; the actor records it.
Settle ==
    /\ At("settle")
    /\ \/ record' = [record EXCEPT ![job.op].state = "Succeeded"] /\ UNCHANGED faults
       \/ Fault("record") /\ UNCHANGED record
    /\ job' = Idle
    /\ UNCHANGED <<chain, ticket, process, gate, slot, pinned, pending>>

\* persist_reconciliation_sync: the row of another attempt is a corrupt one.
PersistTicket ==
    /\ At("persist")
    /\ \/ /\ UNCHANGED faults
          /\ IF ticket[job.op].attempt \in {0, This.attempt}
             THEN /\ ticket' = [ticket EXCEPT ![job.op] = [attempt |-> This.attempt,
                                                           ticket |-> job.ticket]]
                  /\ Go("await")
             ELSE Abandon /\ UNCHANGED ticket
       \/ Fault("store") /\ Abandon /\ UNCHANGED ticket
    /\ UNCHANGED <<chain, record, process, gate, slot, pinned, pending>>

\* The effect reports Unknown; the actor records that it awaits reconciliation.
Await ==
    /\ At("await")
    /\ \/ record' = [record EXCEPT ![job.op].state = "Awaiting"] /\ UNCHANGED faults
       \/ Fault("record") /\ UNCHANGED record
    /\ job' = Idle
    /\ UNCHANGED <<chain, ticket, process, gate, slot, pinned, pending>>

-----------------------------------------------------------------------------
(* One reconciliation of an awaiting record: reconcile() and recover().    *)

\* Mutant: a failed publication is expected to have swapped the gate.
CausalAfterSwap(t) ==
    CASE t.stage = "AuthorityRevalidation" -> t.posture = "Closed" /\ t.know = "NotAttempted"
      [] t.stage = "DurableAppendReadback" -> t.posture = "Closed" /\ t.know # "ReadBack"
      [] t.stage = "AdmissionReopen" -> t.posture # "Reopened"
      [] t.stage = "Acknowledgement" -> t.posture = "Reopened" /\ t.know = "ReadBack"
      [] OTHER -> t.posture = "Swapped" /\ t.know = "ReadBack"

recovery_stage_is_causal(t) ==
    CASE t.stage = "AuthorityRevalidation" -> t.posture = "Closed" /\ t.know = "NotAttempted"
      [] t.stage = "DurableAppendReadback" -> t.posture = "Closed" /\ t.know # "ReadBack"
      [] t.stage = "EpochSwap" -> t.posture = "Closed" /\ t.know = "ReadBack"
      [] t.stage = "CacheReconciliation" -> t.posture = "Swapped" /\ t.know = "ReadBack"
      [] t.stage = "AdmissionReopen" -> \/ t.posture = "Closed" /\ t.know = "NotAttempted"
                                        \/ t.posture = "Swapped" /\ t.know = "ReadBack"
      [] t.stage = "Acknowledgement" -> t.posture = "Reopened" /\ t.know = "ReadBack"

\* A failed reconciliation ends a startup; the update loop of a running
\* workspace will ask for another.
Fails == job' = Idle /\ process' = IF process = "starting" THEN "down" ELSE process

\* load_reconciliation, then the checks of recover() before it reads anything.
LoadTicket(op) ==
    /\ process = "up" \/ (process = "starting" /\ sweeps < MaxSweeps)
    /\ job = Idle /\ Current(op) /\ record[op].state = "Awaiting"
    /\ LET row == ticket[op]
           loaded == [Idle EXCEPT !.op = op, !.ticket = row.ticket]
       IN IF \/ row.attempt # record[op].attempt
             \/ record[op].evidence \notin {NoTicket, row.ticket}
          THEN Fails
          ELSE /\ UNCHANGED process
               /\ job' = IF recovery_stage_is_causal(row.ticket)
                         THEN [loaded EXCEPT !.pc = "marker"]
                         ELSE [loaded EXCEPT !.pc = "repersist",
                                             !.ticket.know = "Unknown",
                                             !.ticket.reason = "mismatch"]
    /\ UNCHANGED <<durable, sweeps, gate, slot, pinned, validated, pending, query, faults>>

\* reconcile_uncertain_delta_commit reads the version after the request's pin.
Selected == Len(chain) > This.pin /\ chain[This.pin + 1].epoch = job.op
ProvedAbsent == Len(chain) = This.pin

MarkerUnknown ==
    /\ Needs("repersist", "DurableAppendReadback", job.ticket.know, job.ticket.posture, "marker")
    /\ UNCHANGED <<gate, pinned>>

ProvedNotSelected ==
    /\ UNCHANGED pinned
    /\ IF job.ticket.know = "ReadBack" \/ SelectedHead # This.head
       THEN /\ Needs("repersist", "DurableAppendReadback", "Unknown", job.ticket.posture,
                     "mismatch")
            /\ UNCHANGED gate
       ELSE IF NoSelectionAccepts(gate, This.head, This.fence)
       THEN gate' = NoSelectionGate(gate) /\ Go("retry")
       ELSE /\ Needs("repersist", "AdmissionReopen", "NotAttempted", job.ticket.posture,
                     "admission")
            /\ UNCHANGED gate

\* Mutant: a marker that cannot be read counts as absent.
ReadMarkerAbsentWhenUnknown ==
    /\ At("marker")
    /\ \/ /\ Selected /\ pinned' = This.pin + 1 /\ Go("recover")
          /\ UNCHANGED <<gate, faults>>
       \/ ProvedAbsent /\ ProvedNotSelected /\ UNCHANGED faults
       \/ Fault("marker") /\ Go("retry") /\ UNCHANGED <<gate, pinned>>
    /\ UNCHANGED <<chain, record, ticket, process, slot, pending>>

ReadMarker ==
    /\ At("marker")
    /\ \/ /\ UNCHANGED faults
          /\ CASE Selected -> pinned' = This.pin + 1 /\ Go("recover") /\ UNCHANGED gate
               [] ProvedAbsent -> ProvedNotSelected
               [] OTHER -> MarkerUnknown
       \/ Fault("marker") /\ MarkerUnknown
    /\ UNCHANGED <<chain, record, ticket, process, slot, pending>>

Unrecovered ==
    /\ Needs("repersist", "EpochSwap", "ReadBack", job.ticket.posture, "admission")
    /\ UNCHANGED gate

\* recover_selected_epoch up to the gate: the workspace is rebuilt first.
RecoverSelected ==
    /\ At("recover")
    /\ \/ /\ UNCHANGED faults
          /\ IF RecoveryAccepts(gate, job.op, This.head, This.fence, generation,
                                job.ticket.posture = "Reopened")
             THEN /\ gate' = RecoveredGate(gate, job.op, This.head, generation)
                  /\ job' = [job EXCEPT !.pc = "reslot", !.reopened = gate.phase = "Open"]
             ELSE Unrecovered
       \/ Fault("build") /\ Unrecovered
    /\ UNCHANGED <<chain, record, ticket, process, slot, pinned, pending>>

\* The rest of recover_selected_epoch: the slot serves the selected epoch.
RecoverSlot ==
    /\ At("reslot")
    /\ slot' = job.op /\ Go("recache")
    /\ UNCHANGED <<chain, record, ticket, process, gate, pinned, pending, faults>>

\* Mutant: a recovered selection is acknowledged without being reopened.
RecoverCacheOnly ==
    /\ At("recache") /\ Go("reacknowledge")
    /\ UNCHANGED <<chain, record, ticket, process, gate, slot, pinned, pending, faults>>

RecoverCache ==
    /\ At("recache")
    /\ \/ Go(IF job.reopened THEN "reacknowledge" ELSE "rereopen") /\ UNCHANGED faults
       \/ /\ Fault("cache")
          /\ Needs("repersist", "CacheReconciliation", "ReadBack",
                   IF job.reopened THEN "Reopened" ELSE "Swapped", "cache")
    /\ UNCHANGED <<chain, record, ticket, process, gate, slot, pinned, pending>>

\* reopen_recovered_selection.
RecoverReopen ==
    /\ At("rereopen")
    /\ IF /\ slot = job.op /\ gate.phase = "Swapped" /\ gate.epoch = job.op
          /\ recovery_fence_authorizes(gate.barrier.fence, generation)
       THEN gate' = Opened(gate) /\ Go("reacknowledge")
       ELSE /\ Needs("repersist", "AdmissionReopen", "ReadBack", "Swapped", "admission")
            /\ UNCHANGED gate
    /\ UNCHANGED <<chain, record, ticket, process, slot, pinned, pending, faults>>

RecoverAcknowledge ==
    /\ At("reacknowledge")
    /\ \/ Go("resettle") /\ UNCHANGED faults
       \/ /\ Fault("acknowledge")
          /\ Needs("repersist", "Acknowledgement", "ReadBack", "Reopened", "acknowledge")
    /\ UNCHANGED <<chain, record, ticket, process, gate, slot, pinned, pending>>

\* What the actor records of the reconciliation, unless the journal fails it.
Records(state, evidence) ==
    \/ /\ record' = [record EXCEPT ![job.op].state = state, ![job.op].evidence = evidence]
       /\ job' = Idle /\ UNCHANGED <<process, faults>>
    \/ Fault("record") /\ Fails /\ UNCHANGED record

RecoverSettle ==
    /\ At("resettle") /\ Records("Succeeded", This.evidence)
    /\ UNCHANGED <<chain, ticket, gate, slot, pinned, pending>>

RecoverRetry ==
    /\ At("retry") /\ Records("RetryReady", This.evidence)
    /\ UNCHANGED <<chain, ticket, gate, slot, pinned, pending>>

\* Indeterminate: the next ticket is persisted, then its evidence recorded.
RepersistTicket ==
    /\ At("repersist")
    /\ \/ /\ ticket' = [ticket EXCEPT ![job.op].ticket = job.ticket]
          /\ Go("observe") /\ UNCHANGED <<process, faults>>
       \/ Fault("store") /\ Fails /\ UNCHANGED ticket
    /\ UNCHANGED <<chain, record, gate, slot, pinned, pending>>

Observe ==
    /\ job.pc = "observe" /\ Records("Awaiting", job.ticket)
    /\ sweeps' = IF process = "starting" THEN sweeps + 1 ELSE sweeps
    /\ UNCHANGED <<chain, ticket, generation, gate, slot, pinned, validated, pending, query>>

-----------------------------------------------------------------------------
(* The process: startup, its end, and its orderly drain.                   *)

Gate(phase, epoch) ==
    [phase |-> phase, barrier |-> NoBarrier, epoch |-> epoch, admission |-> 1, next |-> 1]

\* Recovery only asks whether the active fence is the execution's or newer,
\* so generations past the bound need not be told apart. A genesis candidate
\* is published again, and may or may not be the one an earlier start asked
\* to activate; a selected workspace starts with no published candidate.
Start ==
    /\ process = "down"
    /\ generation' = IF generation < MaxGeneration THEN generation + 1 ELSE generation
    /\ gate' = IF chain = <<>> THEN Gate("Open", 0) ELSE Gate("Recovering", SelectedHead)
    /\ process' = IF chain = <<>> THEN "starting" ELSE "booting"
    /\ validated' \in IF chain = <<>> THEN {0, 1} ELSE {0}
    /\ pinned' = Len(chain) /\ slot' = 0 /\ pending' = NoPending /\ sweeps' = 0
    /\ UNCHANGED <<chain, record, ticket, job, query, faults>>

\* install_reconciled_selected_head and install_initial.
InstallHead ==
    /\ process = "booting"
    /\ \/ /\ gate' = Opened(gate) /\ slot' = gate.epoch /\ process' = "starting"
          /\ UNCHANGED faults
       \/ Fault("build") /\ process' = "down" /\ UNCHANGED <<gate, slot>>
    /\ UNCHANGED <<durable, sweeps, pinned, validated, pending, job, query>>

Obligation(op) == Current(op) /\ record[op].state \in {"Prepared", "Awaiting", "RetryReady"}

FinishStartup ==
    /\ process = "starting" /\ job = Idle
    /\ chain # <<>> /\ \A op \in Ops : ~Obligation(op)
    /\ process' = "up"
    /\ UNCHANGED <<durable, sweeps, gate, slot, pinned, validated, pending, job, query, faults>>

\* A prepared commit has no interruption diagnostic to be recovered with; an
\* awaiting one is given up after the last sweep.
RefuseStartup ==
    /\ process = "starting" /\ job = Idle
    /\ \E op \in Ops : Current(op) /\ \/ record[op].state = "Prepared"
                                      \/ record[op].state = "Awaiting" /\ sweeps = MaxSweeps
    /\ process' = "down"
    /\ UNCHANGED <<durable, sweeps, gate, slot, pinned, validated, pending, job, query, faults>>

\* shutdown(): the operations are drained, then the gate is closed if no
\* activation holds it, then the process ends.
Drain ==
    /\ process = "up" /\ job = Idle /\ Fault("drain")
    /\ gate' = IF gate.phase = "Open" THEN [gate EXCEPT !.phase = "Draining"] ELSE gate
    /\ process' = "draining"
    /\ UNCHANGED <<durable, sweeps, slot, pinned, validated, pending, job, query>>

Ends ==
    /\ process' = "down" /\ job' = Idle /\ query' = [q \in Queries |-> Free]
    /\ UNCHANGED <<durable, sweeps, gate, slot, pinned, validated, pending>>

FinishDrain == process = "draining" /\ Ends /\ UNCHANGED faults

\* The process ends, wherever it is.
Crash == process # "down" /\ Fault("crash") /\ Ends

-----------------------------------------------------------------------------
(* Queries: the slot's lease first, the gate's admission later.            *)

LeaseWorkspace(q) ==
    /\ process \in {"up", "draining"} /\ query[q] = Free /\ slot # 0
    /\ query' = [query EXCEPT ![q].lease = slot]
    /\ UNCHANGED <<durable, process, sweeps, gate, slot, pinned, validated, pending, job, faults>>

\* Mutant: a lease taken before the closure still admits.
AdmitUnlessDraining(q) ==
    /\ query[q].lease # 0 /\ query[q].epoch = 0
    /\ query' = [query EXCEPT ![q] =
                   IF gate.phase # "Draining"
                   THEN [@ EXCEPT !.epoch = query[q].lease, !.admission = gate.admission]
                   ELSE Free]
    /\ UNCHANGED <<durable, process, sweeps, gate, slot, pinned, validated, pending, job, faults>>

\* admit_selected: the epoch is the lease's, the generation the gate's.
AdmitSelected(q) ==
    /\ query[q].lease # 0 /\ query[q].epoch = 0
    /\ query' = [query EXCEPT ![q] =
                   IF gate.phase = "Open"
                   THEN [@ EXCEPT !.epoch = query[q].lease, !.admission = gate.admission]
                   ELSE Free]
    /\ UNCHANGED <<durable, process, sweeps, gate, slot, pinned, validated, pending, job, faults>>

FinishQuery(q) ==
    /\ query[q].epoch # 0
    /\ query' = [query EXCEPT ![q] = Free]
    /\ UNCHANGED <<durable, process, sweeps, gate, slot, pinned, validated, pending, job, faults>>

-----------------------------------------------------------------------------

Init ==
    /\ chain = <<>> /\ record = [op \in Ops |-> NewRecord] /\ ticket = [op \in Ops |-> NoRow]
    /\ generation = 0 /\ process = "down" /\ sweeps = 0 /\ gate = Gate("Open", 0) /\ slot = 0
    /\ pinned = 0 /\ validated = 0 /\ pending = NoPending /\ job = Idle
    /\ query = [q \in Queries |-> Free] /\ faults = [count |-> 0, kinds |-> {}]

Activate ==
    \/ \E op \in Ops : Begin(op)
    \/ CloseAdmission \/ Revalidate \/ AppendAndReadback \/ PublishSelected \/ SwapSlot
    \/ ReconcileCache \/ Reopen \/ Acknowledge \/ Settle \/ PersistTicket \/ Await

Recover ==
    \/ \E op \in Ops : LoadTicket(op)
    \/ ReadMarker \/ RecoverSelected \/ RecoverSlot \/ RecoverCache \/ RecoverReopen
    \/ RecoverAcknowledge \/ RecoverSettle \/ RecoverRetry \/ RepersistTicket \/ Observe

Lifecycle == Start \/ InstallHead \/ FinishStartup \/ RefuseStartup \/ Drain \/ FinishDrain \/ Crash

QueryStep(q) == LeaseWorkspace(q) \/ AdmitSelected(q) \/ FinishQuery(q)

Next == Activate \/ Recover \/ Lifecycle \/ \E q \in Queries : QueryStep(q)

Spec == Init /\ [][Next]_vars

\* The runtime polls the actor, the update loop keeps asking for recovery and
\* an ended process is started again; no fault has to happen.
Fairness ==
    /\ WF_vars(Activate) /\ WF_vars(Recover)
    /\ WF_vars(Start \/ InstallHead \/ FinishStartup \/ RefuseStartup \/ FinishDrain)

LiveSpec == Spec /\ Fairness

-----------------------------------------------------------------------------
Events == [epoch : Ops, predecessor : 0..MaxOps, fence : 1..MaxGeneration]
Barriers == [id : Nat, head : 0..MaxOps, fence : 0..MaxGeneration]
Gates == [phase : {"Open", "Draining", "Recovering", "Closed", "Swapped"},
          barrier : Barriers, epoch : 0..MaxOps, admission : Nat, next : Nat]

\* The stages of an execution and of a reconciliation.
Activating == {"prove", "revalidate", "append", "publish", "swap", "cache", "reopen",
               "acknowledge", "settle", "persist", "await"}
Reconciling == {"marker", "recover", "reslot", "recache", "rereopen", "reacknowledge",
                "resettle", "retry", "repersist", "observe"}
Jobs == [pc : Activating \cup Reconciling \cup {"idle"}, op : 0..MaxOps, barrier : Barriers,
         ticket : Tickets \cup {NoTicket}, reopened : BOOLEAN]

\* Every variable keeps the shape of the code's state.
TypeOK ==
    /\ chain \in Seq(Events)
    /\ record \in [Ops -> [state : {"New", "Prepared", "Awaiting", "RetryReady", "Succeeded"},
                           attempt : 0..MaxAttempt, fence : 0..MaxGeneration,
                           head : 0..MaxOps, pin : Nat, evidence : Tickets \cup {NoTicket}]]
    /\ ticket \in [Ops -> [attempt : 0..MaxAttempt, ticket : Tickets \cup {NoTicket}]]
    /\ generation \in 0..MaxGeneration /\ sweeps \in 0..MaxSweeps /\ gate \in Gates
    /\ process \in {"down", "booting", "starting", "up", "draining"}
    /\ slot \in 0..MaxOps /\ pinned \in Nat /\ validated \in 0..MaxOps
    /\ pending \in [barrier : Barriers, epoch : 0..MaxOps] /\ job \in Jobs
    /\ query \in [Queries -> [lease : 0..MaxOps, epoch : 0..MaxOps, admission : Nat]]
    /\ faults \in [count : 0..MaxFaults, kinds : SUBSET FaultKinds]

Alive == process \in {"starting", "up", "draining"}

\* The open gate and the slot agree with the durable chain: whoever is
\* admitted while the gate is open finds the slot at the last selected epoch,
\* whatever append was lost, publication interrupted or process restarted.
OpenServesDurableHead == Alive /\ gate.phase = "Open" => slot = SelectedHead /\ pinned = Len(chain)

\* A query executes an epoch the workspace durably selected, even when it
\* leased the slot before an activation and was admitted after it.
AdmittedEpochWasSelected ==
    \A q \in Queries : query[q].epoch # 0 =>
        \E i \in DOMAIN chain : chain[i].epoch = query[q].epoch

\* However often an activation is executed, retried and recovered, its event
\* is appended at most once, on the head it was admitted for.
SelectedAtMostOnce ==
    \A i \in DOMAIN chain :
        /\ chain[i].predecessor = HeadAt(i - 1)
        /\ \A j \in DOMAIN chain : chain[i].epoch = chain[j].epoch => i = j

InChain(op) == \E i \in DOMAIN chain : chain[i].epoch = op

\* What the journal says of a settled activation is what the chain says: a
\* success is selected, and what may be executed again is not.
SettledRecordTellsTheTruth ==
    \A op \in Ops : /\ record[op].state = "Succeeded" => InChain(op)
                    /\ record[op].state \in {"New", "RetryReady"} => ~InChain(op)

\* What the stored ticket of an awaiting activation claims to know of the
\* append is true of the chain.
TicketKnowledgeIsTrue ==
    \A op \in Ops : record[op].state = "Awaiting" =>
        /\ ticket[op].ticket.know = "ReadBack" => InChain(op)
        /\ ticket[op].ticket.know = "NotAttempted" => ~InChain(op)

\* A gate left closed has an owner: with no activation running, the current
\* one is unsettled, and a barrier it holds is one its recovery will accept.
ClosedGateHasAnOwner ==
    Alive /\ job = Idle /\ gate.phase \in {"Closed", "Swapped"} =>
        \E op \in Ops : /\ Current(op) /\ record[op].state \in {"Prepared", "Awaiting"}
                        /\ gate.phase = "Closed" =>
                             NoSelectionAccepts(gate, record[op].head, record[op].fence)
                        /\ gate.phase = "Swapped" => gate.epoch = op

\* The gate never admits between the closing and the reopening of an
\* activation: once an event is durable and unpublished, no query is admitted.
NoAdmissionBehindTheChain ==
    [][\A q \in Queries : query[q].epoch = 0 /\ query'[q].epoch # 0 => slot = SelectedHead]_vars

\* Every activation begun ends selected, whichever single step of it fails. A
\* process that ends, a ticket or a record that is not stored, and a second
\* failure are excepted: after these recovery may refuse the gate or the
\* ticket it finds (AwaitingIsSettled, StoredTicketReachesTheMarker).
PreparedSucceeds ==
    \A op \in Ops : record[op].state = "Prepared" ~>
        \/ record[op].state = "Succeeded"
        \/ faults.count > 1 \/ faults.kinds \cap {"store", "record", "crash"} # {}

\* What is served was durably selected, once.
ServedIsSelected ==
    TypeOK /\ OpenServesDurableHead /\ AdmittedEpochWasSelected /\ SelectedAtMostOnce

\* Neither a command record nor a ticket contradicts the chain.
RecordsTellTheTruth == SettledRecordTellsTheTruth /\ TicketKnowledgeIsTrue

-----------------------------------------------------------------------------
(* What the comments of the code say and the code does not keep.           *)

\* The reconciliation ticket is only a lookup instruction: whatever recovery
\* stores, its next pass reads the marker (activation_transaction.rs:1628).
StoredTicketReachesTheMarker ==
    \A op \in Ops : record[op].state = "Awaiting" => recovery_stage_is_causal(ticket[op].ticket)

\* An activation that awaits reconciliation is settled: selected, or to be
\* executed again.
AwaitingIsSettled ==
    \A op \in Ops : record[op].state = "Awaiting" ~> record[op].state \in {"RetryReady", "Succeeded"}

=============================================================================
