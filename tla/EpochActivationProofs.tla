----------------------- MODULE EpochActivationProofs -----------------------
(***************************************************************************)
(* The safety of epoch activation, for every number of activations,        *)
(* queries, attempts, sweeps and failures: whatever is lost, interrupted   *)
(* or restarted, what is served is the durable selection, records and      *)
(* tickets tell the truth, and a gate that is not open has an owner.       *)
(***************************************************************************)
EXTENDS EpochActivation, TLAPS

-----------------------------------------------------------------------------
(* The inductive invariant. Activations are executed one after the other,  *)
(* so the chain is 1, 2, ... and at most one more than the settled ones;   *)
(* what the gate and the actor's stage are worth is said relative to it.   *)

\* The chain selects the activations in their order, each on the one before.
ChainInv == \A i \in DOMAIN chain : chain[i].epoch = i /\ chain[i].predecessor = i - 1

\* Only the first unsettled activation was begun, on the head before its own.
RecordInv ==
    \A op \in Ops :
        /\ record[op].state = "Succeeded" => op <= Len(chain)
        /\ record[op].state \in {"New", "RetryReady"} => op > Len(chain)
        /\ record[op].state # "New" =>
              /\ record[op].head = op - 1 /\ record[op].pin = op - 1 /\ record[op].fence # 0
              /\ \A earlier \in Ops : earlier < op => record[earlier].state = "Succeeded"

\* What a ticket claims of the append is true of the chain.
Truthful(t, op) ==
    /\ t \in Tickets
    /\ t.know = "ReadBack" => op <= Len(chain)
    /\ t.know = "NotAttempted" => op > Len(chain)

TicketInv == \A op \in Ops : record[op].state = "Awaiting" => Truthful(ticket[op].ticket, op)

\* The unsettled activation a gate that is not open belongs to.
Owns(op) ==
    /\ record[op].state \in {"Prepared", "Awaiting"}
    /\ gate.phase = "Closed" =>
          /\ gate.barrier.head = record[op].head /\ gate.barrier.fence = record[op].fence
          /\ slot = op - 1 /\ (op > Len(chain) => pinned = op - 1)
    /\ gate.phase = "Swapped" => gate.epoch = op /\ Len(chain) = op /\ pinned = op

GateInv ==
    /\ Alive =>
         /\ gate.phase # "Recovering"
         /\ gate.phase = "Draining" => process = "draining"
         /\ gate.phase = "Open" => slot = Len(chain) /\ pinned = Len(chain)
         /\ gate.phase \in {"Closed", "Swapped"} => \E op \in Ops : Owns(op)
    /\ process = "booting" =>
         gate.phase = "Recovering" /\ gate.epoch = Len(chain) /\ pinned = Len(chain)
    /\ process # "down" => generation # 0

\* What each stage of the actor knows of the chain and of the gate.
StageInv ==
    LET In(pcs) == job.pc \in pcs
        Durable == job.op = Len(chain)
    IN  /\ In({"prove", "revalidate", "append", "retry"}) => job.op = Len(chain) + 1
        /\ In({"publish", "swap", "cache", "reopen", "acknowledge", "settle", "recover",
               "reslot", "recache", "rereopen", "reacknowledge", "resettle"}) => Durable
        /\ In({"prove", "acknowledge", "settle", "reacknowledge", "resettle", "retry"}) =>
              gate.phase = "Open"
        /\ In({"revalidate", "append", "publish"}) =>
              gate.phase = "Closed" /\ gate.barrier = job.barrier
        /\ In({"swap", "cache", "reopen", "rereopen"}) => gate.phase = "Swapped"
        /\ In({"reslot", "recache"}) => gate.phase = IF job.reopened THEN "Open" ELSE "Swapped"
        /\ In({"publish", "recover"}) => pinned = job.op
        /\ In({"persist", "await", "marker", "recover", "repersist", "observe"}) =>
              Truthful(job.ticket, job.op)
        /\ In({"await", "observe"}) => ticket[job.op].ticket = job.ticket

JobInv ==
    /\ job.pc = "idle" => job = Idle
    /\ job.pc # "idle" =>
         /\ process \in {"starting", "up"} /\ job.op \in Ops
         /\ record[job.op].state = IF job.pc \in Activating THEN "Prepared" ELSE "Awaiting"
         /\ job.pc \in Reconciling /\ process = "starting" => sweeps < MaxSweeps
         /\ StageInv

\* Nothing serves or holds an epoch that is not in the chain.
ServeInv ==
    /\ slot <= Len(chain)
    /\ \A q \in Queries : /\ query[q].lease <= Len(chain) /\ query[q].epoch <= Len(chain)
                          /\ query[q] # Free => process \in {"up", "draining"}

ActivationInv ==
    TypeOK /\ ChainInv /\ RecordInv /\ TicketInv /\ GateInv /\ JobInv /\ ServeInv

-----------------------------------------------------------------------------
(* Facts about the constants, the gate and the activation under way.       *)

CommandRows == [state : {"New", "Prepared", "Awaiting", "RetryReady", "Succeeded"},
             attempt : 0..MaxAttempt, fence : 0..MaxGeneration,
             head : 0..MaxOps, pin : Nat, evidence : Tickets \cup {NoTicket}]
FaultCounts == [count : 0..MaxFaults, kinds : SUBSET FaultKinds]

\* Failures are counted within their bound.
LEMMA FaultTypes ==
    ASSUME TypeOK, NEW kind, Fault(kind) \/ UNCHANGED faults
    PROVE  faults' \in FaultCounts
  BY ActivationAssumption DEF TypeOK, Fault, FaultCounts

\* The constants of the state are typed.
LEMMA InitialValues ==
    /\ Ops \subseteq 0..MaxOps /\ Ops \subseteq Nat \ {0} /\ 0 \in 0..MaxOps
    /\ NoBarrier \in Barriers /\ Idle \in Jobs /\ Idle.pc = "idle"
    /\ \A phase \in {"Open", "Recovering"}, epoch \in 0..MaxOps :
         Gate(phase, epoch) \in Gates /\ Gate(phase, epoch).phase = phase
                                      /\ Gate(phase, epoch).epoch = epoch
<1>1. Ops \subseteq 0..MaxOps /\ Ops \subseteq Nat \ {0} /\ 0 \in 0..MaxOps /\ 0 \in 0..MaxGeneration
  BY ActivationAssumption DEF Ops
<1>2. NoBarrier \in Barriers
  BY <1>1 DEF NoBarrier, Barriers
<1>3. Idle \in Jobs /\ Idle.pc = "idle"
  BY <1>1, <1>2 DEF Idle, Jobs
<1> QED
  BY <1>1, <1>2, <1>3 DEF Gate, Gates

\* Opening a gate leaves a typed, open gate.
LEMMA GateOpens ==
    ASSUME NEW g \in Gates
    PROVE  Opened(g) \in Gates /\ Opened(g).phase = "Open"
<1>1. g.admission + 1 \in Nat
  BY DEF Gates
<1>2. Opened(g) = [g EXCEPT !.phase = "Open", !.barrier = NoBarrier, !.epoch = 0,
                            !.admission = g.admission + 1]
  BY DEF Opened, Gates
<1>3. NoBarrier \in Barriers /\ 0 \in 0..MaxOps
  BY InitialValues
<1> QED
  BY Zenon, <1>1, <1>2, <1>3 DEF Gates

\* Closing a gate leaves it under the barrier of the head and fence it names.
LEMMA GateCloses ==
    ASSUME NEW g \in Gates, NEW head \in 0..MaxOps, NEW fence \in 0..MaxGeneration
    PROVE  /\ close_admission(g, head, fence) \in Gates
           /\ close_admission(g, head, fence).phase = "Closed"
           /\ close_admission(g, head, fence).barrier.head = head
           /\ close_admission(g, head, fence).barrier.fence = fence
<1>1. PICK barrier : barrier = [id |-> g.next, head |-> head, fence |-> fence]
  BY Zenon
<1>2. barrier \in Barriers /\ barrier.head = head /\ barrier.fence = fence /\ g.next + 1 \in Nat
  BY <1>1 DEF Gates, Barriers
<1>3. close_admission(g, head, fence) =
        [g EXCEPT !.phase = "Closed", !.next = g.next + 1, !.barrier = barrier]
  BY <1>1 DEF close_admission, Gates
<1> QED
  BY Zenon, <1>2, <1>3 DEF Gates

\* A recovered gate is swapped to the epoch, or is the gate it was.
LEMMA GateRecovers ==
    ASSUME NEW g \in Gates, NEW head \in 0..MaxOps, NEW fence \in 0..MaxGeneration,
           NEW epoch \in 0..MaxOps
    PROVE  /\ RecoveredGate(g, epoch, head, fence) \in Gates
           /\ g.phase = "Closed" =>
                /\ RecoveredGate(g, epoch, head, fence).phase = "Swapped"
                /\ RecoveredGate(g, epoch, head, fence).epoch = epoch
           /\ g.phase \in {"Open", "Swapped"} => RecoveredGate(g, epoch, head, fence) = g
<1>1. [id |-> g.next, head |-> head, fence |-> fence] \in Barriers
  BY DEF Gates, Barriers
<1>2. PICK p : p = Published(g, [id |-> g.next, head |-> head, fence |-> fence], epoch)
  OBVIOUS
<1>3. p \in Gates /\ p.phase = "Swapped" /\ p.epoch = epoch
  BY Zenon, <1>1, <1>2 DEF Published, Gates
<1>4. RecoveredGate(g, epoch, head, fence) =
        IF g.phase \in {"Recovering", "Closed"} THEN [p EXCEPT !.next = p.next + 1] ELSE g
  BY <1>2 DEF RecoveredGate
<1>5. [p EXCEPT !.next = p.next + 1] \in Gates /\ [p EXCEPT !.next = p.next + 1].phase = "Swapped"
      /\ [p EXCEPT !.next = p.next + 1].epoch = epoch
  BY <1>3 DEF Gates
<1> QED
  BY <1>4, <1>5

\* The types of what the actor works with.
LEMMA TypeFacts ==
    ASSUME TypeOK
    PROVE  /\ Len(chain) \in Nat /\ DOMAIN chain = 1..Len(chain)
           /\ \A i \in DOMAIN chain : chain[i] \in Events
           /\ \A op \in Ops : record[op] \in CommandRows
           /\ gate \in Gates /\ job \in Jobs
<1>1. chain \in Seq(Events)
  BY DEF TypeOK
<1>2. Len(chain) \in Nat /\ DOMAIN chain = 1..Len(chain) /\ \A i \in 1..Len(chain) : chain[i] \in Events
  BY <1>1
<1> QED
  BY <1>2 DEF TypeOK, CommandRows

\* The chain is as long as the settled activations, or by the current one longer;
\* and a control provider reads as head the number of events it pinned.
LEMMA ChainFacts ==
    ASSUME TypeOK, ChainInv, RecordInv
    PROVE  /\ Len(chain) \in 0..MaxOps
           /\ \A n \in 0..Len(chain) : HeadAt(n) = n
           /\ SelectedHead = Len(chain)
           /\ \A op \in Ops : InChain(op) <=> op <= Len(chain)
           /\ \A op \in Ops : Current(op) => Len(chain) \in {op - 1, op}
           /\ \A op \in Ops : record[op].state \in {"Prepared", "Awaiting", "RetryReady"} => Current(op)
           /\ \A a, b \in Ops : Current(a) /\ Current(b) => a = b
<1>1. /\ Len(chain) \in Nat /\ DOMAIN chain = 1..Len(chain) /\ MaxOps \in Nat
      /\ Ops = 1..MaxOps /\ \A i \in 1..Len(chain) : chain[i].epoch = i /\ i \in Ops
  BY TypeFacts, ActivationAssumption DEF ChainInv, Events, Ops
<1>2. Len(chain) \in 0..MaxOps
  BY <1>1
<1>3. \A n \in 0..Len(chain) : HeadAt(n) = n
  BY <1>1 DEF HeadAt
<1>4. SelectedHead = Len(chain)
  BY <1>1, <1>3 DEF SelectedHead
<1>5. \A op \in Ops : InChain(op) <=> op <= Len(chain)
  BY <1>1 DEF InChain
<1>6. ASSUME NEW op \in Ops, Current(op)
      PROVE  Len(chain) \in {op - 1, op}
  <2>1. op = 1 \/ (op - 1 \in Ops /\ record[op - 1].state = "Succeeded")
    BY <1>1, <1>6 DEF Current, Unsettled
  <2>2. op - 1 <= Len(chain)
    BY <1>1, <2>1 DEF RecordInv
  <2>3. ASSUME Len(chain) > op PROVE FALSE
    <3>1. op + 1 \in Ops /\ op + 1 <= Len(chain) /\ op < op + 1
      BY <1>1, <1>2, <2>3
    <3>2. record[op + 1].state \in {"New", "Prepared", "Awaiting", "RetryReady", "Succeeded"}
      BY <3>1, TypeFacts DEF CommandRows
    <3>3. record[op + 1].state # "New"
      BY <1>1, <3>1 DEF RecordInv
    <3>4. record[op].state = "Succeeded"
      BY <3>1, <3>3 DEF RecordInv
    <3> QED
      BY <1>6, <3>4 DEF Current, Unsettled
  <2> QED
    <3>1. op \in Nat /\ Len(chain) \in Nat
      BY <1>1
    <3> QED
      BY <2>2, <2>3, <3>1
<1>7. \A op \in Ops : record[op].state \in {"Prepared", "Awaiting", "RetryReady"} => Current(op)
  BY DEF RecordInv, Current, Unsettled
<1>8. \A a, b \in Ops : Current(a) /\ Current(b) => a = b
  BY <1>1 DEF Current
<1> QED
  BY <1>2, <1>3, <1>4, <1>5, <1>6, <1>7, <1>8

\* What holds of the activation the actor works on.
LEMMA JobFacts ==
    ASSUME ActivationInv, job.pc # "idle"
    PROVE  /\ job.op \in Ops /\ Current(job.op) /\ StageInv
           /\ process \in {"starting", "up"} /\ generation # 0 /\ Alive
           /\ record[job.op] \in CommandRows
           /\ record[job.op].head = job.op - 1 /\ record[job.op].pin = job.op - 1
           /\ record[job.op].fence \in 1..MaxGeneration
           /\ Len(chain) \in {job.op - 1, job.op}
           /\ gate.phase \in {"Open", "Closed", "Swapped"}
           /\ gate.phase = "Open" => slot = Len(chain) /\ pinned = Len(chain)
           /\ gate.phase \in {"Closed", "Swapped"} => Owns(job.op)
<1> USE DEF ActivationInv
<1>1. /\ job.op \in Ops /\ StageInv /\ process \in {"starting", "up"}
      /\ record[job.op].state \in {"Prepared", "Awaiting"}
  BY DEF JobInv
<1>2. /\ record[job.op].head = job.op - 1 /\ record[job.op].pin = job.op - 1
      /\ record[job.op].fence # 0
  BY <1>1 DEF RecordInv
<1>3. record[job.op] \in CommandRows
  BY <1>1, TypeFacts
<1>4. record[job.op].fence \in 1..MaxGeneration
  BY <1>2, <1>3, ActivationAssumption DEF CommandRows
<1>5. Current(job.op) /\ Len(chain) \in {job.op - 1, job.op}
  BY <1>1, ChainFacts
<1>6. Alive /\ generation # 0
  BY <1>1 DEF Alive, GateInv
<1>7. gate.phase \in {"Open", "Closed", "Swapped"}
  BY <1>1, <1>6, TypeFacts DEF GateInv, Gates
<1>8. gate.phase = "Open" => slot = Len(chain) /\ pinned = Len(chain)
  BY <1>6 DEF GateInv
<1>9. ASSUME gate.phase \in {"Closed", "Swapped"}
      PROVE  Owns(job.op)
  <2>1. PICK op \in Ops : Owns(op)
    BY <1>6, <1>9 DEF GateInv
  <2>2. Current(op)
    BY <2>1, ChainFacts DEF Owns
  <2>3. op = job.op
    BY <1>1, <1>5, <2>2, ChainFacts
  <2> QED
    BY <2>1, <2>3
<1> QED
  BY <1>1, <1>2, <1>3, <1>4, <1>5, <1>6, <1>7, <1>8, <1>9

-----------------------------------------------------------------------------
(* What a step of the actor that records nothing has to keep.              *)

Recorded == <<chain, record, ticket, generation, process, sweeps, validated, query>>

\* A step that leaves the journal, the chain and the process alone.
LEMMA ActorStep ==
    ASSUME ActivationInv, UNCHANGED Recorded,
           faults' \in FaultCounts, gate' \in Gates, slot' \in 0..MaxOps, pinned' \in Nat,
           pending' \in [barrier : Barriers, epoch : 0..MaxOps], job' \in Jobs,
           GateInv', JobInv', slot' <= Len(chain)
    PROVE  ActivationInv'
<1> USE DEF ActivationInv, Recorded
<1>1. TypeOK'
  BY DEF TypeOK, FaultCounts
<1>2. ChainInv' /\ RecordInv' /\ TicketInv'
  BY DEF ChainInv, RecordInv, TicketInv, Truthful
<1>3. ServeInv'
  BY DEF ServeInv
<1> QED
  BY <1>1, <1>2, <1>3

\* A step that only moves the actor on.
LEMMA StageStep ==
    ASSUME ActivationInv, UNCHANGED <<Recorded, gate, slot, pinned, pending>>,
           faults' \in FaultCounts, job' \in Jobs, JobInv'
    PROVE  ActivationInv'
<1>1. GateInv'
  BY DEF ActivationInv, GateInv, Recorded, Owns, Alive
<1>2. /\ gate \in Gates /\ slot \in 0..MaxOps /\ pinned \in Nat
      /\ pending \in [barrier : Barriers, epoch : 0..MaxOps] /\ slot <= Len(chain)
  BY DEF ActivationInv, TypeOK, ServeInv
<1> QED
  BY <1>1, <1>2, ActorStep

\* The actor gives up: nothing but its stage changes, and a startup it belonged
\* to ends with it.
LEMMA GiveUpStep ==
    ASSUME ActivationInv,
           UNCHANGED <<chain, record, ticket, generation, validated, query,
                       gate, slot, pinned, pending>>, sweeps' = sweeps \/ sweeps' \in 0..MaxSweeps,
           faults' \in FaultCounts, job' = Idle, process' = process \/ Fails
    PROVE  ActivationInv'
<1> USE DEF ActivationInv
<1>1. process' = process \/ (process = "starting" /\ process' = "down")
  BY DEF Fails
<1>2. TypeOK'
  BY ZenonT(40), <1>1, InitialValues DEF TypeOK, FaultCounts
<1>3. ChainInv' /\ RecordInv' /\ TicketInv'
  BY DEF ChainInv, RecordInv, TicketInv, Truthful
<1>4. GateInv'
  BY <1>1 DEF GateInv, Owns, Alive
<1>5. JobInv'
  BY InitialValues DEF JobInv
<1>6. ServeInv'
  BY <1>1 DEF ServeInv
<1> QED
  BY <1>2, <1>3, <1>4, <1>5, <1>6

\* Moving on, with or without a ticket to persist, keeps the job typed.
LEMMA JobTypes ==
    ASSUME job \in Jobs
    PROVE  /\ \A pc \in Activating \cup Reconciling :
                 Go(pc) => /\ job' \in Jobs /\ job'.pc = pc
                           /\ job'.op = job.op /\ job'.ticket = job.ticket
                           /\ job'.barrier = job.barrier /\ job'.reopened = job.reopened
           /\ \A stage, know, posture, reason : \A pc \in {"persist", "repersist"} :
                 /\ Needs(pc, stage, know, posture, reason)
                 /\ [stage |-> stage, know |-> know, posture |-> posture, reason |-> reason] \in Tickets
                 => /\ job' \in Jobs /\ job'.pc = pc /\ job'.op = job.op
                    /\ job'.ticket \in Tickets /\ job'.ticket.know = know
<1>1. ASSUME NEW pc \in Activating \cup Reconciling, Go(pc)
      PROVE  /\ job' \in Jobs /\ job'.pc = pc
             /\ job'.op = job.op /\ job'.ticket = job.ticket
             /\ job'.barrier = job.barrier /\ job'.reopened = job.reopened
  BY <1>1 DEF Go, Jobs
<1>2. ASSUME NEW pc \in {"persist", "repersist"}, NEW stage, NEW know, NEW posture, NEW reason,
             Needs(pc, stage, know, posture, reason),
             [stage |-> stage, know |-> know, posture |-> posture, reason |-> reason] \in Tickets
      PROVE  /\ job' \in Jobs /\ job'.pc = pc /\ job'.op = job.op
             /\ job'.ticket \in Tickets /\ job'.ticket.know = know
  <2>1. PICK t : t = [stage |-> stage, know |-> know, posture |-> posture, reason |-> reason]
    BY Zenon
  <2>2. job' = [job EXCEPT !.pc = pc, !.ticket = t] /\ t \in Tickets /\ t.know = know
    BY <1>2, <2>1 DEF Needs
  <2>3. pc \in Activating \cup Reconciling
    BY DEF Activating, Reconciling
  <2> QED
    BY Zenon, <2>2, <2>3 DEF Jobs
<1> QED
  BY <1>1, <1>2

\* The actor goes on with the same activation, within the same procedure.
LEMMA JobMoves ==
    ASSUME ActivationInv, UNCHANGED Recorded, job'.op = job.op,
           \/ job.pc \in Activating /\ job'.pc \in Activating
           \/ job.pc \in Reconciling /\ job'.pc \in Reconciling,
           StageInv'
    PROVE  JobInv'
<1>1. job.pc # "idle" /\ job'.pc # "idle"
  BY DEF Activating, Reconciling
<1> QED
  BY <1>1 DEF ActivationInv, JobInv, Recorded, Activating, Reconciling

\* A ticket that tells the truth may be persisted next.
LEMMA NeedsStep ==
    ASSUME ActivationInv, UNCHANGED <<Recorded, gate, slot, pinned, pending>>,
           faults' \in FaultCounts,
           NEW pc, \/ pc = "persist" /\ job.pc \in Activating
                   \/ pc = "repersist" /\ job.pc \in Reconciling,
           NEW stage, NEW know, NEW posture, NEW reason,
           Needs(pc, stage, know, posture, reason),
           [stage |-> stage, know |-> know, posture |-> posture, reason |-> reason] \in Tickets,
           know = "ReadBack" => job.op <= Len(chain),
           know = "NotAttempted" => job.op > Len(chain)
    PROVE  ActivationInv'
<1>1. job \in Jobs
  BY DEF ActivationInv, TypeOK
<1>2. /\ job' \in Jobs /\ job'.pc = pc /\ job'.op = job.op
      /\ job'.ticket \in Tickets /\ job'.ticket.know = know
  BY <1>1, JobTypes
<1>3. StageInv'
  BY <1>2 DEF StageInv, Truthful, Recorded
<1>4. JobInv'
  BY <1>2, <1>3, JobMoves DEF Activating, Reconciling
<1> QED
  BY <1>2, <1>4, StageStep

\* The actor moves on and nothing else changes.
LEMMA GoStep ==
    ASSUME ActivationInv, UNCHANGED <<Recorded, gate, slot, pinned, pending>>,
           faults' \in FaultCounts, NEW pc, Go(pc),
           \/ job.pc \in Activating /\ pc \in Activating
           \/ job.pc \in Reconciling /\ pc \in Reconciling,
           job' \in Jobs => StageInv'
    PROVE  ActivationInv'
<1>1. job \in Jobs
  BY DEF ActivationInv, TypeOK
<1>2. job' \in Jobs /\ job'.pc = pc /\ job'.op = job.op
  BY <1>1, JobTypes
<1>3. JobInv'
  BY <1>2, JobMoves
<1> QED
  BY <1>2, <1>3, StageStep

-----------------------------------------------------------------------------
(* The execution of an activation.                                         *)

\* close_admission: the gate closes under the activation's own barrier.
LEMMA CloseAdmissionStep ==
    ASSUME ActivationInv, CloseAdmission
    PROVE  ActivationInv'
<1>0. /\ job.pc = "prove" /\ job.pc # "idle" /\ UNCHANGED Recorded
      /\ UNCHANGED <<slot, pinned, pending, faults>>
  BY DEF CloseAdmission, At, Recorded
<1>1. CASE ~(validated = job.op /\ gate.phase = "Open")
  <2>1. job' = Idle /\ gate' = gate /\ process' = process
    BY <1>0, <1>1 DEF CloseAdmission, Abandon
  <2>2. faults' \in FaultCounts
    BY <1>0, FaultTypes DEF ActivationInv
  <2> QED
    BY <1>0, <2>1, <2>2, GiveUpStep DEF Recorded
<1>2. CASE validated = job.op /\ gate.phase = "Open"
  <2>1. /\ job.op \in Ops /\ record[job.op] \in CommandRows /\ StageInv
        /\ record[job.op].fence \in 1..MaxGeneration
        /\ record[job.op].head = job.op - 1 /\ slot = Len(chain) /\ pinned = Len(chain)
        /\ process \in {"starting", "up"}
    BY <1>0, <1>2, JobFacts
  <2>2. /\ record[job.op].head \in 0..MaxOps /\ record[job.op].fence \in 0..MaxGeneration
        /\ gate \in Gates /\ job \in Jobs
    BY <2>1, TypeFacts DEF CommandRows, ActivationInv
  <2>3. /\ gate' = close_admission(gate, record[job.op].head, record[job.op].fence)
        /\ job' = [job EXCEPT !.pc = "revalidate", !.barrier = gate'.barrier]
    BY <1>2 DEF CloseAdmission, This
  <2>4. /\ gate' \in Gates /\ gate'.phase = "Closed"
        /\ gate'.barrier.head = record[job.op].head /\ gate'.barrier.fence = record[job.op].fence
    <3>1. PICK g \in Gates, head \in 0..MaxOps, fence \in 0..MaxGeneration :
            g = gate /\ head = record[job.op].head /\ fence = record[job.op].fence
      BY <2>2
    <3>2. gate' = close_admission(g, head, fence)
      BY <2>3, <3>1 DEF close_admission
    <3> QED
      BY <3>1, <3>2, GateCloses
  <2>5. /\ job' \in Jobs /\ job'.pc = "revalidate" /\ job'.op = job.op /\ job'.barrier = gate'.barrier
    BY Zenon, <2>2, <2>3, <2>4 DEF Jobs, Gates, Activating
  <2>6. job.op = Len(chain) + 1
    BY <1>0, <2>1 DEF StageInv
  <2>7. GateInv'
    <3>1. record[job.op].state = "Prepared"
      BY <1>0 DEF ActivationInv, JobInv, Activating
    <3>2. Len(chain) \in Nat
      BY TypeFacts DEF ActivationInv
    <3>3. slot = job.op - 1 /\ pinned = job.op - 1
      BY <2>1, <2>6, <3>2
    <3>4. Owns(job.op)'
      BY <1>0, <2>4, <2>5, <3>1, <3>3 DEF Owns, Recorded
    <3>5. \E op \in Ops : Owns(op)'
      BY <1>0, <2>1, <2>5, <3>1, <2>4, <3>3 DEF Owns, Recorded
    <3> QED
      BY <1>0, <2>1, <2>4, <3>5 DEF ActivationInv, GateInv, Recorded, Alive
  <2>8. JobInv'
    <3>1. StageInv'
      BY <1>0, <2>4, <2>5, <2>6 DEF StageInv, Recorded
    <3> QED
      BY <1>0, <2>5, <3>1, JobMoves DEF Activating
  <2>9. /\ faults' \in FaultCounts /\ slot' <= Len(chain) /\ slot' \in 0..MaxOps /\ pinned' \in Nat
        /\ pending' \in [barrier : Barriers, epoch : 0..MaxOps]
    BY <1>0 DEF ActivationInv, ServeInv, TypeOK, FaultCounts
  <2> QED
    BY <1>0, <2>4, <2>5, <2>7, <2>8, <2>9, ActorStep
<1> QED
  BY <1>1, <1>2

\* Revalidation of the writer authority changes nothing but the stage.
LEMMA RevalidateStep ==
    ASSUME ActivationInv, Revalidate
    PROVE  ActivationInv'
<1>0. /\ job.pc = "revalidate" /\ UNCHANGED <<Recorded, gate, slot, pinned, pending>>
      /\ job.pc \in Activating /\ job.pc # "idle"
  BY DEF Revalidate, At, Recorded, Activating
<1>1. faults' \in FaultCounts
  BY FaultTypes DEF ActivationInv, Revalidate
<1>2. job.op = Len(chain) + 1 /\ Len(chain) \in Nat /\ StageInv
  BY <1>0, JobFacts, TypeFacts DEF StageInv, ActivationInv
<1>3. CASE Go("append")
  <2>1. job' \in Jobs => StageInv'
    BY <1>0, <1>2, <1>3 DEF StageInv, Recorded, Go, ActivationInv, TypeOK, Jobs
  <2> QED
    BY <1>0, <1>1, <1>3, <2>1, GoStep DEF Activating
<1>4. CASE Needs("persist", "AuthorityRevalidation", "NotAttempted", "Closed", "authority")
  <2>1. [stage |-> "AuthorityRevalidation", know |-> "NotAttempted", posture |-> "Closed",
         reason |-> "authority"] \in Tickets
    BY DEF Tickets, Stages, Postures
  <2> QED
    BY <1>0, <1>1, <1>2, <1>4, <2>1, NeedsStep
<1> QED
  BY <1>3, <1>4 DEF Revalidate

\* append_and_readback: the event is appended on the pinned head, or nothing
\* is known of it.
LEMMA AppendStep ==
    ASSUME ActivationInv, AppendAndReadback
    PROVE  ActivationInv'
<1> USE DEF ActivationInv
<1>0. /\ job.pc = "append" /\ job.pc \in Activating
      /\ UNCHANGED <<record, ticket, process, gate, slot, pending>>
      /\ UNCHANGED <<generation, sweeps, validated, query>>
  BY DEF AppendAndReadback, At, Activating
<1>1. /\ job.op \in Ops /\ Current(job.op) /\ record[job.op] \in CommandRows /\ Alive
      /\ record[job.op].head = job.op - 1 /\ record[job.op].pin = job.op - 1
      /\ record[job.op].fence \in 1..MaxGeneration /\ StageInv
      /\ gate.phase = "Closed" => Owns(job.op)
  BY <1>0, JobFacts
<1>2. /\ job.op = Len(chain) + 1 /\ Len(chain) \in Nat /\ gate.phase = "Closed"
      /\ gate.barrier = job.barrier /\ DOMAIN chain = 1..Len(chain) /\ job \in Jobs
      /\ record[job.op].pin = Len(chain) /\ record[job.op].state = "Prepared"
  BY <1>0, <1>1, TypeFacts DEF StageInv, JobInv
<1>3. pinned = Len(chain) /\ slot = Len(chain)
  BY <1>1, <1>2 DEF Owns
<1>4. faults' \in FaultCounts
  BY FaultTypes DEF AppendAndReadback
<1>5. CASE UNCHANGED chain /\ UNCHANGED pinned /\ Uncertain
  <2>1. [stage |-> "DurableAppendReadback", know |-> "Unknown", posture |-> "Closed",
         reason |-> "append"] \in Tickets
    BY DEF Tickets, Stages, Postures
  <2> QED
    BY <1>0, <1>4, <1>5, <2>1, NeedsStep DEF Uncertain, Recorded
<1>6. ASSUME Lands, \/ pinned' = pinned + 1 /\ Go("publish")
                    \/ Uncertain /\ UNCHANGED pinned
      PROVE  ActivationInv'
  <2>1. PICK event : event = Event
    BY Zenon
  <2>2. /\ event \in Events /\ event.epoch = job.op /\ event.predecessor = job.op - 1
    BY <1>1, <2>1, InitialValues DEF Event, This, Events, CommandRows
  <2>3. chain' = Append(chain, event)
    BY Zenon, <1>2, <1>6, <2>1 DEF Lands, This
  <2>4. /\ chain' \in Seq(Events) /\ Len(chain') = job.op /\ DOMAIN chain' = 1..job.op
        /\ \A i \in DOMAIN chain : chain'[i] = chain[i]
        /\ chain'[job.op] = event
    <3>1. chain \in Seq(Events)
      BY DEF TypeOK
    <3> QED
      BY <1>2, <2>2, <2>3, <3>1
  <2>5. ChainInv'
    BY <1>2, <2>2, <2>4 DEF ChainInv
  <2>6. /\ job' \in Jobs /\ job'.op = job.op /\ job'.pc \in {"publish", "persist"}
        /\ job'.pc = "publish" => pinned' = job.op /\ job'.barrier = job.barrier
        /\ job'.pc = "persist" => job'.ticket \in Tickets /\ job'.ticket.know = "Unknown"
        /\ pinned' \in Nat
    <3>1. CASE pinned' = pinned + 1 /\ Go("publish")
      BY SMTT(40), Zenon, <1>2, <1>3, <3>1, JobTypes DEF Activating, Reconciling
    <3>2. CASE Uncertain /\ UNCHANGED pinned
      <4>1. [stage |-> "DurableAppendReadback", know |-> "Unknown", posture |-> "Closed",
             reason |-> "append"] \in Tickets
        BY DEF Tickets, Stages, Postures
      <4> QED
        BY Zenon, <1>2, <1>3, <3>2, <4>1, JobTypes DEF Uncertain, Activating, Reconciling
    <3> QED
      BY <1>6, <3>1, <3>2
  <2>7. TypeOK'
    BY Zenon, <1>0, <1>4, <2>4, <2>6 DEF TypeOK, FaultCounts
  <2>8. RecordInv' /\ TicketInv'
    <3>1. \A op \in Ops : /\ op # job.op => record[op].state # "Awaiting"
                          /\ record[op].state = "Succeeded" => op <= Len(chain')
      <4>1. \A op \in Ops : record[op].state = "Awaiting" => op = job.op
        BY <1>1, ChainFacts
      <4>2. \A op \in Ops : op \in Nat /\ (record[op].state = "Succeeded" => op <= Len(chain))
        BY InitialValues DEF RecordInv
      <4>3. Len(chain') = Len(chain) + 1
        BY <1>2, <2>4
      <4> QED
        BY <1>2, <4>1, <4>2, <4>3
    <3>2. ASSUME NEW op \in Ops, record[op].state \in {"New", "RetryReady"}
          PROVE  op > Len(chain')
      <4>1. op > Len(chain) /\ op # job.op /\ op \in Nat
        BY <1>2, <3>2, InitialValues DEF RecordInv
      <4> QED
        BY <1>2, <2>4, <4>1
    <3>3. RecordInv'
      BY <1>0, <3>1, <3>2 DEF RecordInv
    <3>4. TicketInv'
      BY Zenon, <1>0, <1>2, <3>1 DEF TicketInv
    <3> QED
      BY <3>3, <3>4
  <2>9. GateInv'
    <3>1. Owns(job.op)'
      BY SMTT(40), Zenon, <1>0, <1>1, <1>2, <1>3, <2>4, <2>6 DEF Owns
    <3>2. \E op \in Ops : /\ record[op].state \in {"Prepared", "Awaiting"}
                          /\ gate.barrier.head = record[op].head
                          /\ gate.barrier.fence = record[op].fence
                          /\ slot = op - 1 /\ ~(op > Len(chain'))
      BY SMTT(40), Zenon, <1>1, <1>2, <2>4, InitialValues DEF Owns
    <3> QED
      BY <1>0, <1>1, <1>2, <3>2 DEF GateInv, Owns, Alive
  <2>10. JobInv'
    <3>1. StageInv'
      BY <1>0, <1>2, <2>4, <2>6 DEF StageInv, Truthful
    <3> QED
      BY ZenonT(40), <1>0, <1>1, <1>2, <2>6, <3>1 DEF JobInv, Activating, Reconciling
  <2>11. ServeInv'
    <3>1. Len(chain') = Len(chain) + 1 /\ slot \in Nat
          /\ \A q \in Queries : query[q].lease \in Nat /\ query[q].epoch \in Nat
      BY SMTT(40), Zenon, <1>2, <2>4, ActivationAssumption DEF TypeOK
    <3> QED
      BY SMTT(40), Zenon, <1>0, <1>2, <3>1 DEF ServeInv
  <2> QED
    BY <2>5, <2>7, <2>8, <2>9, <2>10, <2>11
<1>7. \/ UNCHANGED chain /\ UNCHANGED pinned /\ Uncertain
      \/ Lands /\ pinned' = pinned + 1 /\ Go("publish")
      \/ Lands /\ Uncertain /\ UNCHANGED pinned
  <2>1. CASE Fault("append") /\ (Lands \/ UNCHANGED chain) /\ Uncertain /\ UNCHANGED pinned
    BY <2>1
  <2>2. CASE IF pinned = This.pin /\ Len(chain) = This.pin
             THEN Lands /\ pinned' = pinned + 1 /\ Go("publish")
             ELSE Uncertain /\ UNCHANGED <<chain, pinned>>
    BY <2>2
  <2> QED
    BY <2>1, <2>2 DEF AppendAndReadback
<1> QED
  BY <1>5, <1>6, <1>7

\* The gate stays the activation's, or opens on the durable head.
LEMMA GateMoves ==
    ASSUME ActivationInv, job.pc # "idle", UNCHANGED Recorded, NEW op, op = job.op,
           \/ gate'.phase = "Open" /\ slot' = Len(chain) /\ pinned' = Len(chain)
           \/ gate'.phase \in {"Closed", "Swapped"} /\ Owns(op)'
    PROVE  GateInv'
<1>1. /\ op \in Ops /\ process' \in {"starting", "up"} /\ generation' # 0 /\ Len(chain') = Len(chain)
  BY JobFacts DEF Recorded
<1>2. gate'.phase \in {"Closed", "Swapped"} => \E o \in Ops : Owns(o)'
  BY <1>1
<1> QED
  BY <1>1, <1>2 DEF GateInv, Alive

\* install_successor: the gate is published under the activation's barrier.
LEMMA PublishStep ==
    ASSUME ActivationInv, PublishSelected
    PROVE  ActivationInv'
<1>0. /\ job.pc = "publish" /\ job.pc \in Activating /\ job.pc # "idle" /\ UNCHANGED Recorded
      /\ UNCHANGED <<slot, pinned, pending>>
  BY DEF PublishSelected, At, Recorded, Activating
<1>1. faults' \in FaultCounts
  BY FaultTypes DEF ActivationInv, PublishSelected
<1>2. /\ job.op = Len(chain) /\ pinned = job.op /\ gate.phase = "Closed" /\ job \in Jobs
      /\ gate \in Gates /\ job.op \in Ops /\ gate.barrier = job.barrier /\ Owns(job.op)
      /\ job.op \in Nat
  BY <1>0, JobFacts, TypeFacts, InitialValues DEF StageInv, ActivationInv
<1>3. CASE Unpublished
  <2>1. [stage |-> "EpochSwap", know |-> "ReadBack", posture |-> "Closed",
         reason |-> "admission"] \in Tickets
    BY DEF Tickets, Stages, Postures
  <2> QED
    BY <1>0, <1>1, <1>2, <1>3, <2>1, NeedsStep DEF Unpublished
<1>4. CASE gate' = Published(gate, job.barrier, job.op) /\ Go("swap")
  <2>1. gate' \in Gates /\ gate'.phase = "Swapped" /\ gate'.epoch = job.op
    BY Zenon, <1>2, <1>4, InitialValues DEF Published, Gates, Jobs
  <2>2. job' \in Jobs /\ job'.pc = "swap" /\ job'.op = job.op
    BY <1>2, <1>4, JobTypes DEF Activating
  <2>3. PICK op : op = job.op
    OBVIOUS
  <2>4. Owns(op)'
    BY Zenon, <1>0, <1>2, <2>1, <2>3 DEF Owns, Recorded
  <2>5. GateInv'
    BY <1>0, <2>1, <2>3, <2>4, GateMoves
  <2>6. StageInv'
    BY <1>0, <1>2, <2>1, <2>2 DEF StageInv, Recorded
  <2>7. JobInv'
    BY <1>0, <2>2, <2>6, JobMoves DEF Activating
  <2>8. /\ slot' \in 0..MaxOps /\ pinned' \in Nat /\ slot' <= Len(chain)
        /\ pending' \in [barrier : Barriers, epoch : 0..MaxOps]
    BY <1>0 DEF ActivationInv, TypeOK, ServeInv
  <2> QED
    BY <1>0, <1>1, <2>1, <2>2, <2>5, <2>7, <2>8, ActorStep
<1> QED
  BY <1>2, <1>3, <1>4 DEF PublishSelected

\* The slot serves the successor.
LEMMA SwapSlotStep ==
    ASSUME ActivationInv, SwapSlot
    PROVE  ActivationInv'
<1>0. /\ job.pc = "swap" /\ job.pc # "idle" /\ UNCHANGED Recorded
      /\ UNCHANGED <<gate, pinned, faults>> /\ slot' = job.op /\ Go("cache")
      /\ pending' = [barrier |-> job.barrier, epoch |-> job.op]
  BY DEF SwapSlot, At, Recorded
<1>1. faults' \in FaultCounts
  BY Zenon, <1>0, FaultTypes DEF ActivationInv
<1>2. /\ job.op = Len(chain) /\ gate.phase = "Swapped" /\ job \in Jobs
      /\ gate \in Gates /\ job.op \in Ops /\ Owns(job.op) /\ job.op \in Nat /\ job.op \in 0..MaxOps
  BY Zenon, <1>0, JobFacts, TypeFacts, InitialValues DEF StageInv, ActivationInv
<1>3. job' \in Jobs /\ job'.pc = "cache" /\ job'.op = job.op
  BY <1>0, <1>2, JobTypes DEF Activating
<1>4. PICK op : op = job.op
  OBVIOUS
<1>5. Owns(op)'
  BY <1>0, <1>2, <1>4 DEF Owns, Recorded
<1>6. GateInv'
  BY Zenon, <1>0, <1>2, <1>4, <1>5, GateMoves
<1>7. StageInv'
  BY ZenonT(40), <1>0, <1>2, <1>3 DEF StageInv, Recorded
<1>8. JobInv'
  BY SMTT(40), Zenon, <1>0, <1>3, <1>7, JobMoves DEF Activating
<1>9. /\ gate' \in Gates /\ slot' \in 0..MaxOps /\ pinned' \in Nat /\ slot' <= Len(chain)
      /\ pending' \in [barrier : Barriers, epoch : 0..MaxOps]
  BY <1>0, <1>2 DEF ActivationInv, TypeOK, Jobs
<1> QED
  BY <1>0, <1>1, <1>3, <1>6, <1>8, <1>9, ActorStep

\* The caches are reconciled, or the activation awaits reconciliation.
LEMMA ReconcileCacheStep ==
    ASSUME ActivationInv, ReconcileCache
    PROVE  ActivationInv'
<1>0. /\ job.pc = "cache" /\ UNCHANGED <<Recorded, gate, slot, pinned, pending>>
      /\ job.pc \in Activating /\ job.pc # "idle"
  BY DEF ReconcileCache, At, Recorded, Activating
<1>1. faults' \in FaultCounts
  BY ZenonT(40), FaultTypes DEF ActivationInv, ReconcileCache
<1>2. job.op = Len(chain) /\ Len(chain) \in Nat /\ StageInv /\ gate.phase = "Swapped"
  BY <1>0, JobFacts, TypeFacts DEF StageInv, ActivationInv
<1>3. CASE Go("reopen")
  <2>1. job' \in Jobs => StageInv'
    BY <1>0, <1>2, <1>3 DEF StageInv, Recorded, Go, ActivationInv, TypeOK, Jobs
  <2> QED
    BY <1>0, <1>1, <1>3, <2>1, GoStep DEF Activating
<1>4. CASE Needs("persist", "CacheReconciliation", "ReadBack", "Swapped", "cache")
  <2>1. [stage |-> "CacheReconciliation", know |-> "ReadBack", posture |-> "Swapped",
         reason |-> "cache"] \in Tickets
    BY DEF Tickets, Stages, Postures
  <2> QED
    BY <1>0, <1>1, <1>2, <1>4, <2>1, NeedsStep
<1> QED
  BY <1>3, <1>4 DEF ReconcileCache

\* reconcile_and_reopen: the gate opens on the slot that serves the successor.
LEMMA ReopenStep ==
    ASSUME ActivationInv, Reopen
    PROVE  ActivationInv'
<1>0. /\ job.pc = "reopen" /\ job.pc \in Activating /\ job.pc # "idle" /\ UNCHANGED Recorded
      /\ UNCHANGED <<slot, pinned, faults>>
  BY DEF Reopen, At, Recorded, Activating
<1>1. faults' \in FaultCounts
  BY Zenon, <1>0, FaultTypes DEF ActivationInv
<1>2. /\ job.op = Len(chain) /\ gate.phase = "Swapped" /\ job \in Jobs
      /\ gate \in Gates /\ Owns(job.op) /\ job.op \in Nat
  BY <1>0, JobFacts, TypeFacts, InitialValues DEF StageInv, ActivationInv
<1>3. CASE /\ slot = job.op /\ gate' = Opened(gate) /\ pending' = NoPending /\ Go("acknowledge")
  <2>1. gate' \in Gates /\ gate'.phase = "Open"
    <3>1. PICK g \in Gates : g = gate
      BY <1>2
    <3>2. gate' = Opened(g)
      BY <1>3, <3>1 DEF Opened
    <3> QED
      BY <3>2, GateOpens
  <2>2. job' \in Jobs /\ job'.pc = "acknowledge" /\ job'.op = job.op
    BY <1>2, <1>3, JobTypes DEF Activating
  <2>3. pinned = Len(chain)
    BY <1>2 DEF Owns
  <2>4. GateInv'
    <3>1. PICK op : op = job.op
      OBVIOUS
    <3> QED
      BY ZenonT(40), <1>0, <1>2, <1>3, <2>1, <2>3, <3>1, GateMoves
  <2>5. StageInv'
    BY <1>0, <1>2, <2>1, <2>2 DEF StageInv, Recorded
  <2>6. JobInv'
    BY <1>0, <2>2, <2>5, JobMoves DEF Activating
  <2>7. /\ slot' \in 0..MaxOps /\ pinned' \in Nat /\ slot' <= Len(chain)
        /\ pending' \in [barrier : Barriers, epoch : 0..MaxOps]
    <3>1. NoPending \in [barrier : Barriers, epoch : 0..MaxOps]
      BY InitialValues DEF NoPending
    <3> QED
      BY <1>0, <1>3, <3>1 DEF ActivationInv, TypeOK, ServeInv
  <2> QED
    BY <1>0, <1>1, <2>1, <2>2, <2>4, <2>6, <2>7, ActorStep
<1>4. CASE /\ Needs("persist", "AdmissionReopen", "ReadBack", "Swapped", "admission")
           /\ UNCHANGED <<gate, pending>>
  <2>1. [stage |-> "AdmissionReopen", know |-> "ReadBack", posture |-> "Swapped",
         reason |-> "admission"] \in Tickets
    BY DEF Tickets, Stages, Postures
  <2> QED
    BY <1>0, <1>1, <1>2, <1>4, <2>1, NeedsStep
<1> QED
  BY <1>3, <1>4 DEF Reopen

\* The acknowledgement, or the activation awaits reconciliation.
LEMMA AcknowledgeStep ==
    ASSUME ActivationInv, Acknowledge
    PROVE  ActivationInv'
<1>0. /\ job.pc = "acknowledge" /\ UNCHANGED <<Recorded, gate, slot, pinned, pending>>
      /\ job.pc \in Activating /\ job.pc # "idle"
  BY DEF Acknowledge, At, Recorded, Activating
<1>1. faults' \in FaultCounts
  BY Zenon, FaultTypes DEF ActivationInv, Acknowledge
<1>2. job.op = Len(chain) /\ Len(chain) \in Nat /\ StageInv /\ gate.phase = "Open"
  BY <1>0, JobFacts, TypeFacts DEF StageInv, ActivationInv
<1>3. CASE Go("settle")
  <2>1. job' \in Jobs => StageInv'
    BY <1>0, <1>2, <1>3 DEF StageInv, Recorded, Go, ActivationInv, TypeOK, Jobs
  <2> QED
    BY <1>0, <1>1, <1>3, <2>1, GoStep DEF Activating
<1>4. CASE Needs("persist", "Acknowledgement", "ReadBack", "Reopened", "acknowledge")
  <2>1. [stage |-> "Acknowledgement", know |-> "ReadBack", posture |-> "Reopened",
         reason |-> "acknowledge"] \in Tickets
    BY DEF Tickets, Stages, Postures
  <2> QED
    BY <1>0, <1>1, <1>2, <1>4, <2>1, NeedsStep
<1> QED
  BY <1>3, <1>4 DEF Acknowledge

-----------------------------------------------------------------------------
(* The steps that write the journal or a ticket.                           *)

\* The journal records the outcome of an execution or of a reconciliation.
LEMMA OutcomeStep ==
    ASSUME ActivationInv, job.pc # "idle",
           UNCHANGED <<chain, ticket, generation, process, validated, query,
                       gate, slot, pinned, pending>>,
           faults' \in FaultCounts, sweeps' \in 0..MaxSweeps, job' = Idle,
           NEW row \in CommandRows, record' = [record EXCEPT ![job.op] = row],
           row.head = record[job.op].head, row.pin = record[job.op].pin,
           row.fence = record[job.op].fence,
           \/ row.state = "Succeeded" /\ job.op <= Len(chain) /\ gate.phase = "Open"
           \/ row.state = "RetryReady" /\ job.op > Len(chain) /\ gate.phase = "Open"
           \/ row.state = "Awaiting" /\ Truthful(ticket[job.op].ticket, job.op)
    PROVE  ActivationInv'
<1> USE DEF ActivationInv
<1>1. PICK cur : cur = job.op
  OBVIOUS
<1>2. /\ cur \in Ops /\ Current(cur) /\ process \in {"starting", "up"} /\ Alive
      /\ record[cur].head = cur - 1 /\ record[cur].pin = cur - 1 /\ record[cur].fence # 0
      /\ gate.phase \in {"Open", "Closed", "Swapped"}
      /\ gate.phase \in {"Closed", "Swapped"} => Owns(cur)
  BY <1>1, JobFacts, ActivationAssumption
<1>3. /\ record \in [Ops -> CommandRows] /\ record'[cur] = row
      /\ record' \in [Ops -> CommandRows]
      /\ \A op \in Ops : op # cur => record'[op] = record[op]
  BY Zenon, <1>1, <1>2 DEF TypeOK, CommandRows
<1>4. TypeOK'
  BY Zenon, <1>3, InitialValues DEF TypeOK, CommandRows, FaultCounts
<1>5. ChainInv' /\ ServeInv'
  BY Zenon DEF ChainInv, ServeInv
<1>6. RecordInv'
  <2>1. \A op \in Ops : record[op].state # "New" /\ op # cur => ~(cur < op)
    BY <1>2 DEF RecordInv, Current, Unsettled
  <2>2. \A op \in Ops : op < cur => record[op].state = "Succeeded" /\ op # cur
    BY <1>2, InitialValues DEF Current, Unsettled
  <2>3. ASSUME NEW op \in Ops, op # cur
        PROVE  /\ record'[op].state = "Succeeded" => op <= Len(chain')
               /\ record'[op].state \in {"New", "RetryReady"} => op > Len(chain')
               /\ record'[op].state # "New" =>
                    /\ record'[op].head = op - 1 /\ record'[op].pin = op - 1
                    /\ record'[op].fence # 0
                    /\ \A earlier \in Ops : earlier < op => record'[earlier].state = "Succeeded"
    BY Zenon, <1>3, <2>1, <2>3 DEF RecordInv
  <2>4. /\ record'[cur].state = "Succeeded" => cur <= Len(chain')
        /\ record'[cur].state \in {"New", "RetryReady"} => cur > Len(chain')
        /\ record'[cur].head = cur - 1 /\ record'[cur].pin = cur - 1
        /\ record'[cur].fence # 0
        /\ \A earlier \in Ops : earlier < cur => record'[earlier].state = "Succeeded"
    BY SMTT(40), Zenon, <1>1, <1>2, <1>3, <2>2
  <2> QED
    BY <2>3, <2>4 DEF RecordInv
<1>7. TicketInv'
  BY Zenon, <1>1, <1>3 DEF TicketInv, Truthful
<1>8. GateInv'
  <2>1. ASSUME gate.phase \in {"Closed", "Swapped"}
        PROVE  \E op \in Ops : Owns(op)'
    <3>1. Owns(cur) /\ row.state = "Awaiting"
      BY Zenon, <1>2, <2>1
    <3>2. Owns(cur)'
      BY <1>1, <1>3, <3>1 DEF Owns
    <3> QED
      BY <1>2, <3>2
  <2> QED
    BY <1>2, <2>1 DEF GateInv, Alive
<1>9. JobInv'
  BY InitialValues DEF JobInv
<1> QED
  BY <1>4, <1>5, <1>6, <1>7, <1>8, <1>9

\* The actor records the success of an execution, or its record is lost.
LEMMA SettleStep ==
    ASSUME ActivationInv, Settle
    PROVE  ActivationInv'
<1>0. /\ job.pc = "settle" /\ job.pc # "idle" /\ job' = Idle
      /\ UNCHANGED <<chain, ticket, generation, process, validated, query,
                     gate, slot, pinned, pending>> /\ UNCHANGED sweeps
  BY DEF Settle, At
<1>1. faults' \in FaultCounts /\ sweeps' \in 0..MaxSweeps
  BY Zenon, <1>0, FaultTypes DEF ActivationInv, Settle, TypeOK
<1>2. job.op <= Len(chain) /\ gate.phase = "Open" /\ record[job.op] \in CommandRows
  <2>1. job.op = Len(chain) /\ gate.phase = "Open" /\ record[job.op] \in CommandRows /\ job.op \in Ops
    BY <1>0, JobFacts DEF StageInv
  <2> QED
    BY <2>1, InitialValues
<1>3. CASE record' = [record EXCEPT ![job.op].state = "Succeeded"]
  <2>1. PICK row : row = [record[job.op] EXCEPT !.state = "Succeeded"]
    BY Zenon
  <2>2. /\ row \in CommandRows /\ row.head = record[job.op].head /\ row.pin = record[job.op].pin
        /\ row.fence = record[job.op].fence /\ row.state = "Succeeded"
    BY <1>2, <2>1 DEF CommandRows
  <2>3. record' = [record EXCEPT ![job.op] = row]
    BY <1>3, <2>1
  <2> QED
    BY Zenon, <1>0, <1>1, <1>2, <2>2, <2>3, OutcomeStep
<1>4. CASE UNCHANGED record
  BY <1>0, <1>1, <1>4, GiveUpStep
<1> QED
  BY <1>3, <1>4 DEF Settle

\* The actor records that the activation awaits reconciliation, or its record
\* is lost.
LEMMA AwaitStep ==
    ASSUME ActivationInv, Await
    PROVE  ActivationInv'
<1>0. /\ job.pc = "await" /\ job.pc # "idle" /\ job' = Idle
      /\ UNCHANGED <<chain, ticket, generation, process, validated, query,
                     gate, slot, pinned, pending>> /\ UNCHANGED sweeps
  BY DEF Await, At
<1>1. faults' \in FaultCounts /\ sweeps' \in 0..MaxSweeps
  BY Zenon, <1>0, FaultTypes DEF ActivationInv, Await, TypeOK
<1>2. /\ record[job.op] \in CommandRows /\ Truthful(ticket[job.op].ticket, job.op)
  BY SMTT(40), Zenon, <1>0, JobFacts DEF StageInv
<1>3. CASE record' = [record EXCEPT ![job.op].state = "Awaiting"]
  <2>1. PICK row : row = [record[job.op] EXCEPT !.state = "Awaiting"]
    BY Zenon
  <2>2. /\ row \in CommandRows /\ row.head = record[job.op].head /\ row.pin = record[job.op].pin
        /\ row.fence = record[job.op].fence /\ row.state = "Awaiting"
    BY <1>2, <2>1 DEF CommandRows
  <2>3. record' = [record EXCEPT ![job.op] = row]
    BY <1>3, <2>1
  <2> QED
    BY Zenon, <1>0, <1>1, <1>2, <2>2, <2>3, OutcomeStep
<1>4. CASE UNCHANGED record
  BY <1>0, <1>1, <1>4, GiveUpStep
<1> QED
  BY <1>3, <1>4 DEF Await

\* A truthful ticket is stored, and the actor goes on to report it.
LEMMA TicketStep ==
    ASSUME ActivationInv, job.pc \in {"persist", "repersist"},
           UNCHANGED <<chain, record, generation, process, sweeps, validated, query, gate, slot,
                       pinned, pending, faults>>,
           NEW row \in [attempt : 0..MaxAttempt, ticket : Tickets \cup {NoTicket}],
           row.ticket = job.ticket, ticket' = [ticket EXCEPT ![job.op] = row],
           NEW pc, pc = IF job.pc = "persist" THEN "await" ELSE "observe", Go(pc)
    PROVE  ActivationInv'
<1> USE DEF ActivationInv
<1>1. PICK cur : cur = job.op
  BY SMTT(40), Zenon
<1>2. /\ cur \in Ops /\ Truthful(job.ticket, cur) /\ job \in Jobs
  <2>1. job \in Jobs
    BY DEF TypeOK
  <2>2. job.op \in Ops /\ StageInv
    BY Zenon, JobFacts
  <2>3. Truthful(job.ticket, job.op)
    BY <2>2 DEF StageInv
  <2> QED
    BY <1>1, <2>1, <2>2, <2>3
<1>3. /\ ticket'[cur] = row /\ \A op \in Ops : op # cur => ticket'[op] = ticket[op]
      /\ ticket' \in [Ops -> [attempt : 0..MaxAttempt, ticket : Tickets \cup {NoTicket}]]
  BY ZenonT(40), <1>1, <1>2 DEF TypeOK
<1>4. /\ job' \in Jobs /\ job'.pc = pc /\ job'.op = job.op /\ job'.ticket = job.ticket
  BY <1>2, JobTypes DEF Activating, Reconciling
<1>5. TypeOK'
  BY Zenon, <1>3, <1>4 DEF TypeOK
<1>6. ChainInv' /\ RecordInv' /\ ServeInv'
  BY DEF ChainInv, RecordInv, ServeInv
<1>7. GateInv'
  BY DEF GateInv, Owns, Alive
<1>8. TicketInv'
  BY <1>2, <1>3 DEF TicketInv, Truthful
<1>9. JobInv'
  <2>1. StageInv'
    BY <1>1, <1>2, <1>3, <1>4 DEF StageInv, Truthful
  <2> QED
    BY <1>4, <2>1 DEF JobInv, Activating, Reconciling
<1> QED
  BY <1>5, <1>6, <1>7, <1>8, <1>9

\* persist_reconciliation_sync.
LEMMA PersistTicketStep ==
    ASSUME ActivationInv, PersistTicket
    PROVE  ActivationInv'
<1>0. /\ job.pc = "persist" /\ job.pc # "idle"
      /\ UNCHANGED <<chain, record, generation, process, sweeps, validated, query,
                     gate, slot, pinned, pending>>
  BY DEF PersistTicket, At
<1>1. faults' \in FaultCounts
  BY FaultTypes DEF ActivationInv, PersistTicket
<1>2. CASE Abandon /\ UNCHANGED ticket
  BY <1>0, <1>1, <1>2, GiveUpStep DEF Abandon
<1>3. CASE /\ ticket' = [ticket EXCEPT ![job.op] = [attempt |-> This.attempt, ticket |-> job.ticket]]
           /\ Go("await") /\ UNCHANGED faults
  <2>1. PICK row : row = [attempt |-> This.attempt, ticket |-> job.ticket]
    BY Zenon
  <2>2. record[job.op] \in CommandRows /\ job.ticket \in Tickets
    BY <1>0, JobFacts DEF StageInv, Truthful
  <2>3. row \in [attempt : 0..MaxAttempt, ticket : Tickets \cup {NoTicket}] /\ row.ticket = job.ticket
    BY <2>1, <2>2 DEF This, CommandRows
  <2>4. ticket' = [ticket EXCEPT ![job.op] = row]
    BY <1>3, <2>1
  <2> QED
    BY Zenon, <1>0, <1>3, <2>3, <2>4, TicketStep
<1> QED
  BY <1>2, <1>3 DEF PersistTicket

\* What the actor records of a reconciliation, or fails to.
LEMMA RecordsStep ==
    ASSUME ActivationInv, job.pc # "idle", NEW state, NEW evidence, Records(state, evidence),
           UNCHANGED <<chain, ticket, generation, validated, query, gate, slot, pinned, pending>>,
           sweeps' \in 0..MaxSweeps, evidence \in Tickets \cup {NoTicket},
           \/ state = "Succeeded" /\ job.op <= Len(chain) /\ gate.phase = "Open"
           \/ state = "RetryReady" /\ job.op > Len(chain) /\ gate.phase = "Open"
           \/ state = "Awaiting" /\ Truthful(ticket[job.op].ticket, job.op)
    PROVE  ActivationInv'
<1>1. faults' \in FaultCounts
  BY FaultTypes DEF ActivationInv, Records
<1>2. CASE /\ record' = [record EXCEPT ![job.op].state = state, ![job.op].evidence = evidence]
           /\ job' = Idle /\ UNCHANGED process
  <2>1. record[job.op] \in CommandRows /\ job.op \in Ops
    BY JobFacts
  <2>2. PICK row : row = [record[job.op] EXCEPT !.state = state, !.evidence = evidence]
    OBVIOUS
  <2>3. /\ row \in CommandRows /\ row.head = record[job.op].head /\ row.pin = record[job.op].pin
        /\ row.fence = record[job.op].fence /\ row.state = state
    BY Zenon, <2>1, <2>2 DEF CommandRows
  <2>4. record' = [record EXCEPT ![job.op] = row]
    <3>1. record \in [Ops -> CommandRows]
      BY DEF ActivationInv, TypeOK, CommandRows
    <3> QED
      BY Zenon, <1>2, <2>1, <2>2, <3>1
  <2> QED
    BY ZenonT(40), <1>1, <1>2, <2>3, <2>4, OutcomeStep
<1>3. CASE Fails /\ UNCHANGED record
  <2>1. job' = Idle
    BY <1>3 DEF Fails
  <2> QED
    BY <1>1, <1>3, <2>1, GiveUpStep
<1> QED
  BY <1>2, <1>3 DEF Records

\* The end of a recovered selection.
LEMMA RecoverSettleStep ==
    ASSUME ActivationInv, RecoverSettle
    PROVE  ActivationInv'
<1>0. /\ job.pc = "resettle" /\ job.pc # "idle" /\ UNCHANGED sweeps
      /\ UNCHANGED <<chain, ticket, generation, validated, query, gate, slot, pinned, pending>>
  BY DEF RecoverSettle, At
<1>1. /\ job.op = Len(chain) /\ job.op \in Ops /\ gate.phase = "Open" /\ record[job.op] \in CommandRows
  BY <1>0, JobFacts DEF StageInv
<1>2. PICK evidence : evidence = This.evidence
  OBVIOUS
<1>3. Records("Succeeded", evidence)
  BY <1>2 DEF RecoverSettle, Records
<1>4. job.op <= Len(chain) /\ evidence \in Tickets \cup {NoTicket} /\ sweeps' \in 0..MaxSweeps
  BY <1>0, <1>1, <1>2, InitialValues DEF CommandRows, This, ActivationInv, TypeOK
<1> QED
  BY <1>0, <1>1, <1>3, <1>4, RecordsStep

\* The end of an append that was proved absent.
LEMMA RecoverRetryStep ==
    ASSUME ActivationInv, RecoverRetry
    PROVE  ActivationInv'
<1>0. /\ job.pc = "retry" /\ job.pc # "idle" /\ UNCHANGED sweeps
      /\ UNCHANGED <<chain, ticket, generation, validated, query, gate, slot, pinned, pending>>
  BY Zenon DEF RecoverRetry, At
<1>1. /\ job.op = Len(chain) + 1 /\ gate.phase = "Open" /\ record[job.op] \in CommandRows
      /\ Len(chain) \in Nat
  BY <1>0, JobFacts, TypeFacts DEF StageInv, ActivationInv
<1>2. PICK evidence : evidence = This.evidence
  OBVIOUS
<1>3. Records("RetryReady", evidence)
  BY <1>2 DEF RecoverRetry, Records
<1>4. job.op > Len(chain) /\ evidence \in Tickets \cup {NoTicket} /\ sweeps' \in 0..MaxSweeps
  BY <1>0, <1>1, <1>2 DEF CommandRows, This, ActivationInv, TypeOK
<1> QED
  BY <1>0, <1>1, <1>3, <1>4, RecordsStep

\* The next ticket of an indeterminate reconciliation is stored, or the
\* reconciliation fails.
LEMMA RepersistTicketStep ==
    ASSUME ActivationInv, RepersistTicket
    PROVE  ActivationInv'
<1>0. /\ job.pc = "repersist" /\ job.pc # "idle"
      /\ UNCHANGED <<chain, record, generation, sweeps, validated, query,
                     gate, slot, pinned, pending>>
  BY DEF RepersistTicket, At
<1>1. faults' \in FaultCounts
  BY FaultTypes DEF ActivationInv, RepersistTicket
<1>2. CASE Fails /\ UNCHANGED ticket
  <2>1. job' = Idle
    BY <1>2 DEF Fails
  <2> QED
    BY <1>0, <1>1, <1>2, <2>1, GiveUpStep
<1>3. CASE /\ ticket' = [ticket EXCEPT ![job.op].ticket = job.ticket]
           /\ Go("observe") /\ UNCHANGED <<process, faults>>
  <2>1. PICK row : row = [ticket[job.op] EXCEPT !.ticket = job.ticket]
    BY ZenonT(40)
  <2>2. job.op \in Ops /\ job.ticket \in Tickets
    BY <1>0, JobFacts DEF StageInv, Truthful
  <2>3. row \in [attempt : 0..MaxAttempt, ticket : Tickets \cup {NoTicket}] /\ row.ticket = job.ticket
    BY ZenonT(40), <2>1, <2>2 DEF ActivationInv, TypeOK
  <2>4. ticket' = [ticket EXCEPT ![job.op] = row]
    BY <1>3, <2>1
  <2> QED
    BY Zenon, <1>0, <1>3, <2>3, <2>4, TicketStep
<1> QED
  BY <1>2, <1>3 DEF RepersistTicket

\* The evidence of an indeterminate reconciliation is recorded.
LEMMA ObserveStep ==
    ASSUME ActivationInv, Observe
    PROVE  ActivationInv'
<1>0. /\ job.pc = "observe" /\ job.pc # "idle" /\ job.pc \in Reconciling
      /\ UNCHANGED <<chain, ticket, generation, validated, query, gate, slot, pinned, pending>>
  BY Zenon DEF Observe, Reconciling
<1>1. /\ job.ticket \in Tickets /\ Truthful(ticket[job.op].ticket, job.op)
  BY <1>0, JobFacts DEF StageInv, Truthful
<1>2. PICK evidence : evidence = job.ticket
  OBVIOUS
<1>3. Records("Awaiting", evidence)
  BY <1>2 DEF Observe, Records
<1>4. sweeps' \in 0..MaxSweeps
  <2>1. process = "starting" => sweeps < MaxSweeps
    BY <1>0 DEF ActivationInv, JobInv
  <2>2. sweeps \in 0..MaxSweeps /\ MaxSweeps \in Nat
    BY ActivationAssumption DEF ActivationInv, TypeOK
  <2> QED
    BY SMTT(40), Zenon, <2>1, <2>2 DEF Observe
<1> QED
  BY <1>0, <1>1, <1>2, <1>3, <1>4, RecordsStep

-----------------------------------------------------------------------------
(* The beginning of an execution and of a reconciliation.                  *)

\* An activation begins on the head the open gate serves.
LEMMA BeginStep ==
    ASSUME ActivationInv, NEW op \in Ops, Begin(op)
    PROVE  ActivationInv'
<1> USE DEF ActivationInv
<1>0. /\ job = Idle /\ Current(op) /\ record[op].state \in {"New", "RetryReady"}
      /\ record[op].attempt < MaxAttempt /\ process \in {"starting", "up"}
      /\ job' = [Idle EXCEPT !.pc = "prove", !.op = op]
      /\ validated' = IF record[op].state = "New" THEN op ELSE validated
      /\ UNCHANGED <<chain, ticket, generation, process, sweeps, gate, slot, pinned, pending,
                     query, faults>>
  BY DEF Begin, Admissible
<1>1. /\ Len(chain) \in {op - 1, op} /\ op > Len(chain) /\ op \in Nat /\ op \in 0..MaxOps
      /\ Len(chain) \in Nat
  BY <1>0, ChainFacts, TypeFacts, InitialValues DEF RecordInv
<1>2. Len(chain) = op - 1
  BY <1>1
<1>3. gate.phase = "Open" /\ slot = op - 1 /\ pinned = op - 1 /\ generation # 0 /\ Alive
  <2>1. gate.phase \in {"Open", "Closed", "Swapped"} /\ Alive /\ generation # 0
    BY <1>0, TypeFacts DEF GateInv, Gates, Alive
  <2>2. ASSUME gate.phase \in {"Closed", "Swapped"} PROVE FALSE
    <3>1. PICK o \in Ops : Owns(o)
      BY <2>1, <2>2 DEF GateInv
    <3>2. o = op
      BY <1>0, <3>1, ChainFacts DEF Owns
    <3> QED
      BY <1>0, <3>1, <3>2 DEF Owns
  <2> QED
    BY <1>2, <2>1, <2>2 DEF GateInv
<1>4. PICK row : row = [record[op] EXCEPT !.state = "Prepared", !.attempt = record[op].attempt + 1,
                          !.fence = generation, !.evidence = NoTicket,
                          !.head = IF record[op].state = "New" THEN slot ELSE record[op].head,
                          !.pin = IF record[op].state = "New" THEN pinned ELSE record[op].pin]
  OBVIOUS
<1>5. record[op] \in CommandRows /\ record \in [Ops -> CommandRows]
  BY TypeFacts DEF TypeOK, CommandRows
<1>6. record' = [record EXCEPT ![op] = row]
  BY <1>4, <1>5 DEF Begin, CommandRows
<1>7. /\ row \in CommandRows /\ row.state = "Prepared" /\ row.head = op - 1 /\ row.pin = op - 1
      /\ row.fence # 0
  <2>1. record[op].state = "RetryReady" => record[op].head = op - 1 /\ record[op].pin = op - 1
    BY DEF RecordInv
  <2>2. record[op].attempt + 1 \in 0..MaxAttempt
    BY <1>0, <1>5, ActivationAssumption DEF CommandRows
  <2>3. generation \in 0..MaxGeneration /\ slot \in 0..MaxOps /\ pinned \in Nat
    BY DEF TypeOK
  <2> QED
    BY Zenon, <1>0, <1>3, <1>4, <1>5, <2>1, <2>2, <2>3 DEF CommandRows
<1>8. /\ record'[op] = row /\ record' \in [Ops -> CommandRows]
      /\ \A o \in Ops : o # op => record'[o] = record[o]
  BY <1>5, <1>6, <1>7
<1>9. /\ job' \in Jobs /\ job'.pc = "prove" /\ job'.op = op
  <2>1. Idle \in Jobs
    BY InitialValues
  <2> QED
    BY Zenon, <1>0, <1>1, <2>1 DEF Jobs, Activating
<1>10. TypeOK'
  BY Zenon, <1>0, <1>1, <1>8, <1>9 DEF TypeOK, CommandRows
<1>11. ChainInv' /\ ServeInv'
  BY ZenonT(40), <1>0 DEF ChainInv, ServeInv
<1>12. RecordInv'
  <2>1. \A o \in Ops : record[o].state # "New" /\ o # op => ~(op < o)
    BY <1>0 DEF RecordInv, Current, Unsettled
  <2>2. \A o \in Ops : o < op => record[o].state = "Succeeded" /\ o # op
    BY <1>0, InitialValues DEF Current, Unsettled
  <2>3. ASSUME NEW o \in Ops, o # op
        PROVE  /\ record'[o].state = "Succeeded" => o <= Len(chain')
               /\ record'[o].state \in {"New", "RetryReady"} => o > Len(chain')
               /\ record'[o].state # "New" =>
                    /\ record'[o].head = o - 1 /\ record'[o].pin = o - 1
                    /\ record'[o].fence # 0
                    /\ \A earlier \in Ops : earlier < o => record'[earlier].state = "Succeeded"
    BY <1>0, <1>8, <2>1, <2>3 DEF RecordInv
  <2>4. /\ record'[op].state = "Prepared" /\ record'[op].head = op - 1 /\ record'[op].pin = op - 1
        /\ record'[op].fence # 0
        /\ \A earlier \in Ops : earlier < op => record'[earlier].state = "Succeeded"
    BY <1>7, <1>8, <2>2
  <2> QED
    BY <2>3, <2>4 DEF RecordInv
<1>13. TicketInv'
  BY <1>0, <1>7, <1>8 DEF TicketInv, Truthful
<1>14. GateInv'
  BY <1>0, <1>3 DEF GateInv, Alive
<1>15. JobInv'
  <2>1. StageInv'
    BY <1>0, <1>1, <1>2, <1>3, <1>9 DEF StageInv
  <2> QED
    BY <1>0, <1>7, <1>8, <1>9, <2>1 DEF JobInv, Activating, Reconciling
<1> QED
  BY <1>10, <1>11, <1>12, <1>13, <1>14, <1>15

\* load_reconciliation: the stored ticket is truthful, and so is the one a
\* mismatch is downgraded to.
LEMMA LoadTicketStep ==
    ASSUME ActivationInv, NEW op \in Ops, LoadTicket(op)
    PROVE  ActivationInv'
<1> USE DEF ActivationInv
<1>0. /\ process \in {"starting", "up"}
      /\ process = "starting" => sweeps < MaxSweeps
      /\ job = Idle /\ record[op].state = "Awaiting"
      /\ UNCHANGED <<chain, record, ticket, generation, sweeps, validated, query, gate, slot,
                     pinned, pending, faults>>
  BY DEF LoadTicket, durable
<1>1. faults' \in FaultCounts
  BY <1>0, FaultTypes
<1>2. CASE Fails
  <2>1. job' = Idle
    BY <1>2 DEF Fails
  <2> QED
    BY <1>0, <1>1, <1>2, <2>1, GiveUpStep
<1>3. CASE ~Fails
  <2>1. PICK t : t = ticket[op].ticket
    OBVIOUS
  <2>2. Truthful(t, op)
    BY <1>0, <2>1 DEF TicketInv
  <2>3. /\ process' = process
        /\ \/ job' = [Idle EXCEPT !.op = op, !.ticket = t, !.pc = "marker"]
           \/ job' = [Idle EXCEPT !.op = op, !.pc = "repersist",
                                  !.ticket = [t EXCEPT !.know = "Unknown", !.reason = "mismatch"]]
    BY Zenon, <1>3, <2>1 DEF LoadTicket, Idle
  <2>4. /\ job' \in Jobs /\ job'.op = op /\ job'.pc \in {"marker", "repersist"}
        /\ Truthful(job'.ticket, op)
    <3>1. Idle \in Jobs /\ op \in 0..MaxOps
      BY InitialValues
    <3>2. CASE job' = [Idle EXCEPT !.op = op, !.ticket = t, !.pc = "marker"]
      BY Zenon, <2>2, <3>1, <3>2 DEF Jobs, Reconciling, Truthful
    <3>3. CASE job' = [Idle EXCEPT !.op = op, !.pc = "repersist",
                                   !.ticket = [t EXCEPT !.know = "Unknown", !.reason = "mismatch"]]
      <4>1. PICK u : u = [t EXCEPT !.know = "Unknown", !.reason = "mismatch"]
        OBVIOUS
      <4>2. u \in Tickets /\ u.know = "Unknown"
        BY Zenon, <2>2, <4>1 DEF Truthful, Tickets
      <4> QED
        BY Zenon, <3>1, <3>3, <4>1, <4>2 DEF Jobs, Reconciling, Truthful
    <3> QED
      BY <2>3, <3>2, <3>3
  <2>5. JobInv'
    <3>1. StageInv'
      BY <1>0, <2>4 DEF StageInv, Truthful
    <3>2. /\ process' \in {"starting", "up"} /\ job'.op \in Ops /\ job'.pc # "idle"
          /\ record'[job'.op].state = "Awaiting" /\ ~(job'.pc \in Activating)
          /\ process' = "starting" => sweeps' < MaxSweeps
      BY SMTT(40), Zenon, <1>0, <2>3, <2>4 DEF Activating
    <3> QED
      BY Zenon, <3>1, <3>2 DEF JobInv
  <2> QED
    BY <1>0, <1>1, <2>3, <2>4, <2>5, StageStep DEF Recorded
<1> QED
  BY <1>2, <1>3

-----------------------------------------------------------------------------
(* The reconciliation of an activation.                                    *)

\* What holds wherever the actor reconciles an activation.
LEMMA ReconcilingFacts ==
    ASSUME ActivationInv, job.pc \in Reconciling
    PROVE  /\ job.pc # "idle" /\ job.op \in Ops /\ job.op \in Nat /\ job.op \in 0..MaxOps
           /\ Len(chain) \in Nat /\ Len(chain) \in {job.op - 1, job.op}
           /\ job \in Jobs /\ gate \in Gates
           /\ pending \in [barrier : Barriers, epoch : 0..MaxOps]
           /\ slot \in 0..MaxOps /\ slot <= Len(chain) /\ pinned \in Nat
  BY ZenonT(40), JobFacts, TypeFacts, InitialValues DEF Reconciling, ActivationInv, TypeOK, ServeInv

\* A marker that cannot be read leaves the ticket's knowledge as it was.
LEMMA MarkerUnknownStep ==
    ASSUME ActivationInv, job.pc = "marker", UNCHANGED <<Recorded, slot, pending>>,
           faults' \in FaultCounts, MarkerUnknown
    PROVE  ActivationInv'
<1>1. Truthful(job.ticket, job.op) /\ job.pc \in Reconciling
  BY JobFacts DEF StageInv, Reconciling
<1>2. PICK know, posture : know = job.ticket.know /\ posture = job.ticket.posture
  OBVIOUS
<1>3. Needs("repersist", "DurableAppendReadback", know, posture, "marker")
  BY ZenonT(40), <1>2 DEF MarkerUnknown, Needs
<1>4. [stage |-> "DurableAppendReadback", know |-> know, posture |-> posture,
       reason |-> "marker"] \in Tickets
  BY <1>1, <1>2 DEF Truthful, Tickets, Stages, Postures
<1> QED
  BY ZenonT(40), <1>1, <1>2, <1>3, <1>4, NeedsStep DEF MarkerUnknown, Truthful

\* An append that is proved absent gives the gate back to the head before it.
LEMMA ProvedNotSelectedStep ==
    ASSUME ActivationInv, job.pc = "marker", UNCHANGED <<Recorded, slot, pending>>,
           faults' \in FaultCounts, ProvedAbsent, ProvedNotSelected
    PROVE  ActivationInv'
<1>0. job.pc \in Reconciling /\ job.pc # "idle" /\ UNCHANGED pinned
  BY Zenon DEF Reconciling, ProvedNotSelected
<1>1. /\ job.op \in Ops /\ job.op \in Nat /\ Len(chain) \in Nat /\ job \in Jobs /\ gate \in Gates
      /\ Truthful(job.ticket, job.op) /\ record[job.op].pin = job.op - 1
      /\ gate.phase \in {"Open", "Closed", "Swapped"}
      /\ gate.phase = "Open" => slot = Len(chain) /\ pinned = Len(chain)
      /\ gate.phase = "Closed" => Owns(job.op)
  BY Zenon, <1>0, JobFacts, ReconcilingFacts DEF StageInv
<1>2. Len(chain) = job.op - 1 /\ job.op > Len(chain)
  BY <1>1 DEF ProvedAbsent, This
<1>3. PICK posture : posture = job.ticket.posture
  OBVIOUS
<1>4. CASE Needs("repersist", "DurableAppendReadback", "Unknown", posture, "mismatch") /\ UNCHANGED gate
  <2>1. [stage |-> "DurableAppendReadback", know |-> "Unknown", posture |-> posture,
         reason |-> "mismatch"] \in Tickets
    BY <1>1, <1>3 DEF Truthful, Tickets, Stages, Postures
  <2> QED
    BY Zenon, <1>0, <1>4, <2>1, NeedsStep
<1>5. CASE Needs("repersist", "AdmissionReopen", "NotAttempted", posture, "admission") /\ UNCHANGED gate
  <2>1. [stage |-> "AdmissionReopen", know |-> "NotAttempted", posture |-> posture,
         reason |-> "admission"] \in Tickets
    BY <1>1, <1>3 DEF Truthful, Tickets, Stages, Postures
  <2> QED
    BY ZenonT(40), <1>0, <1>2, <1>5, <2>1, NeedsStep
<1>6. CASE /\ NoSelectionAccepts(gate, This.head, This.fence)
           /\ gate' = NoSelectionGate(gate) /\ Go("retry")
  <2>1. gate.phase \in {"Open", "Closed"} /\ slot = Len(chain) /\ pinned = Len(chain)
    BY <1>1, <1>2, <1>6 DEF NoSelectionAccepts, Owns
  <2>2. gate' \in Gates /\ gate'.phase = "Open"
    <3>1. PICK g \in Gates : g = gate
      BY <1>1
    <3>2. gate' = IF g.phase = "Open" THEN g ELSE Opened(g)
      BY ZenonT(40), <1>6, <3>1 DEF NoSelectionGate, Opened
    <3> QED
      BY <3>2, GateOpens
  <2>3. job' \in Jobs /\ job'.pc = "retry" /\ job'.op = job.op
    BY <1>1, <1>6, JobTypes DEF Reconciling
  <2>4. GateInv'
    <3>1. PICK op : op = job.op
      BY ZenonT(40)
    <3> QED
      BY <1>0, <2>1, <2>2, <3>1, GateMoves
  <2>5. StageInv'
    BY <1>1, <1>2, <2>2, <2>3 DEF StageInv, Recorded
  <2>6. JobInv'
    BY <1>0, <2>3, <2>5, JobMoves DEF Reconciling
  <2> QED
    BY ZenonT(40), <1>0, <2>2, <2>3, <2>4, <2>6, ActorStep, ReconcilingFacts
<1> QED
  <2>1. \/ /\ Needs("repersist", "DurableAppendReadback", "Unknown", job.ticket.posture, "mismatch")
           /\ UNCHANGED gate
        \/ /\ NoSelectionAccepts(gate, This.head, This.fence)
           /\ gate' = NoSelectionGate(gate) /\ Go("retry")
        \/ /\ Needs("repersist", "AdmissionReopen", "NotAttempted", job.ticket.posture, "admission")
           /\ UNCHANGED gate
    BY DEF ProvedNotSelected
  <2> QED
    BY ZenonT(40), <1>3, <1>4, <1>5, <1>6, <2>1 DEF Needs

\* The marker is read: the event is selected, proved absent, or unknown.
LEMMA ReadMarkerStep ==
    ASSUME ActivationInv, ReadMarker
    PROVE  ActivationInv'
<1>0. /\ job.pc = "marker" /\ job.pc \in Reconciling /\ job.pc # "idle" /\ UNCHANGED Recorded
      /\ UNCHANGED <<slot, pending>>
  BY DEF ReadMarker, At, Recorded, Reconciling
<1>1. faults' \in FaultCounts
  BY FaultTypes DEF ActivationInv, ReadMarker
<1>2. CASE MarkerUnknown
  BY <1>0, <1>1, <1>2, MarkerUnknownStep
<1>3. CASE ProvedAbsent /\ ProvedNotSelected
  BY ZenonT(40), <1>0, <1>1, <1>3, ProvedNotSelectedStep
<1>4. CASE Selected /\ pinned' = This.pin + 1 /\ Go("recover") /\ UNCHANGED gate
  <2>1. /\ job.op \in Ops /\ job.op \in Nat /\ Len(chain) \in Nat /\ job \in Jobs /\ gate \in Gates
        /\ record[job.op].pin = job.op - 1 /\ Len(chain) \in {job.op - 1, job.op}
        /\ gate.phase \in {"Open", "Closed", "Swapped"}
        /\ gate.phase = "Open" => slot = Len(chain) /\ pinned = Len(chain)
        /\ gate.phase \in {"Closed", "Swapped"} => Owns(job.op)
        /\ Truthful(job.ticket, job.op)
    BY Zenon, <1>0, JobFacts, ReconcilingFacts DEF StageInv
  <2>2. Len(chain) = job.op /\ pinned' = job.op
    <3>1. PICK op \in Nat : op = job.op /\ record[job.op].pin = op - 1 /\ Len(chain) \in {op - 1, op}
      BY Zenon, <2>1
    <3>2. Len(chain) > op - 1 /\ pinned' = (op - 1) + 1
      BY SMTT(40), Zenon, <1>4, <3>1 DEF Selected, This
    <3> QED
      BY <3>1, <3>2
  <2>3. job' \in Jobs /\ job'.pc = "recover" /\ job'.op = job.op /\ job'.ticket = job.ticket
    BY ZenonT(40), <1>4, <2>1, JobTypes DEF Reconciling
  <2>4. GateInv'
    <3>1. PICK op \in Nat : /\ op = job.op /\ Len(chain) = op /\ pinned' = op
                            /\ gate.phase \in {"Closed", "Swapped"} => Owns(op)
      BY ZenonT(40), <2>1, <2>2
    <3>2. gate.phase \in {"Closed", "Swapped"} => Owns(op)'
      BY SMTT(40), Zenon, <1>0, <1>4, <3>1 DEF Owns, Recorded
    <3> QED
      BY ZenonT(40), <1>0, <1>4, <2>1, <2>2, <3>1, <3>2, GateMoves
  <2>5. StageInv'
    BY ZenonT(40), <1>0, <2>1, <2>2, <2>3 DEF StageInv, Truthful, Recorded
  <2>6. JobInv'
    BY Zenon, <1>0, <2>3, <2>5, JobMoves DEF Reconciling
  <2>7. pinned' \in Nat
    BY <2>1, <2>2
  <2> QED
    BY SMTT(40), Zenon, <1>0, <1>1, <1>4, <2>1, <2>3, <2>4, <2>6, <2>7, ActorStep, ReconcilingFacts
<1> QED
  <2>1. ~(Selected /\ ProvedAbsent)
    BY <1>0, ReconcilingFacts DEF Selected, ProvedAbsent
  <2> QED
    BY ZenonT(40), <1>2, <1>3, <1>4, <2>1 DEF ReadMarker

\* recover_selected_epoch: a gate recovery accepts is, or becomes, the
\* selection's.
LEMMA RecoverSelectedStep ==
    ASSUME ActivationInv, RecoverSelected
    PROVE  ActivationInv'
<1>0. /\ job.pc = "recover" /\ job.pc \in Reconciling /\ job.pc # "idle" /\ UNCHANGED Recorded
      /\ UNCHANGED <<slot, pinned, pending>>
  BY DEF RecoverSelected, At, Recorded, Reconciling
<1>1. faults' \in FaultCounts
  BY Zenon, FaultTypes DEF ActivationInv, RecoverSelected
<1>2. /\ job.op \in Ops /\ job.op \in Nat /\ job.op \in 0..MaxOps /\ job \in Jobs /\ gate \in Gates
      /\ job.op = Len(chain) /\ pinned = job.op
      /\ gate.phase \in {"Open", "Closed", "Swapped"}
      /\ gate.phase = "Open" => slot = Len(chain)
      /\ gate.phase \in {"Closed", "Swapped"} => Owns(job.op)
      /\ record[job.op] \in CommandRows /\ job.ticket \in Tickets
  BY Zenon, <1>0, JobFacts, ReconcilingFacts DEF StageInv, Truthful
<1>3. CASE Unrecovered
  <2>1. PICK posture : posture = job.ticket.posture
    OBVIOUS
  <2>2. Needs("repersist", "EpochSwap", "ReadBack", posture, "admission") /\ UNCHANGED gate
    BY Zenon, <1>3, <2>1 DEF Unrecovered, Needs
  <2>3. [stage |-> "EpochSwap", know |-> "ReadBack", posture |-> posture,
         reason |-> "admission"] \in Tickets
    BY SMTT(40), Zenon, <1>2, <2>1 DEF Tickets, Stages
  <2>4. job.op <= Len(chain)
    BY <1>2
  <2> QED
    BY SMTT(40), Zenon, <1>0, <1>1, <2>2, <2>3, <2>4, NeedsStep
<1>4. CASE /\ gate' = RecoveredGate(gate, job.op, This.head, generation)
           /\ job' = [job EXCEPT !.pc = "reslot", !.reopened = (gate.phase = "Open")]
  <2>1. /\ gate' \in Gates
        /\ gate.phase = "Closed" => gate'.phase = "Swapped" /\ gate'.epoch = job.op
        /\ gate.phase \in {"Open", "Swapped"} => gate' = gate
    <3>1. PICK g \in Gates, epoch \in 0..MaxOps, head \in 0..MaxOps, fence \in 0..MaxGeneration :
            g = gate /\ epoch = job.op /\ head = This.head /\ fence = generation
      BY Zenon, <1>2 DEF CommandRows, This, ActivationInv, TypeOK
    <3>2. gate' = RecoveredGate(g, epoch, head, fence)
      BY <1>4, <3>1 DEF RecoveredGate
    <3> QED
      BY <3>1, <3>2, GateRecovers
  <2>2. job' \in Jobs /\ job'.pc = "reslot" /\ job'.op = job.op /\ job'.reopened = (gate.phase = "Open")
    BY ZenonT(40), <1>2, <1>4 DEF Jobs, Reconciling
  <2>3. gate'.phase = IF gate.phase = "Open" THEN "Open" ELSE "Swapped"
    BY <1>2, <2>1
  <2>4. GateInv'
    <3>1. PICK op : op = job.op
      OBVIOUS
    <3>2. gate.phase # "Open" => Owns(op)'
      BY <1>0, <1>2, <2>1, <2>3, <3>1 DEF Owns, Recorded
    <3> QED
      BY ZenonT(40), <1>0, <1>2, <2>3, <3>1, <3>2, GateMoves
  <2>5. StageInv'
    BY ZenonT(40), <1>0, <1>2, <2>2, <2>3 DEF StageInv, Recorded
  <2>6. JobInv'
    BY <1>0, <2>2, <2>5, JobMoves DEF Reconciling
  <2> QED
    BY Zenon, <1>0, <1>1, <2>1, <2>2, <2>4, <2>6, ActorStep, ReconcilingFacts
<1> QED
  BY <1>3, <1>4 DEF RecoverSelected

\* The slot serves the recovered selection.
LEMMA RecoverSlotStep ==
    ASSUME ActivationInv, RecoverSlot
    PROVE  ActivationInv'
<1>0. /\ job.pc = "reslot" /\ job.pc \in Reconciling /\ job.pc # "idle" /\ UNCHANGED Recorded
      /\ UNCHANGED <<gate, pinned, pending, faults>> /\ slot' = job.op /\ Go("recache")
  BY DEF RecoverSlot, At, Recorded, Reconciling
<1>1. faults' \in FaultCounts
  BY ZenonT(40), <1>0, FaultTypes DEF ActivationInv
<1>2. /\ job.op \in Ops /\ job.op \in Nat /\ job.op \in 0..MaxOps /\ job \in Jobs /\ gate \in Gates
      /\ job.op = Len(chain) /\ gate.phase = IF job.reopened THEN "Open" ELSE "Swapped"
      /\ gate.phase = "Open" => pinned = Len(chain)
      /\ gate.phase = "Swapped" => Owns(job.op)
  BY SMTT(40), Zenon, <1>0, JobFacts, ReconcilingFacts DEF StageInv
<1>3. job' \in Jobs /\ job'.pc = "recache" /\ job'.op = job.op /\ job'.reopened = job.reopened
  BY Zenon, <1>0, <1>2, JobTypes DEF Reconciling
<1>4. GateInv'
  <2>1. PICK op : op = job.op
    OBVIOUS
  <2>2. gate.phase = "Swapped" => Owns(op)'
    BY ZenonT(40), <1>0, <1>2, <2>1 DEF Owns, Recorded
  <2> QED
    BY SMTT(40), Zenon, <1>0, <1>2, <2>1, <2>2, GateMoves
<1>5. StageInv'
  BY ZenonT(40), <1>0, <1>2, <1>3 DEF StageInv, Recorded
<1>6. JobInv'
  BY Zenon, <1>0, <1>3, <1>5, JobMoves DEF Reconciling
<1>7. slot' <= Len(chain) /\ slot' \in 0..MaxOps
  BY <1>0, <1>2
<1> QED
  BY Zenon, <1>0, <1>1, <1>2, <1>3, <1>4, <1>6, <1>7, ActorStep, ReconcilingFacts

\* The caches of a recovered selection are reconciled.
LEMMA RecoverCacheStep ==
    ASSUME ActivationInv, RecoverCache
    PROVE  ActivationInv'
<1>0. /\ job.pc = "recache" /\ UNCHANGED <<Recorded, gate, slot, pinned, pending>>
      /\ job.pc \in Reconciling /\ job.pc # "idle"
  BY DEF RecoverCache, At, Recorded, Reconciling
<1>1. faults' \in FaultCounts
  BY ZenonT(40), FaultTypes DEF ActivationInv, RecoverCache
<1>2. /\ job.op = Len(chain) /\ Len(chain) \in Nat /\ job \in Jobs
      /\ gate.phase = IF job.reopened THEN "Open" ELSE "Swapped"
  BY <1>0, JobFacts, ReconcilingFacts DEF StageInv
<1>3. CASE Go(IF job.reopened THEN "reacknowledge" ELSE "rereopen")
  <2>1. PICK pc : pc = IF job.reopened THEN "reacknowledge" ELSE "rereopen"
    OBVIOUS
  <2>2. Go(pc)
    BY <1>3, <2>1 DEF Go
  <2>3. pc \in {"reacknowledge", "rereopen"} /\ (pc = "reacknowledge" <=> job.reopened)
    BY Zenon, <2>1
  <2>4. job'.pc = pc /\ job'.op = job.op
    BY Zenon, <1>2, <2>2, <2>3, JobTypes DEF Reconciling
  <2>5. StageInv'
    BY Zenon, <1>0, <1>2, <2>3, <2>4 DEF StageInv, Recorded
  <2> QED
    BY <1>0, <1>1, <2>2, <2>3, <2>5, GoStep DEF Reconciling
<1>4. CASE Needs("repersist", "CacheReconciliation", "ReadBack",
                 IF job.reopened THEN "Reopened" ELSE "Swapped", "cache")
  <2>1. PICK posture : posture = IF job.reopened THEN "Reopened" ELSE "Swapped"
    OBVIOUS
  <2>2. Needs("repersist", "CacheReconciliation", "ReadBack", posture, "cache")
    BY <1>4, <2>1 DEF Needs
  <2>3. [stage |-> "CacheReconciliation", know |-> "ReadBack", posture |-> posture,
         reason |-> "cache"] \in Tickets
    BY SMTT(40), Zenon, <2>1 DEF Tickets, Stages, Postures
  <2> QED
    BY <1>0, <1>1, <1>2, <2>2, <2>3, NeedsStep
<1> QED
  BY <1>3, <1>4 DEF RecoverCache

\* reopen_recovered_selection.
LEMMA RecoverReopenStep ==
    ASSUME ActivationInv, RecoverReopen
    PROVE  ActivationInv'
<1>0. /\ job.pc = "rereopen" /\ job.pc \in Reconciling /\ job.pc # "idle" /\ UNCHANGED Recorded
      /\ UNCHANGED <<slot, pinned, pending, faults>>
  BY DEF RecoverReopen, At, Recorded, Reconciling
<1>1. faults' \in FaultCounts
  BY ZenonT(40), <1>0, FaultTypes DEF ActivationInv
<1>2. /\ job.op = Len(chain) /\ Len(chain) \in Nat /\ job \in Jobs /\ gate \in Gates
      /\ gate.phase = "Swapped" /\ Owns(job.op)
  BY <1>0, JobFacts, ReconcilingFacts DEF StageInv
<1>3. CASE slot = job.op /\ gate' = Opened(gate) /\ Go("reacknowledge")
  <2>1. gate' \in Gates /\ gate'.phase = "Open"
    <3>1. PICK g \in Gates : g = gate
      BY <1>2
    <3>2. gate' = Opened(g)
      BY ZenonT(40), <1>3, <3>1 DEF Opened
    <3> QED
      BY <3>2, GateOpens
  <2>2. job' \in Jobs /\ job'.pc = "reacknowledge" /\ job'.op = job.op
    BY <1>2, <1>3, JobTypes DEF Reconciling
  <2>3. pinned = Len(chain)
    BY <1>2 DEF Owns
  <2>4. GateInv'
    <3>1. PICK op : op = job.op
      OBVIOUS
    <3> QED
      BY Zenon, <1>0, <1>2, <1>3, <2>1, <2>3, <3>1, GateMoves
  <2>5. StageInv'
    BY Zenon, <1>0, <1>2, <2>1, <2>2 DEF StageInv, Recorded
  <2>6. JobInv'
    BY <1>0, <2>2, <2>5, JobMoves DEF Reconciling
  <2> QED
    BY <1>0, <1>1, <2>1, <2>2, <2>4, <2>6, ActorStep, ReconcilingFacts
<1>4. CASE /\ Needs("repersist", "AdmissionReopen", "ReadBack", "Swapped", "admission")
           /\ UNCHANGED gate
  <2>1. [stage |-> "AdmissionReopen", know |-> "ReadBack", posture |-> "Swapped",
         reason |-> "admission"] \in Tickets
    BY DEF Tickets, Stages, Postures
  <2> QED
    BY <1>0, <1>1, <1>2, <1>4, <2>1, NeedsStep
<1> QED
  BY Zenon, <1>3, <1>4 DEF RecoverReopen

\* The acknowledgement of a recovered selection.
LEMMA RecoverAcknowledgeStep ==
    ASSUME ActivationInv, RecoverAcknowledge
    PROVE  ActivationInv'
<1>0. /\ job.pc = "reacknowledge" /\ UNCHANGED <<Recorded, gate, slot, pinned, pending>>
      /\ job.pc \in Reconciling /\ job.pc # "idle"
  BY DEF RecoverAcknowledge, At, Recorded, Reconciling
<1>1. faults' \in FaultCounts
  BY ZenonT(40), FaultTypes DEF ActivationInv, RecoverAcknowledge
<1>2. job.op = Len(chain) /\ Len(chain) \in Nat /\ job \in Jobs /\ gate.phase = "Open"
  BY <1>0, JobFacts, ReconcilingFacts DEF StageInv
<1>3. CASE Go("resettle")
  <2>1. job'.pc = "resettle" /\ job'.op = job.op
    BY Zenon, <1>2, <1>3, JobTypes DEF Reconciling
  <2>2. StageInv'
    BY Zenon, <1>0, <1>2, <2>1 DEF StageInv, Recorded
  <2> QED
    BY Zenon, <1>0, <1>1, <1>3, <2>2, GoStep DEF Reconciling
<1>4. CASE Needs("repersist", "Acknowledgement", "ReadBack", "Reopened", "acknowledge")
  <2>1. [stage |-> "Acknowledgement", know |-> "ReadBack", posture |-> "Reopened",
         reason |-> "acknowledge"] \in Tickets
    BY DEF Tickets, Stages, Postures
  <2> QED
    BY <1>0, <1>1, <1>2, <1>4, <2>1, NeedsStep
<1> QED
  BY <1>3, <1>4 DEF RecoverAcknowledge

-----------------------------------------------------------------------------
(* The process, and the queries.                                           *)

\* A step of the process that leaves the chain, the records and the tickets.
LEMMA LifecycleStep ==
    ASSUME ActivationInv, UNCHANGED <<chain, record, ticket>>, TypeOK', GateInv', ServeInv',
           job' = Idle
    PROVE  ActivationInv'
<1>1. ChainInv' /\ RecordInv' /\ TicketInv'
  BY Zenon DEF ActivationInv, ChainInv, RecordInv, TicketInv, Truthful
<1>2. JobInv'
  BY InitialValues DEF JobInv
<1> QED
  BY Zenon, <1>1, <1>2 DEF ActivationInv

\* A start opens an empty workspace, and recovers any other from its head.
LEMMA StartStep ==
    ASSUME ActivationInv, Start
    PROVE  ActivationInv'
<1> USE DEF ActivationInv
<1>0. /\ process = "down" /\ UNCHANGED <<chain, record, ticket, job, query, faults>>
      /\ pinned' = Len(chain) /\ slot' = 0 /\ pending' = NoPending /\ sweeps' = 0
      /\ generation' = IF generation < MaxGeneration THEN generation + 1 ELSE generation
      /\ gate' = IF chain = <<>> THEN Gate("Open", 0) ELSE Gate("Recovering", SelectedHead)
      /\ process' = IF chain = <<>> THEN "starting" ELSE "booting"
      /\ validated' \in {0, 1} /\ (chain # <<>> => validated' = 0)
  BY Zenon DEF Start
<1>1. job = Idle /\ \A q \in Queries : query[q] = Free
  BY <1>0 DEF JobInv, ServeInv
<1>2. generation' \in 0..MaxGeneration /\ generation' # 0
  <2>1. generation \in 0..MaxGeneration /\ MaxGeneration \in Nat \ {0}
    BY ActivationAssumption DEF TypeOK
  <2> QED
    BY <1>0, <2>1
<1>3. Len(chain) \in 0..MaxOps /\ SelectedHead = Len(chain) /\ Len(chain) \in Nat
      /\ (chain = <<>> => Len(chain) = 0)
  BY ChainFacts, TypeFacts
<1>4. /\ gate' \in Gates
      /\ chain = <<>> => gate'.phase = "Open"
      /\ chain # <<>> => gate'.phase = "Recovering" /\ gate'.epoch = Len(chain)
  BY Zenon, <1>0, <1>3, InitialValues
<1>5. GateInv'
  BY ZenonT(40), <1>0, <1>2, <1>3, <1>4 DEF GateInv, Alive
<1>6. ServeInv'
  <2>1. 0 <= Len(chain)
    BY SMTT(40), Zenon, <1>3
  <2> QED
    BY <1>0, <1>1, <2>1 DEF ServeInv, Free
<1>7. TypeOK'
  <2>1. NoPending \in [barrier : Barriers, epoch : 0..MaxOps]
    BY InitialValues DEF NoPending
  <2>2. 0 \in 0..MaxSweeps /\ 0 \in 0..MaxOps /\ 1 \in 0..MaxOps
    BY ActivationAssumption
  <2>3. validated' \in 0..MaxOps
    BY <1>0, <2>2
  <2>4. process' \in {"down", "booting", "starting", "up", "draining"}
    BY <1>0
  <2> QED
    BY ZenonT(40), <1>0, <1>2, <1>3, <1>4, <2>1, <2>2, <2>3, <2>4 DEF TypeOK
<1> QED
  BY Zenon, <1>0, <1>1, <1>5, <1>6, <1>7, LifecycleStep

\* The recovered head is installed and served, or the start fails.
LEMMA InstallHeadStep ==
    ASSUME ActivationInv, InstallHead
    PROVE  ActivationInv'
<1> USE DEF ActivationInv
<1>0. /\ process = "booting"
      /\ UNCHANGED <<chain, record, ticket, generation, sweeps, pinned, validated, pending, job, query>>
      /\ \/ gate' = Opened(gate) /\ slot' = gate.epoch /\ process' = "starting"
         \/ process' = "down" /\ UNCHANGED <<gate, slot>>
  BY DEF InstallHead, durable
<1>1. faults' \in FaultCounts
  BY ZenonT(40), FaultTypes DEF InstallHead
<1>2. /\ job = Idle /\ \A q \in Queries : query[q] = Free
      /\ gate.epoch = Len(chain) /\ pinned = Len(chain) /\ generation # 0
  BY <1>0 DEF JobInv, ServeInv, GateInv
<1>3. /\ gate' \in Gates /\ process' \in {"starting", "down"}
      /\ process' = "starting" => gate'.phase = "Open" /\ slot' = Len(chain)
      /\ slot' \in 0..MaxOps /\ slot' <= Len(chain)
  <2>1. gate \in Gates /\ Len(chain) \in 0..MaxOps /\ Len(chain) <= Len(chain)
    BY TypeFacts, ChainFacts
  <2>2. CASE gate' = Opened(gate) /\ slot' = gate.epoch /\ process' = "starting"
    <3>1. PICK g \in Gates : g = gate
      BY <2>1
    <3>2. gate' = Opened(g)
      BY <2>2, <3>1 DEF Opened
    <3>3. gate' \in Gates /\ gate'.phase = "Open"
      BY <3>2, GateOpens
    <3> QED
      BY <1>2, <2>1, <2>2, <3>3
  <2>3. CASE process' = "down" /\ UNCHANGED <<gate, slot>>
    BY Zenon, <2>1, <2>3 DEF TypeOK, ServeInv
  <2> QED
    BY SMTT(40), Zenon, <1>0, <2>2, <2>3
<1>4. TypeOK'
  BY Zenon, <1>0, <1>1, <1>3 DEF TypeOK, FaultCounts
<1>5. GateInv'
  BY Zenon, <1>0, <1>2, <1>3 DEF GateInv, Alive
<1>6. ServeInv'
  BY <1>0, <1>2, <1>3 DEF ServeInv
<1> QED
  BY <1>0, <1>2, <1>4, <1>5, <1>6, LifecycleStep

\* A startup ends with a running workspace, or is refused.
LEMMA EndOfStartupStep ==
    ASSUME ActivationInv, FinishStartup \/ RefuseStartup
    PROVE  ActivationInv'
<1> USE DEF ActivationInv
<1>0. /\ process = "starting" /\ job = Idle /\ process' \in {"up", "down"}
      /\ UNCHANGED <<chain, record, ticket, generation, sweeps, gate, slot, pinned, validated,
                     pending, job, query, faults>>
  BY Zenon DEF FinishStartup, RefuseStartup, durable
<1>1. TypeOK'
  BY SMTT(40), Zenon, <1>0 DEF TypeOK
<1>2. GateInv'
  BY ZenonT(40), <1>0 DEF GateInv, Owns, Alive
<1>3. ServeInv'
  BY <1>0 DEF ServeInv
<1> QED
  BY SMTT(40), Zenon, <1>0, <1>1, <1>2, <1>3, LifecycleStep

\* shutdown() stops admission where no activation holds the gate.
LEMMA DrainStep ==
    ASSUME ActivationInv, Drain
    PROVE  ActivationInv'
<1> USE DEF ActivationInv
<1>0. /\ process = "up" /\ job = Idle /\ process' = "draining"
      /\ gate' = IF gate.phase = "Open" THEN [gate EXCEPT !.phase = "Draining"] ELSE gate
      /\ UNCHANGED <<chain, record, ticket, generation, sweeps, slot, pinned, validated,
                     pending, job, query>>
  BY DEF Drain, durable
<1>1. faults' \in FaultCounts
  BY FaultTypes DEF Drain
<1>2. gate' \in Gates /\ ((gate' = gate /\ gate.phase # "Open") \/ gate'.phase = "Draining")
  BY Zenon, <1>0 DEF TypeOK, Gates
<1>3. TypeOK'
  BY <1>0, <1>1, <1>2 DEF TypeOK, FaultCounts
<1>4. GateInv'
  BY <1>0, <1>2 DEF GateInv, Owns, Alive
<1>5. ServeInv'
  BY <1>0 DEF ServeInv
<1> QED
  BY <1>0, <1>3, <1>4, <1>5, LifecycleStep

\* The process ends, drained or not.
LEMMA EndsStep ==
    ASSUME ActivationInv, FinishDrain \/ Crash
    PROVE  ActivationInv'
<1> USE DEF ActivationInv
<1>0. /\ process' = "down" /\ job' = Idle /\ query' = [q \in Queries |-> Free]
      /\ UNCHANGED <<chain, record, ticket, generation, sweeps, gate, slot, pinned, validated, pending>>
  BY DEF FinishDrain, Crash, Ends, durable
<1>1. faults' \in FaultCounts
  BY FaultTypes DEF FinishDrain, Crash
<1>2. Free \in [lease : 0..MaxOps, epoch : 0..MaxOps, admission : Nat] /\ 0 <= Len(chain)
  BY SMTT(40), Zenon, InitialValues, TypeFacts DEF Free
<1>3. TypeOK'
  BY Zenon, <1>0, <1>1, <1>2, InitialValues DEF TypeOK, FaultCounts
<1>4. GateInv'
  BY SMTT(40), Zenon, <1>0 DEF GateInv, Alive
<1>5. ServeInv'
  BY Zenon, <1>0, <1>2 DEF ServeInv, Free
<1> QED
  BY <1>0, <1>3, <1>4, <1>5, LifecycleStep

\* A query leases what the slot serves, is admitted by an open gate, and ends.
LEMMA QueryActionStep ==
    ASSUME ActivationInv, NEW q \in Queries, QueryStep(q)
    PROVE  ActivationInv'
<1> USE DEF ActivationInv
<1>0. /\ UNCHANGED <<chain, record, ticket, generation, process, sweeps, gate, slot, pinned,
                     validated, pending, job, faults>>
  BY SMTT(40), Zenon DEF QueryStep, LeaseWorkspace, AdmitSelected, FinishQuery, durable
<1>1. PICK next : /\ query' = [query EXCEPT ![q] = next]
                  /\ next \in [lease : 0..MaxOps, epoch : 0..MaxOps, admission : Nat]
                  /\ next.lease <= Len(chain) /\ next.epoch <= Len(chain)
                  /\ next # Free => process \in {"up", "draining"}
  <2>1. /\ query[q] \in [lease : 0..MaxOps, epoch : 0..MaxOps, admission : Nat]
        /\ query[q].lease <= Len(chain) /\ query[q].epoch <= Len(chain)
        /\ query[q] # Free => process \in {"up", "draining"}
        /\ slot \in 0..MaxOps /\ slot <= Len(chain) /\ gate.admission \in Nat
    BY DEF TypeOK, ServeInv, Gates
  <2>2. /\ Free \in [lease : 0..MaxOps, epoch : 0..MaxOps, admission : Nat]
        /\ Free.lease <= Len(chain) /\ Free.epoch <= Len(chain) /\ Free.lease = 0 /\ Free.epoch = 0
    BY InitialValues, TypeFacts DEF Free
  <2>3. CASE LeaseWorkspace(q)
    <3>1. PICK n : n = [query[q] EXCEPT !.lease = slot]
      BY Zenon
    <3>2. query' = [query EXCEPT ![q] = n] /\ process \in {"up", "draining"}
      BY <2>3, <3>1 DEF LeaseWorkspace
    <3> QED
      BY Zenon, <2>1, <3>1, <3>2
  <2>4. CASE AdmitSelected(q)
    <3>1. PICK n : n = IF gate.phase = "Open"
                       THEN [query[q] EXCEPT !.epoch = query[q].lease, !.admission = gate.admission]
                       ELSE Free
      OBVIOUS
    <3>2. query' = [query EXCEPT ![q] = n] /\ query[q] # Free
      BY <2>2, <2>4, <3>1 DEF AdmitSelected
    <3> QED
      BY Zenon, <2>1, <2>2, <3>1, <3>2
  <2>5. CASE FinishQuery(q)
    BY ZenonT(40), <2>2, <2>5 DEF FinishQuery
  <2> QED
    BY Zenon, <2>3, <2>4, <2>5 DEF QueryStep
<1>2. /\ query' \in [Queries -> [lease : 0..MaxOps, epoch : 0..MaxOps, admission : Nat]]
      /\ query'[q] = next /\ \A p \in Queries : p # q => query'[p] = query[p]
  BY Zenon, <1>1 DEF TypeOK
<1>3. TypeOK'
  BY Zenon, <1>0, <1>2 DEF TypeOK
<1>4. ServeInv'
  BY Zenon, <1>0, <1>1, <1>2 DEF ServeInv
<1>5. ChainInv' /\ RecordInv' /\ TicketInv'
  BY ZenonT(40), <1>0 DEF ChainInv, RecordInv, TicketInv, Truthful
<1>6. GateInv'
  BY SMTT(40), Zenon, <1>0 DEF GateInv, Owns, Alive
<1>7. JobInv'
  BY ZenonT(40), <1>0 DEF JobInv, StageInv, Truthful
<1> QED
  BY <1>3, <1>4, <1>5, <1>6, <1>7

-----------------------------------------------------------------------------
(* The invariant is inductive.                                             *)

\* The initial states satisfy the invariant.
LEMMA ActivationInit == Init => ActivationInv
<1> SUFFICES ASSUME Init PROVE ActivationInv
  OBVIOUS
<1> USE DEF Init
<1>1. /\ Len(chain) = 0 /\ DOMAIN chain = {} /\ chain \in Seq(Events)
  OBVIOUS
<1>2. NewRecord \in CommandRows /\ NewRecord.state = "New"
  BY InitialValues, ActivationAssumption DEF NewRecord, CommandRows
<1>3. NoRow \in [attempt : 0..MaxAttempt, ticket : Tickets \cup {NoTicket}]
  BY ActivationAssumption DEF NoRow
<1>4. Free \in [lease : 0..MaxOps, epoch : 0..MaxOps, admission : Nat]
  BY Zenon, InitialValues DEF Free
<1>5. NoPending \in [barrier : Barriers, epoch : 0..MaxOps]
  BY InitialValues DEF NoPending
<1>6. gate \in Gates
  BY Zenon, InitialValues
<1>7. faults \in FaultCounts /\ sweeps \in 0..MaxSweeps /\ generation \in 0..MaxGeneration
  BY SMTT(40), Zenon, ActivationAssumption DEF FaultCounts
<1>8. TypeOK
  BY Zenon, <1>1, <1>2, <1>3, <1>4, <1>5, <1>6, <1>7, InitialValues DEF TypeOK, CommandRows, FaultCounts
<1>9. ChainInv /\ TicketInv
  BY ZenonT(40), <1>1, <1>2 DEF ChainInv, TicketInv
<1>10. RecordInv
  BY SMTT(40), Zenon, <1>1, <1>2, InitialValues DEF RecordInv
<1>11. GateInv /\ JobInv
  BY Zenon, InitialValues DEF GateInv, JobInv, Alive
<1>12. ServeInv
  BY <1>1 DEF ServeInv, Free
<1> QED
  BY <1>8, <1>9, <1>10, <1>11, <1>12 DEF ActivationInv

\* Every step preserves the invariant.
LEMMA ActivationNext == ActivationInv /\ [Next]_vars => ActivationInv'
<1> SUFFICES ASSUME ActivationInv, [Next]_vars PROVE ActivationInv'
  OBVIOUS
<1>1. CASE Activate
  <2>1. CASE \E op \in Ops : Begin(op)
    BY <2>1, BeginStep
  <2> QED
    BY <1>1, <2>1, CloseAdmissionStep, RevalidateStep, AppendStep, PublishStep, SwapSlotStep,
       ReconcileCacheStep, ReopenStep, AcknowledgeStep, SettleStep, PersistTicketStep, AwaitStep
       DEF Activate
<1>2. CASE Recover
  <2>1. CASE \E op \in Ops : LoadTicket(op)
    BY <2>1, LoadTicketStep
  <2> QED
    BY <1>2, <2>1, ReadMarkerStep, RecoverSelectedStep, RecoverSlotStep, RecoverCacheStep,
       RecoverReopenStep, RecoverAcknowledgeStep, RecoverSettleStep, RecoverRetryStep,
       RepersistTicketStep, ObserveStep
       DEF Recover
<1>3. CASE Lifecycle
  BY <1>3, StartStep, InstallHeadStep, EndOfStartupStep, DrainStep, EndsStep DEF Lifecycle
<1>4. CASE \E q \in Queries : QueryStep(q)
  BY <1>4, QueryActionStep
<1>5. CASE UNCHANGED vars
  <2>1. UNCHANGED <<Recorded, gate, slot, pinned, pending, job, faults>>
    BY Zenon, <1>5 DEF vars, Recorded
  <2>2. job' \in Jobs /\ faults' \in FaultCounts
    BY Zenon, <2>1 DEF ActivationInv, TypeOK, FaultCounts
  <2>3. StageInv <=> StageInv'
    BY ZenonT(40), <2>1 DEF StageInv, Truthful, Recorded
  <2>4. JobInv'
    BY <2>1, <2>3 DEF ActivationInv, JobInv, Recorded
  <2> QED
    BY <2>1, <2>2, <2>4, StageStep
<1> QED
  BY <1>1, <1>2, <1>3, <1>4, <1>5 DEF Next

\* The invariant holds of every behaviour.
LEMMA ActivationInvariant == Spec => []ActivationInv
<1>1. Init => ActivationInv
  BY ActivationInit
<1>2. ActivationInv /\ [Next]_vars => ActivationInv'
  BY ActivationNext
<1> QED
  BY <1>1, <1>2, PTL DEF Spec

-----------------------------------------------------------------------------
(* The theorems.                                                           *)

\* What is served was durably selected, once: an open gate stands over the
\* slot of the last event of the chain, a query only executes an epoch of the
\* chain, and each activation is in the chain at most once and on the head it
\* was admitted for, whatever append or acknowledgement is lost and wherever
\* the process ends.
THEOREM ServedEpochsAreSelected == Spec => []ServedIsSelected
<1>1. ActivationInv => ServedIsSelected
  <2> SUFFICES ASSUME ActivationInv PROVE ServedIsSelected
    BY ZenonT(40)
  <2> USE DEF ActivationInv
  <2>1. /\ Len(chain) \in Nat /\ DOMAIN chain = 1..Len(chain) /\ SelectedHead = Len(chain)
        /\ \A n \in 0..Len(chain) : HeadAt(n) = n
    BY TypeFacts, ChainFacts
  <2>2. OpenServesDurableHead
    BY Zenon, <2>1 DEF OpenServesDurableHead, GateInv
  <2>3. AdmittedEpochWasSelected
    <3>1. ASSUME NEW q \in Queries, query[q].epoch # 0
          PROVE  query[q].epoch \in DOMAIN chain /\ chain[query[q].epoch].epoch = query[q].epoch
      <4>1. query[q].epoch \in Nat /\ query[q].epoch <= Len(chain)
        BY ActivationAssumption DEF TypeOK, ServeInv
      <4> QED
        BY <2>1, <3>1, <4>1 DEF ChainInv
    <3> QED
      BY Zenon, <3>1 DEF AdmittedEpochWasSelected
  <2>4. SelectedAtMostOnce
    <3>1. \A i \in DOMAIN chain : i - 1 \in 0..Len(chain)
      BY <2>1
    <3> QED
      BY <2>1, <3>1 DEF SelectedAtMostOnce, ChainInv
  <2> QED
    BY <2>2, <2>3, <2>4 DEF ServedIsSelected
<1> QED
  BY <1>1, ActivationInvariant, PTL

\* Neither a command record nor a ticket contradicts the chain: a success is
\* selected, what may be executed again is not, and what a stored ticket claims
\* to know of its append is so.
THEOREM JournalTellsTheTruth == Spec => []RecordsTellTheTruth
<1>1. ActivationInv => RecordsTellTheTruth
  <2> SUFFICES ASSUME ActivationInv PROVE RecordsTellTheTruth
    BY Zenon
  <2> USE DEF ActivationInv
  <2>1. \A op \in Ops : (InChain(op) <=> op <= Len(chain)) /\ op \in Nat
    BY ChainFacts, InitialValues
  <2>2. Len(chain) \in Nat
    BY Zenon, TypeFacts
  <2>3. SettledRecordTellsTheTruth
    BY SMTT(40), Zenon, <2>1, <2>2 DEF SettledRecordTellsTheTruth, RecordInv
  <2>4. TicketKnowledgeIsTrue
    BY SMTT(40), Zenon, <2>1, <2>2 DEF TicketKnowledgeIsTrue, TicketInv, Truthful
  <2> QED
    BY Zenon, <2>3, <2>4 DEF RecordsTellTheTruth
<1> QED
  BY <1>1, ActivationInvariant, PTL

\* A gate that stays closed belongs to the current, unsettled activation, and
\* what it holds is what the recovery of that activation accepts.
THEOREM ClosedGatesAreOwned == Spec => []ClosedGateHasAnOwner
<1>1. ActivationInv => ClosedGateHasAnOwner
  <2> SUFFICES ASSUME ActivationInv, Alive, gate.phase \in {"Closed", "Swapped"}
               PROVE  \E op \in Ops :
                         /\ Current(op) /\ record[op].state \in {"Prepared", "Awaiting"}
                         /\ gate.phase = "Closed" =>
                              NoSelectionAccepts(gate, record[op].head, record[op].fence)
                         /\ gate.phase = "Swapped" => gate.epoch = op
    BY DEF ClosedGateHasAnOwner
  <2>1. PICK op \in Ops : Owns(op)
    BY Zenon DEF ActivationInv, GateInv
  <2>2. Current(op)
    BY Zenon, <2>1, ChainFacts DEF ActivationInv, Owns
  <2>3. gate.phase = "Closed" => NoSelectionAccepts(gate, record[op].head, record[op].fence)
    BY <2>1 DEF Owns, NoSelectionAccepts
  <2> QED
    BY Zenon, <2>1, <2>2, <2>3 DEF Owns
<1> QED
  BY <1>1, ActivationInvariant, PTL

\* No query is admitted between the append of an event and the moment its
\* epoch is served.
THEOREM AdmissionFollowsTheChain == Spec => NoAdmissionBehindTheChain
<1>1. ActivationInv /\ [Next]_vars =>
        [\A q \in Queries : query[q].epoch = 0 /\ query'[q].epoch # 0 => slot = SelectedHead]_vars
  <2> SUFFICES ASSUME ActivationInv, Next, NEW q \in Queries,
                      query[q].epoch = 0, query'[q].epoch # 0
               PROVE  slot = SelectedHead
    BY DEF vars
  <2>1. ~Activate /\ ~Recover
    <3>1. Activate \/ Recover => UNCHANGED query
      BY Zenon DEF Activate, Recover, Begin, CloseAdmission, Revalidate, AppendAndReadback,
         PublishSelected, SwapSlot, ReconcileCache, Reopen, Acknowledge, Settle, PersistTicket,
         Await, LoadTicket, ReadMarker, RecoverSelected, RecoverSlot, RecoverCache,
         RecoverReopen, RecoverAcknowledge, RecoverSettle, RecoverRetry, RepersistTicket,
         Observe, At
    <3> QED
      BY SMTT(40), Zenon, <3>1
  <2>2. ~Lifecycle
    BY DEF Lifecycle, Start, InstallHead, FinishStartup, RefuseStartup, Drain, FinishDrain,
       Crash, Ends, Free
  <2>3. PICK p \in Queries : QueryStep(p)
    BY Zenon, <2>1, <2>2 DEF Next
  <2>4. query \in [Queries -> [lease : 0..MaxOps, epoch : 0..MaxOps, admission : Nat]]
    BY DEF ActivationInv, TypeOK
  <2>5. p = q /\ AdmitSelected(q)
    <3>1. p = q
      BY <2>3, <2>4 DEF QueryStep, LeaseWorkspace, AdmitSelected, FinishQuery
    <3>2. ~LeaseWorkspace(q)
      BY <2>4 DEF LeaseWorkspace
    <3> QED
      BY <2>3, <3>1, <3>2 DEF QueryStep, FinishQuery
  <2>6. gate.phase = "Open" /\ query[q] # Free
    BY <2>4, <2>5 DEF AdmitSelected, Free
  <2>7. Alive
    BY <2>6 DEF ActivationInv, ServeInv, Alive
  <2> QED
    BY ZenonT(40), <2>6, <2>7, ChainFacts DEF ActivationInv, GateInv
<1> QED
  BY <1>1, ActivationInvariant, PTL DEF Spec, NoAdmissionBehindTheChain
=============================================================================
