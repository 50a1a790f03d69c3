------------------------ MODULE CommandServiceProofs ------------------------
(***************************************************************************)
(* The two owners around the command runtime. Below it, the journal: every *)
(* row the reducer ever writes passes the decoder, and rows only advance,  *)
(* for every set of operations, writers and references and every counter   *)
(* limit. Above it, the manager: every runtime it started is alone on its  *)
(* workspace and accounted for, for every set of workspaces and every      *)
(* number of starts.                                                       *)
(***************************************************************************)
EXTENDS CommandJournal, CommandManager, FabricCommandProofs, FiniteSetTheorems,
        WellFoundedInduction

-----------------------------------------------------------------------------
(* The journal.                                                            *)

JournalInv == TypeOK /\ EveryRowDecodes

\* The empty journal satisfies the invariant.
LEMMA JournalInit == Init => JournalInv
  BY DEF Init, JournalInv, TypeOK, EveryRowDecodes

\* One step of the journal: the invariant is kept and every row advances.
LEMMA JournalStep ==
    ASSUME JournalInv, [Next]_journalVars
    PROVE  /\ JournalInv'
           /\ \A rec \in records : \E next \in records' : RowAdvances(rec, next)
           /\ \A rec \in records, next \in records' : ReconciliationKeepsExecutor(rec, next)
<1> USE DEF JournalInv
<1>0. \A rec \in records : RowAdvances(rec, rec)
  BY DEF RowAdvances
<1>1. \A r1, r2 \in records : r1.command = r2.command => r1 = r2
  BY DEF TypeOK
<1>2. \A rec, next \in records : ReconciliationKeepsExecutor(rec, next)
  BY <1>1 DEF ReconciliationKeepsExecutor
<1>3. ASSUME NEW command \in FabricCommands, InsertIfAbsent(command)
      PROVE  /\ JournalInv'
             /\ \A rec \in records : \E next \in records' : RowAdvances(rec, next)
             /\ \A rec \in records, next \in records' : ReconciliationKeepsExecutor(rec, next)
  <2>1. PICK admitted \in Admit(command, Context, TRUE) : records' = records \cup {admitted}
    BY Zenon, <1>3 DEF InsertIfAbsent
  <2>2. /\ admitted.command = command /\ admitted.revision = 0
        /\ admitted.state = [kind |-> "Admitted", attempt |-> 1]
        /\ admitted \in CommandRecords
    BY <2>1 DEF Admit, When, CommandRecords, DurableCommandStates, AdmittedStates
  <2>3. ValidPersisted(admitted)
    BY <2>2 DEF ValidPersisted, ValidState
  <2>4. \A rec \in records : /\ rec.command.op # command.op
                             /\ rec.command.key # command.key
    BY <1>3 DEF InsertIfAbsent, LookupAdmission
  <2>5. JournalInv'
    BY <1>3, <2>1, <2>2, <2>3, <2>4 DEF TypeOK, EveryRowDecodes, InsertIfAbsent
  <2>6. \A rec \in records : ReconciliationKeepsExecutor(rec, admitted)
    BY <2>2, <2>4 DEF ReconciliationKeepsExecutor
  <2> QED
    BY <1>0, <1>2, <2>1, <2>5, <2>6
<1>4. ASSUME NEW predecessor \in records, NEW event \in CommandEvents,
             CompareAndSwap(predecessor, event)
      PROVE  /\ JournalInv'
             /\ \A rec \in records : \E next \in records' : RowAdvances(rec, next)
             /\ \A rec \in records, next \in records' : ReconciliationKeepsExecutor(rec, next)
  <2>1. PICK successor \in Reduce(predecessor, event, Context) \ {predecessor} :
          records' = (records \ {predecessor}) \cup {successor}
    BY <1>4 DEF CompareAndSwap
  <2>2. predecessor \in CommandRecords /\ ValidPersisted(predecessor)
    BY DEF TypeOK, EveryRowDecodes
  <2>3. SoundSuccessor(predecessor, successor)
    BY <2>1, <2>2, ReduceSound
  <2>4. successor.command = predecessor.command
    BY <2>1, <2>3 DEF SoundSuccessor, RowAdvances
  <2>5. \A rec \in records \ {predecessor} :
          rec.command.op # successor.command.op /\ rec.command.key # successor.command.key
    BY <2>4 DEF TypeOK
  <2>6. JournalInv'
    BY <1>4, <2>1, <2>3, <2>5 DEF TypeOK, EveryRowDecodes, CompareAndSwap, SoundSuccessor
  <2>7. \A rec \in records : \E next \in records' : RowAdvances(rec, next)
    BY <1>0, <2>1, <2>3 DEF SoundSuccessor
  <2>8. \A rec \in records : ReconciliationKeepsExecutor(rec, successor)
    BY <2>3, <2>5 DEF SoundSuccessor, ReconciliationKeepsExecutor
  <2> QED
    BY <1>2, <2>1, <2>6, <2>7, <2>8
<1>5. CASE records' = records /\ active_fence' \in Fences /\ current_head' \in Heads
  BY <1>0, <1>2, <1>5 DEF TypeOK, EveryRowDecodes
<1>6. CASE AdvanceFence \/ AdvanceHead \/ UNCHANGED journalVars
  BY <1>5, <1>6 DEF AdvanceFence, AdvanceHead, journalVars, TypeOK
<1> QED
  BY <1>3, <1>4, <1>6 DEF Next

\* The journal is always well typed with unique identities, and every row it
\* holds is accepted by decode_row, for all constants.
THEOREM JournalDecodes == Spec => []JournalIsReadable
<1>1. JournalInv /\ [Next]_journalVars => JournalInv'
  BY JournalStep
<1> QED
  BY <1>1, JournalInit, PTL DEF Spec, JournalInv, JournalIsReadable

\* Rows only advance: no row is lost, terminal rows are final, revisions grow by
\* one, and no row falls back to an older writer generation.
THEOREM JournalRowsOnlyAdvance == Spec => RowsOnlyAdvance
<1>1. JournalInv /\ [Next]_journalVars =>
        JournalInv' /\ [\A rec \in records : \E next \in records' : RowAdvances(rec, next)]_journalVars
  BY JournalStep
<1> QED
  BY <1>1, JournalInit, PTL DEF Spec, RowsOnlyAdvance

\* Reconciliation never replaces the executor or the transaction it looks up.
THEOREM JournalKeepsExecutors == Spec => UnknownCommitsKeepTheirExecutor
<1>1. JournalInv /\ [Next]_journalVars =>
        /\ JournalInv'
        /\ [\A rec \in records, next \in records' :
              ReconciliationKeepsExecutor(rec, next)]_journalVars
  BY JournalStep
<1> QED
  BY <1>1, JournalInit, PTL DEF Spec, UnknownCommitsKeepTheirExecutor

-----------------------------------------------------------------------------
(* The manager.                                                            *)

\* The call that has the manager borrowed, by operation and stage: which
\* workspaces it took out of the map, and which it left there.
CallInv ==
    \/ call = NoCall
    \/ /\ call.op \in {"start", "retry"} /\ call.w \in Workspaces /\ call.rest = {}
       /\ \/ call.op = "retry" /\ call.stage \in {"recover", "Ready", "Pending"}
             /\ managed[call.w] # "none"
          \/ call.op = "start" /\ call.stage \in {"Ready", "Pending"}
             /\ managed[call.w] # "none"
          \/ call.op = "start" /\ call.stage \in {"recover", "ask", "join"}
             /\ managed[call.w] = "none"
    \/ /\ call.op \in {"stop", "all"} /\ call.stage \in {"ask", "join"}
       /\ call.w \in Workspaces \ call.rest
       /\ \A w \in {call.w} \cup call.rest : managed[w] = "none"

\* Only the latest run of a workspace can still be alive, a runtime that is
\* being joined has left its loop, and a lock that is taken was taken by a run.
RunInv ==
    /\ \A w \in Workspaces : actors[w] \subseteq {started[w]}
    /\ call.stage = "join" => actors[call.w] = {}
    /\ \A w \in Workspaces : lease[w] # "free" => started[w] # 0
    /\ \A w \in Workspaces : lease[w] = "free" => actors[w] = {}

ManagerInv == ManagerTypeOK /\ NoRuntimeIsLost /\ CallInv /\ RunInv

\* The smallest of some workspaces is one of them.
LEMMA MinIsMember ==
    ASSUME NEW S \in SUBSET Nat, S # {}
    PROVE  Min(S) \in S
<1>1. IsWellFoundedOn({ss \in Nat \X Nat : ss[1] < ss[2]}, Nat)
  BY NatLessThanWellFounded, Zenon DEF OpToRel
<1>2. PICK x \in S : \A y \in S : ~ (<<y, x>> \in {ss \in Nat \X Nat : ss[1] < ss[2]})
  BY Zenon, <1>1, WFMin
<1>3. ASSUME NEW y \in S PROVE x =< y
  <2>1. ~(<<y, x>> \in {ss \in Nat \X Nat : ss[1] < ss[2]})
    BY <1>2
  <2>2. <<y, x>> \in Nat \X Nat
    OBVIOUS
  <2>3. ~(y < x)
    BY <2>1, <2>2
  <2> QED
    BY <2>3
<1> QED
  BY Zenon, <1>3 DEF Min

\* A manager without runtimes satisfies the invariant.
LEMMA ManagerStarts ==
    ASSUME ManagerInit
    PROVE  ManagerInv
<1> USE DEF ManagerInit, NoCall
<1>1. ManagerTypeOK
  BY ManagerAssumption DEF ManagerTypeOK, Runs
<1>2. NoRuntimeIsLost /\ CallInv /\ RunInv
  BY DEF NoRuntimeIsLost, CallInv, RunInv
<1> QED
  BY <1>1, <1>2 DEF ManagerInv

\* start_workspace: the lock was free, so no actor of an earlier run is left.
LEMMA StartStep ==
    ASSUME ManagerInv, NEW v \in Workspaces, StartWorkspace(v)
    PROVE  ManagerInv'
<1> USE DEF ManagerInv, StartWorkspace, Idle, NoCall
<1>1. ManagerTypeOK'
  BY ManagerAssumption DEF ManagerTypeOK, Runs
<1>2. NoRuntimeIsLost'
  BY DEF ManagerTypeOK, NoRuntimeIsLost
<1>3. CallInv'
  BY DEF CallInv
<1>4. RunInv'
  BY DEF RunInv, ManagerTypeOK
<1> QED
  BY <1>1, <1>2, <1>3, <1>4

\* retry_recovery and handle touch only runtimes the map retains.
LEMMA RetainedStep ==
    ASSUME ManagerInv, NEW v \in Workspaces,
           RetryRecovery(v) \/ GiveHandle(v)
    PROVE  ManagerInv'
<1> USE DEF ManagerInv, RetryRecovery, GiveHandle, Idle, NoCall
<1>1. started[v] \in Runs
  BY DEF ManagerTypeOK, NoRuntimeIsLost, RunInv, Runs
<1>2. ManagerTypeOK'
  <2>1. CASE RetryRecovery(v)
    <3>1. gate' \in [Workspaces -> BOOLEAN]
      BY Zenon, <2>1 DEF ManagerTypeOK
    <3>2. \E stage \in {"Ready", "recover"} :
            call' = [op |-> "retry", w |-> v, stage |-> stage, rest |-> {}]
      BY <2>1
    <3> QED
      BY <2>1, <3>1, <3>2 DEF ManagerTypeOK
  <2>2. CASE GiveHandle(v)
    BY <1>1, <2>2 DEF ManagerTypeOK
  <2> QED
    BY <2>1, <2>2
<1>3. NoRuntimeIsLost'
  BY DEF NoRuntimeIsLost
<1>4. CallInv'
  BY DEF CallInv
<1>5. RunInv'
  BY DEF RunInv
<1> QED
  BY <1>2, <1>3, <1>4, <1>5

\* What the handles, the ends of actors and the returned answers change never
\* touches the map, the lock or the workspaces a call holds.
LEMMA HandleStep ==
    ASSUME ManagerInv, NEW v \in Workspaces,
           \/ ActorEnds(v) \/ SubmitEndsNonterminal(v)
           \/ HandleSettles(v)
    PROVE  ManagerInv'
<1> USE DEF ManagerInv, ActorEnds, SubmitEndsNonterminal, HandleSettles
<1>1. actors' \in [Workspaces -> SUBSET Runs] /\ \A w \in Workspaces : actors'[w] \subseteq actors[w]
  BY DEF ManagerTypeOK
<1>2. ManagerTypeOK'
  BY Zenon, <1>1 DEF ManagerTypeOK
<1>3. NoRuntimeIsLost' /\ CallInv'
  BY DEF NoRuntimeIsLost, CallInv, NoCall
<1>4. call.stage = "join" => call.w \in Workspaces
  BY DEF CallInv, NoCall
<1>5. RunInv'
  BY <1>1, <1>4 DEF RunInv
<1> QED
  BY <1>2, <1>3, <1>5

\* A recovery that answers retains its runtime in the map; one that fails
\* leaves it with the call that started it, or where the retry found it.
LEMMA RecoveryStep ==
    ASSUME ManagerInv, RecoveryReturns \/ AnswerReturns
    PROVE  ManagerInv'
<1> USE DEF ManagerInv, At
<1>1. CASE AnswerReturns
  <2>1. call' = NoCall /\ managed[call.w] # "none" /\ call.rest = {}
    BY <1>1 DEF AnswerReturns, CallInv, NoCall
  <2>2. ManagerTypeOK'
    BY <1>1 DEF AnswerReturns, ManagerTypeOK, NoCall
  <2>3. NoRuntimeIsLost'
    BY <1>1, <2>1 DEF AnswerReturns, NoRuntimeIsLost, NoCall
  <2>4. CallInv' /\ RunInv'
    BY <1>1, <2>1 DEF AnswerReturns, CallInv, RunInv, NoCall
  <2> QED
    BY <2>2, <2>3, <2>4
<1>2. CASE RecoveryReturns
  <2> USE <1>2
  <2>1. call.w \in Workspaces /\ call.rest = {} /\ call.op \in {"start", "retry"} /\ call.stage = "recover"
    BY DEF RecoveryReturns, CallInv, NoCall
  <2>2. CASE Recovered(call.w) /\ call' = [call EXCEPT !.stage = managed'[call.w]]
    <3> USE <2>1, <2>2 DEF RecoveryReturns, Recovered
    <3>1. /\ managed' \in [Workspaces -> {"none", "Ready", "Pending"}]
          /\ unsettled' \in [Workspaces -> BOOLEAN] /\ gate' \in [Workspaces -> BOOLEAN]
          /\ managed'[call.w] \in {"Ready", "Pending"}
          /\ \A w \in Workspaces \ {call.w} : managed'[w] = managed[w]
      BY Zenon DEF ManagerTypeOK
    <3>2. /\ call'.op = call.op /\ call'.w = call.w /\ call'.rest = {}
          /\ call'.stage = managed'[call.w]
      BY DEF ManagerTypeOK
    <3>3. call' \in [op: {"none", "start", "retry", "stop", "all"}, w: Workspaces \cup {0},
                     stage: {"none", "recover", "ask", "join", "Ready", "Pending"},
                     rest: SUBSET Workspaces]
      BY <3>1 DEF ManagerTypeOK
    <3>4. ManagerTypeOK'
      BY <3>1, <3>3 DEF ManagerTypeOK
    <3>5. NoRuntimeIsLost'
      BY <3>1, <3>2 DEF NoRuntimeIsLost, CallInv, NoCall
    <3>6. CallInv'
      BY <3>1, <3>2 DEF CallInv
    <3>7. RunInv'
      BY <3>1, <3>2 DEF RunInv
    <3> QED
      BY <3>4, <3>5, <3>6, <3>7
  <2>3. CASE /\ unsettled' \in {unsettled, [unsettled EXCEPT ![call.w] = FALSE]}
             /\ call' = IF call.op = "start" THEN [call EXCEPT !.stage = "ask"] ELSE NoCall
             /\ UNCHANGED <<managed, gate>>
    <3> USE <2>1, <2>3 DEF RecoveryReturns
    <3>1. ManagerTypeOK'
      BY Zenon DEF ManagerTypeOK, NoCall
    <3>2. NoRuntimeIsLost'
      BY DEF NoRuntimeIsLost, CallInv, NoCall, ManagerTypeOK
    <3>3. CallInv'
      BY DEF CallInv, NoCall, ManagerTypeOK
    <3>4. RunInv'
      BY DEF RunInv, NoCall, ManagerTypeOK
    <3> QED
      BY <3>1, <3>2, <3>3, <3>4
  <2> QED
    BY <2>2, <2>3 DEF RecoveryReturns
<1> QED
  BY <1>1, <1>2

\* The next runtime of shutdown_all is one the call holds, and the call holds
\* the others still.
LEMMA AdvanceKeepsTheRest ==
    ASSUME ManagerInv, call.op \in {"start", "stop", "all"},
           Advance
    PROVE  \/ call.rest = {} /\ call' = NoCall
           \/ /\ call.op \in {"stop", "all"} /\ call'.op = call.op /\ call'.stage = "ask"
              /\ call'.w \in call.rest /\ call'.rest = call.rest \ {call'.w}
              /\ call'.w \in Workspaces \ call'.rest /\ {call'.w} \cup call'.rest = call.rest
              /\ call' \in [op: {"none", "start", "retry", "stop", "all"},
                            w: Workspaces \cup {0},
                            stage: {"none", "recover", "ask", "join", "Ready", "Pending"},
                            rest: SUBSET Workspaces]
<1> USE DEF ManagerInv, Advance
<1>1. CASE call.rest = {}
  BY <1>1
<1>2. CASE call.rest # {}
  <2>1. call.rest \in SUBSET Workspaces
    BY DEF ManagerTypeOK
  <2>2. Min(call.rest) \in call.rest
    BY <1>2, <2>1, MinIsMember, ManagerAssumption
  <2>3. call.op \in {"stop", "all"}
    BY <1>2 DEF CallInv, NoCall
  <2> QED
    BY ZenonT(40), <1>2, <2>1, <2>2, <2>3 DEF ManagerTypeOK
<1> QED
  BY <1>1, <1>2

\* Shutdown of one runtime: an actor that answers has left its loop, one that
\* is gone keeps its lock for good, and the joined one gives its lock back.
LEMMA ShutdownStep ==
    ASSUME ManagerInv,
           ShutdownAsks \/ ShutdownJoins
    PROVE  ManagerInv'
<1> USE DEF ManagerInv, At
<1>1. /\ call.op \in {"start", "stop", "all"} /\ call.w \in Workspaces \ call.rest
      /\ call.stage \in {"ask", "join"}
      /\ \A w \in {call.w} \cup call.rest : managed[w] = "none"
      /\ call.rest \subseteq Workspaces
  BY DEF ShutdownAsks, ShutdownJoins, CallInv, NoCall, ManagerTypeOK
<1>2. lease[call.w] = "held" /\ started[call.w] # 0
  BY <1>1 DEF NoRuntimeIsLost, RunInv
<1>3. CASE /\ ShutdownAsks /\ Alive(call.w)
           /\ actors' = [actors EXCEPT ![call.w] = @ \ {started[call.w]}]
           /\ gate' = [gate EXCEPT ![call.w] = FALSE]
           /\ call' = [call EXCEPT !.stage = "join"]
           /\ UNCHANGED lease
  <2> USE <1>1, <1>3 DEF ShutdownAsks
  <2>1. ManagerTypeOK'
    BY DEF ManagerTypeOK
  <2>2. /\ call'.op = call.op /\ call'.w = call.w /\ call'.rest = call.rest
        /\ call'.stage = "join"
    BY DEF ManagerTypeOK
  <2>3. NoRuntimeIsLost'
    BY <2>2 DEF NoRuntimeIsLost
  <2>4. CallInv'
    BY <2>2 DEF CallInv, NoCall
  <2>5. /\ actors'[call.w] = {}
        /\ \A w \in Workspaces : actors'[w] \subseteq actors[w]
    BY DEF RunInv, ManagerTypeOK
  <2>6. RunInv'
    BY <2>2, <2>5 DEF RunInv
  <2> QED
    BY <2>1, <2>3, <2>4, <2>6
<1>4. CASE /\ ShutdownAsks \/ call.stage = "join"
           /\ \/ call.stage = "ask" /\ lease' = [lease EXCEPT ![call.w] = "forgotten"]
              \/ call.stage = "join" /\ lease' = [lease EXCEPT ![call.w] = "free"]
           /\ UNCHANGED <<managed, started, actors, gate, unsettled, handles>>
           /\ Advance
  <2>1. \/ call.rest = {} /\ call' = NoCall
        \/ /\ call.op \in {"stop", "all"} /\ call'.op = call.op /\ call'.stage = "ask"
           /\ call'.w \in call.rest /\ call'.rest = call.rest \ {call'.w}
           /\ call'.w \in Workspaces \ call'.rest /\ {call'.w} \cup call'.rest = call.rest
           /\ call' \in [op: {"none", "start", "retry", "stop", "all"},
                         w: Workspaces \cup {0},
                         stage: {"none", "recover", "ask", "join", "Ready", "Pending"},
                         rest: SUBSET Workspaces]
    BY <1>1, <1>4, AdvanceKeepsTheRest
  <2>2. ManagerTypeOK'
    BY <1>4, <2>1 DEF ManagerTypeOK, NoCall
  <2>3. /\ lease'[call.w] \in {"forgotten", "free"}
        /\ \A w \in Workspaces \ {call.w} : lease'[w] = lease[w]
        /\ lease'[call.w] = "free" => actors[call.w] = {}
    BY <1>1, <1>4 DEF ManagerTypeOK, RunInv
  <2>4. NoRuntimeIsLost'
    BY <1>1, <1>4, <2>1, <2>3 DEF NoRuntimeIsLost, NoCall
  <2>5. CallInv'
    BY <1>1, <1>4, <2>1 DEF CallInv
  <2>6. RunInv'
    BY <1>1, <1>2, <1>4, <2>1, <2>3 DEF RunInv, NoCall
  <2> QED
    BY <2>2, <2>4, <2>5, <2>6
<1> QED
  BY <1>3, <1>4 DEF ShutdownAsks, ShutdownJoins, AskActor

\* The runtimes of v and rest leave the map and enter the call.
Taken(op, v, rest) ==
    /\ v \notin rest
    /\ call' = [op |-> op, w |-> v, stage |-> "ask", rest |-> rest]
    /\ \A w \in {v} \cup rest : managed[w] # "none" /\ managed'[w] = "none"
    /\ \A w \in Workspaces \ ({v} \cup rest) : managed'[w] = managed[w]

\* stop_workspace and shutdown_all: what leaves the map enters the call.
LEMMA StopStep ==
    ASSUME ManagerInv,
           (\E v \in Workspaces : StopWorkspace(v)) \/ ShutdownAll
    PROVE  ManagerInv'
<1> USE DEF ManagerInv, Idle
<1>1. \E v \in Workspaces, rest \in SUBSET Workspaces, op \in {"stop", "all"} :
         Taken(op, v, rest)
  <2>1. ASSUME NEW v \in Workspaces, StopWorkspace(v)
        PROVE  Taken("stop", v, {})
    <3>1. /\ call' = [op |-> "stop", w |-> v, stage |-> "ask", rest |-> {}]
          /\ managed[v] # "none" /\ managed'[v] = "none"
          /\ \A w \in Workspaces \ {v} : managed'[w] = managed[w]
      BY <2>1 DEF StopWorkspace, ManagerTypeOK
    <3> QED
      BY <3>1 DEF Taken
  <2>2. CASE ShutdownAll
    <3> DEFINE all == {w \in Workspaces : managed[w] # "none"}
    <3>1. all # {} /\ all \in SUBSET Nat
      BY Zenon, <2>2, ManagerAssumption DEF ShutdownAll
    <3>2. Min(all) \in all
      BY <3>1, MinIsMember
    <3>3. call' = [op |-> "all", w |-> Min(all), stage |-> "ask",
                   rest |-> all \ {Min(all)}]
      BY <2>2 DEF ShutdownAll
    <3>4. managed' = [w \in Workspaces |-> "none"]
      BY <2>2 DEF ShutdownAll
    <3>5. PICK v \in all : v = Min(all)
      BY <3>2
    <3>6. call' = [op |-> "all", w |-> v, stage |-> "ask", rest |-> all \ {v}]
      BY <3>3, <3>5
    <3>7. Taken("all", v, all \ {v})
      BY <3>4, <3>6 DEF ManagerTypeOK, Taken
    <3> QED
      BY <3>7
  <2> QED
    BY <2>1, <2>2
<1>2. managed' \in [Workspaces -> {"none", "Ready", "Pending"}]
  BY DEF StopWorkspace, ShutdownAll, ManagerTypeOK
<1>3. call = NoCall /\ UNCHANGED <<started, actors, gate, unsettled, lease, handles>>
  BY DEF StopWorkspace, ShutdownAll
<1> USE DEF Taken
<1>4. ManagerTypeOK'
  BY <1>1, <1>2, <1>3 DEF ManagerTypeOK
<1>5. NoRuntimeIsLost'
  BY <1>1, <1>3 DEF NoRuntimeIsLost, NoCall
<1>6. CallInv'
  BY <1>1 DEF CallInv
<1>7. RunInv'
  BY <1>1, <1>3 DEF RunInv
<1> QED
  BY <1>4, <1>5, <1>6, <1>7

\* What is dropped keeps its lock for good; only a runtime that was being joined
\* frees it, and its actor has left its loop.
LEMMA DropStep ==
    ASSUME ManagerInv, DropCall \/ AbandonManager
    PROVE  ManagerInv'
<1> USE DEF ManagerInv, Idle
<1>1. CASE AbandonManager
  <2> USE <1>1 DEF AbandonManager, Dropped
  <2>1. ManagerTypeOK'
    BY DEF ManagerTypeOK, NoCall
  <2>2. NoRuntimeIsLost'
    BY DEF NoRuntimeIsLost, NoCall, ManagerTypeOK
  <2>3. CallInv'
    BY DEF CallInv, NoCall
  <2>4. RunInv'
    BY DEF RunInv, NoCall, NoRuntimeIsLost, ManagerTypeOK
  <2> QED
    BY <2>1, <2>2, <2>3, <2>4
<1>2. CASE DropCall /\ call.op = "retry"
  <2> USE <1>2 DEF DropCall
  <2>1. call.w \in Workspaces /\ call.rest = {} /\ managed[call.w] # "none"
    BY DEF CallInv, NoCall
  <2>2. unsettled' \in [Workspaces -> BOOLEAN] /\ gate' \in [Workspaces -> BOOLEAN]
    BY ZenonT(40), <2>1 DEF ManagerTypeOK
  <2>3. ManagerTypeOK'
    BY <2>2 DEF ManagerTypeOK, NoCall
  <2>4. NoRuntimeIsLost' /\ CallInv' /\ RunInv'
    BY <2>1 DEF NoRuntimeIsLost, CallInv, RunInv, NoCall
  <2> QED
    BY <2>3, <2>4
<1>3. CASE DropCall /\ call.op # "retry"
  <2>1. /\ call' = NoCall /\ UNCHANGED <<managed, started, actors, gate, unsettled, handles>>
        /\ call # NoCall /\ call.stage \notin {"Ready", "Pending"}
    BY <1>3 DEF DropCall
  <2>2. /\ call.op \in {"start", "stop", "all"} /\ call.w \in Workspaces
        /\ call.rest \subseteq Workspaces
        /\ \A w \in {call.w} \cup call.rest : managed[w] = "none"
    BY <1>3, <2>1 DEF CallInv, ManagerTypeOK
  <2>3. /\ lease' \in [Workspaces -> {"free", "held", "forgotten"}]
        /\ \A w \in Workspaces \ ({call.w} \cup call.rest) : lease'[w] = lease[w]
        /\ \A w \in {call.w} \cup call.rest :
             \/ lease'[w] = "forgotten"
             \/ lease'[w] = "free" /\ call.stage = "join" /\ w = call.w
    <3>1. CASE call.stage = "join"
      <4>1. lease' = [w \in Workspaces |->
                         CASE w \in {call.w} -> "free"
                           [] w \in ({call.w} \cup call.rest) \ {call.w} -> "forgotten"
                           [] OTHER -> lease[w]]
        BY <1>3, <3>1 DEF DropCall
      <4>2. \A w \in Workspaces : lease'[w] = IF w = call.w THEN "free"
                                              ELSE IF w \in call.rest THEN "forgotten"
                                              ELSE lease[w]
        BY <4>1
      <4>3. lease' = [w \in Workspaces |-> lease'[w]]
        BY <4>1
      <4> QED
        BY <2>2, <3>1, <4>2, <4>3 DEF ManagerTypeOK
    <3>2. CASE call.stage # "join"
      <4>1. lease' = [w \in Workspaces |->
                         IF w \in {call.w} \cup call.rest THEN "forgotten" ELSE lease[w]]
        BY <1>3, <3>2 DEF DropCall, Dropped
      <4> QED
        BY <2>2, <4>1 DEF ManagerTypeOK
    <3> QED
      BY <3>1, <3>2
  <2>4. ManagerTypeOK'
    BY <2>1, <2>3 DEF ManagerTypeOK, NoCall
  <2>5. NoRuntimeIsLost'
    BY <2>1, <2>2, <2>3 DEF NoRuntimeIsLost, NoCall
  <2>6. CallInv'
    BY <2>1 DEF CallInv
  <2>7. RunInv'
    BY <2>1, <2>2, <2>3 DEF RunInv, NoCall, NoRuntimeIsLost
  <2> QED
    BY <2>4, <2>5, <2>6, <2>7
<1> QED
  BY <1>1, <1>2, <1>3

\* Every step of the manager keeps the invariant.
LEMMA ManagerStep ==
    ASSUME ManagerInv, [ManagerNext]_managerVars
    PROVE  ManagerInv'
<1>1. CASE UNCHANGED managerVars
  BY <1>1 DEF ManagerInv, ManagerTypeOK, NoRuntimeIsLost, CallInv, RunInv, managerVars,
              NoCall
<1>2. CASE ManagerNext
  BY <1>2, StartStep, RetainedStep, HandleStep, RecoveryStep, ShutdownStep, StopStep, DropStep
  DEF ManagerNext, CallStep
<1> QED
  BY <1>1, <1>2

\* The invariant gives what the manager promises: one latest run is at most one
\* actor task.
LEMMA ManagerPromise == ASSUME ManagerInv PROVE RuntimesAreOwned
<1>1. \A w \in Workspaces : actors[w] = {} \/ actors[w] = {started[w]}
  BY DEF ManagerInv, RunInv
<1>2. \A w \in Workspaces : Cardinality(actors[w]) \in {0, 1}
  BY Zenon, <1>1, FS_EmptySet, FS_Singleton
<1>3. \A w \in Workspaces : lease[w] = "free" => actors[w] = {}
  BY DEF ManagerInv, RunInv
<1>4. OneMutator
  BY <1>2, <1>3 DEF OneMutator
<1> QED
  BY <1>4 DEF RuntimesAreOwned, ManagerInv

\* Whatever is started, stopped, dropped or abandoned in between, a workspace
\* has at most one actor on its journal, its lock is free only when it has none,
\* and a lock that counts as held belongs to a runtime somebody can still stop
\* (command_runtime_manager.rs), for all workspaces and any number of starts.
THEOREM ManagerOwnsItsRuntimes == ManagerSpec => []RuntimesAreOwned
<1>1. ManagerInit => ManagerInv
  BY ManagerStarts
<1>2. ManagerInv /\ [ManagerNext]_managerVars => ManagerInv'
  BY ManagerStep
<1>3. ManagerInv => RuntimesAreOwned
  BY ManagerPromise
<1> QED
  BY <1>1, <1>2, <1>3, PTL DEF ManagerSpec
=============================================================================
