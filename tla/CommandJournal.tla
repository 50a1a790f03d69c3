--------------------------- MODULE CommandJournal ---------------------------
(***************************************************************************)
(* The temporal command journal (fabric/command_record_sqlite.rs) driven   *)
(* through the reducer by any sequence of callers: it promises what the    *)
(* rows of the table may ever contain and how a row may ever change,       *)
(* whoever presents the events and whatever head and writer fence are      *)
(* current. CommandRuntime implements it.                                  *)
(***************************************************************************)
EXTENDS FabricCommand, FiniteSets

VARIABLES
    records,       \* the rows of fabric_command_record
    active_fence,  \* the durable current writer fence the context reads
    current_head   \* the selected head the context reads

journalVars == <<records, active_fence, current_head>>

Context == [current_head |-> current_head, active_fence |-> active_fence]

-----------------------------------------------------------------------------
\* lookup_admission: rows sharing the operation identity or the key.
LookupAdmission(rows, command) ==
    {rec \in rows : rec.command.op = command.op \/ rec.command.key = command.key}

\* insert_if_absent of the record a fresh admission produced. An existing row,
\* found by either identity, leaves the table as it is.
InsertIfAbsent(command) ==
    /\ LookupAdmission(records, command) = {}
    /\ \E admitted \in Admit(command, Context, TRUE) :
         records' = records \cup {admitted}
    /\ UNCHANGED <<active_fence, current_head>>

\* compare_and_swap of a material reducer transition; an idempotent replay is
\* never written.
CompareAndSwap(predecessor, event) ==
    /\ \E successor \in Reduce(predecessor, event, Context) \ {predecessor} :
         records' = (records \ {predecessor}) \cup {successor}
    /\ UNCHANGED <<active_fence, current_head>>

\* A new writer takes over with a strictly newer generation.
AdvanceFence ==
    /\ \E fence \in Fences :
         /\ fence.generation > active_fence.generation
         /\ active_fence' = fence
    /\ UNCHANGED <<records, current_head>>

\* The selected epoch changes under the journal.
AdvanceHead ==
    /\ \E head \in Heads : current_head' = head
    /\ UNCHANGED <<records, active_fence>>

Init ==
    /\ records = {}
    /\ active_fence \in Fences
    /\ current_head \in Heads

Next ==
    \/ \E command \in FabricCommands : InsertIfAbsent(command)
    \/ \E predecessor \in records, event \in CommandEvents :
         CompareAndSwap(predecessor, event)
    \/ AdvanceFence
    \/ AdvanceHead

Spec == Init /\ [][Next]_journalVars

-----------------------------------------------------------------------------
(* Properties.                                                             *)

\* The table holds typed records, one row per operation identity and at most
\* one row per idempotency key (the primary key and the unique index).
TypeOK ==
    /\ records \subseteq CommandRecords
    /\ active_fence \in Fences
    /\ current_head \in Heads
    /\ \A r1, r2 \in records :
         r1.command.op = r2.command.op \/ r1.command.key = r2.command.key => r1 = r2

\* decode_row rejects a row that fails validate_persisted_invariants as corrupt
\* and recovery then never resumes it. Every record the reducer ever writes,
\* through any interleaving of takeovers, retries and probes, is accepted.
EveryRowDecodes == \A rec \in records : ValidPersisted(rec)

\* compare_and_swap_sync updates rows in place: none is lost, and each advances.
RowsOnlyAdvance ==
    [][\A rec \in records : \E next \in records' : RowAdvances(rec, next)]_journalVars

\* Once a commit outcome is unknown, the executor and the transaction that
\* reconciliation must look up never change: the row leaves that state only as
\* the success of that transaction or as the retry of the next attempt.
UnknownCommitsKeepTheirExecutor ==
    [][\A rec \in records, next \in records' :
         ReconciliationKeepsExecutor(rec, next)]_journalVars

\* The journal stays readable: typed rows under unique keys, each of which its
\* own decoder accepts.
JournalIsReadable == TypeOK /\ EveryRowDecodes
=============================================================================
