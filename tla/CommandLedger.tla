---------------------------- MODULE CommandLedger ----------------------------
(***************************************************************************)
(* What the durable command path promises its clients, without writers,    *)
(* attempts, queues or recovery: an operation that is accepted takes       *)
(* effect at most once, only while it is pending, and its one final answer *)
(* says whether it did.                                                    *)
(***************************************************************************)
EXTENDS Naturals

CONSTANT Ops

VARIABLES
    outcome,  \* the answer recorded for each operation
    effects   \* how often its target transaction has landed

ledgerVars == <<outcome, effects>>

Accept(op) ==
    /\ outcome[op] = "absent"
    /\ outcome' = [outcome EXCEPT ![op] = "pending"]
    /\ UNCHANGED effects

TakeEffect(op) ==
    /\ outcome[op] = "pending" /\ effects[op] = 0
    /\ effects' = [effects EXCEPT ![op] = 1]
    /\ UNCHANGED outcome

Settle(op) ==
    /\ outcome[op] = "pending"
    /\ \E answer \in IF effects[op] = 1 THEN {"Succeeded"} ELSE {"Failed", "Cancelled"} :
         outcome' = [outcome EXCEPT ![op] = answer]
    /\ UNCHANGED effects

Init == outcome = [op \in Ops |-> "absent"] /\ effects = [op \in Ops |-> 0]

Next == \E op \in Ops : Accept(op) \/ TakeEffect(op) \/ Settle(op)

Spec == Init /\ [][Next]_ledgerVars
=============================================================================
