-------------------------- MODULE MCCommandRuntime --------------------------
(* An activation that moves the head, a publication, and a client that      *)
(* reuses the identities of both.                                           *)
EXTENDS CommandRuntime

MCIntents == {[op |-> 1, key |-> 1, kind |-> "ActivateEpoch"],
              [op |-> 2, key |-> 2, kind |-> "PublishRelations"],
              [op |-> 2, key |-> 1, kind |-> "ActivateEpoch"]}
MCEpochOf == [op \in Ops |-> op]
=============================================================================
