---------------------------- MODULE MCTaskScopes ----------------------------
(* A root with a control scope below it, for TLC.                          *)
EXTENDS TaskScopes

MCUp == [s \in {"root", "control"} |-> "root"]
MCClass == [s \in {"root", "control"} |-> IF s = "control" THEN "Control" ELSE "Data"]
=============================================================================
