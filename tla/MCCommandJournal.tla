-------------------------- MODULE MCCommandJournal --------------------------
(* A journal shared by two operations, one idempotency key apart or not.   *)
EXTENDS CommandJournal
=============================================================================
