------------------------- MODULE MCEpochActivation -------------------------
(* Epoch activation for TLC.                                               *)
EXTENDS EpochActivation, TLC

=============================================================================
