--------------------------- MODULE MCWriterLease ---------------------------
(* A daemon with two workspaces and a process that wants one of them.       *)
EXTENDS WriterLease

MCRegistry == [p1 |-> <<"w1", "w2">>, p2 |-> <<"w2">>]
=============================================================================
