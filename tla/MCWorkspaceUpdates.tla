------------------------- MODULE MCWorkspaceUpdates -------------------------
(* One or two source files with two contents and one query, for TLC.       *)
(* Contents are interchangeable.                                           *)
EXTENDS WorkspaceUpdates, TLC

CONSTANTS f1, f2, c1, c2, q1

MCWorkload(m, e, r, f, q) ==
    [files |-> m, edits |-> e, requests |-> r, faults |-> f, queries |-> q]

\* Edits of two files against the walk of a census and against periodic
\* censuses, and a query against an edit.
MCSafety ==
    {MCWorkload({f1, f2}, 2, 0, 0, {}), MCWorkload({f1}, 1, 1, 0, {}),
     MCWorkload({f1}, 1, 0, 0, {q1})}

\* A fault beside an edit, and beside a query.
MCLiveness == {MCWorkload({f1}, 1, 0, 1, {}), MCWorkload({f1}, 0, 0, 1, {q1})}

MCSymmetry == Permutations(Contents)

=============================================================================
