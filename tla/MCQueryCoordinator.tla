------------------------- MODULE MCQueryCoordinator -------------------------
(* Three operations of two principals in two workspaces, for TLC: q1 and   *)
(* q2 have one owner, q3 another.                                          *)
EXTENDS QueryCoordinator

CONSTANTS q1, q2, q3, w1, w2, p1, p2

MCWorkspace == [q \in Queries |-> IF q = q3 THEN w2 ELSE w1]
MCPrincipal == [q \in Queries |-> IF q = q3 THEN p2 ELSE p1]
MCKey == [q \in Queries |-> q]

MCWorkload(s, w, c, e, k, n, queued, events, pages) ==
    [start |-> s, watch |-> w, cancel |-> c, overrun |-> e, expire |-> e,
     kinds |-> k, faults |-> n,
     limits |-> [queued |-> queued, events |-> events, pages |-> pages]]

\* A watched query beside another; three queries in the queue; three where every
\* limit refuses something; two with failing journal writes and crashes; one of
\* them watched; a watched query whose process ends, one envelope for two queries.
MCWatch == MCWorkload({q1, q2}, {q1}, {q1}, {q1, q2}, {"drop", "abort", "execute"}, 1, 2, 6, 3)
MCQueue == MCWorkload({q1, q2, q3}, {}, {q3}, {q1}, {}, 0, 2, 6, 3)
MCFull == MCWorkload({q1, q2, q3}, {}, {q2}, {q1}, {}, 0, 1, 4, 2)
MCFaults == MCWorkload({q1, q2}, {}, {q2}, {q1}, {"journal", "crash"}, 2, 2, 6, 3)
MCRefused == MCWorkload({q1}, {q1}, {q1}, {q1}, {"journal", "crash", "execute"}, 3, 2, 6, 3)
MCRestart == MCWorkload({q1, q2}, {q1}, {}, {q1}, {"crash"}, 2, 2, 6, 1)
MCWorkloads == {MCWatch, MCQueue, MCFull, MCFaults, MCRefused, MCRestart}
=============================================================================
