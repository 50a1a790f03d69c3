------------------------- MODULE MCResultRetention -------------------------
(* One operation, or two of one owner, for TLC.                            *)
EXTENDS ResultRetention, TLC

CONSTANTS q1, q2, r1, r2

MCOwner == [q \in Queries |-> "owner"]
MCKey == [q \in Queries |-> q]

MCWorkload(s, c, e, k, n, released, reissued, outlives) ==
    [start |-> s, watch |-> {}, cancel |-> c, overrun |-> s, expire |-> e,
     kinds |-> k, faults |-> n, limits |-> [queued |-> 2, events |-> 6, pages |-> 2],
     releases |-> released, reissues |-> reissued, long |-> outlives]

\* Two queries; one that is restarted, with its result reissued by two calls, or
\* by one whose session is short; one whose result is released by two calls; one
\* whose result is reissued after a restart and then released; one whose session
\* ends while its result can be read and released.
MCTwo == MCWorkload({q1, q2}, {}, {q1}, {}, 0, {}, 0, TRUE)
MCFaults == {"abort", "crash", "execute", "delete"}
MCRestart == MCWorkload({q1}, {q1}, {q1}, MCFaults, 2, {}, 2, TRUE)
MCShort == MCWorkload({q1}, {}, {q1}, MCFaults, 2, {}, 1, FALSE)
MCRelease == MCWorkload({q1}, {}, {}, {"delete"}, 1, {r1, r2}, 0, FALSE)
MCReissue == MCWorkload({q1}, {}, {q1}, {"crash", "drop"}, 1, {r1}, 1, TRUE)
MCSession == MCWorkload({q1}, {}, {q1}, {}, 0, {r1}, 0, FALSE)

MCWorkloads == {MCTwo, MCRestart, MCShort, MCRelease, MCReissue, MCSession}
=============================================================================
