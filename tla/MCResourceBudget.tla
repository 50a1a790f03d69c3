-------------------------- MODULE MCResourceBudget --------------------------
(* A process with two dimensions, one policy for workspaces and operations  *)
(* and demands of a unit of memory, of a job, and of both, for TLC.         *)
EXTENDS ResourceBudget, TLC

CONSTANTS i1, i2, r1, r2

MCDims == {"memory", "jobs"}
MCAmounts(m, j) == [d \in MCDims |-> IF d = "memory" THEN m ELSE j]
MCRoot == [limits |-> MCAmounts(2, 2), reserve |-> MCAmounts(0, 1)]
MCPolicies == {[limits |-> MCAmounts(2, 2), reserve |-> MCAmounts(1, 0)]}
MCDemands == {MCAmounts(1, 0), MCAmounts(1, 1)}
MCSymmetry == Permutations(Ids) \cup Permutations(Slots)
=============================================================================
