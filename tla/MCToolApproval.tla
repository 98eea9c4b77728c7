--------------------------- MODULE MCToolApproval ---------------------------
(* Processes invoke a guarded write under two idempotency keys and an        *)
(* unguarded read; approvals may be bound to either action or either plan.   *)
EXTENDS ToolApproval, TLC

CONSTANTS w1, w2, a1, a2, a3, k1, k2, k3

MCOpOf == [k \in Key |-> IF k = k3 THEN "read" ELSE "write"]

Symmetry == Permutations({w1, w2}) \cup Permutations(Approval)
=============================================================================
