-------------------------- MODULE MCToolApproval --------------------------
(* Instances of ToolApproval for TLC *)
EXTENDS ToolApproval, TLC

CONSTANTS g1, g2, g3, s1, k1, none

\* A resource-scoped call and a run-scoped one in one session, and a scheduled call of
\* the same resource without one
MCKind == [g \in Gates |-> IF g = g2 THEN "run" ELSE "resource"]
MCSessionOfCron == [g \in Gates |-> IF g = g3 THEN none ELSE s1]
MCResourceOf == [g \in Gates |-> k1]
============================================================================
