---- MODULE MCMcpConnections ----
(* Model values for McpConnections. *)
EXTENDS McpConnections, TLC
CONSTANTS r1, r2, l1, l2, t1
MCCallers == {r1, r2}
MCLogins == {l1, l2}
MCTools == {t1}
Interchangeable == Permutations(MCCallers) \cup Permutations(MCLogins)
====
