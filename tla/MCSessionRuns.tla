---- MODULE MCSessionRuns ----
(* Model values for SessionRuns. *)
EXTENDS SessionRuns, TLC
CONSTANTS r1, r2, c1
MCRuns == {r1, r2}
MCCompacts == {c1}
MCSymmetry == Permutations(MCRuns)
====
