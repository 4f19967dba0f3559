---- MODULE MCWikiPages ----
(* Model values for WikiPages. *)
EXTENDS WikiPages, TLC
CONSTANTS p1, p2, w1, w2, w3, org
MCPages == {p1, p2}
MCWriters == {w1, w2, w3}
MCTargets == {org}
MCSymmetry == Permutations(MCPages) \cup Permutations(MCWriters)
====
