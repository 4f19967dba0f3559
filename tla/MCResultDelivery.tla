------------------------- MODULE MCResultDelivery -------------------------
(* Small instances of ResultDelivery: neither results nor calls have an identity. *)
EXTENDS ResultDelivery

CONSTANTS r1, r2, d1, d2

Symmetry == Permutations(Results) \union Permutations(Deliverers)
============================================================================
