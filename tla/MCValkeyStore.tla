--------------------------- MODULE MCValkeyStore ---------------------------
(* Small instances of ValkeyStore for TLC. *)
EXTENDS ValkeyStore, TLC

CONSTANTS r1, r2, k1, k2, k3

Symmetry == Permutations({k1, k2, k3} \cap Key) \cup Permutations({r1, r2} \cap Replica)

(* A closed store only begins no operation: what can happen while one is     *)
(* closed can happen while it is open.                                       *)
StaysOpen == \A r \in Replica : ~closed[r]
=============================================================================
