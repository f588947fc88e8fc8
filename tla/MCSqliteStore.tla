--------------------------- MODULE MCSqliteStore ---------------------------
(* Small instances of SqliteStore for TLC. *)
EXTENDS SqliteStore, TLC

CONSTANTS k1, k2, k3, c1, c2

Symmetry == Permutations({k1, k2, k3} \cap Key) \cup Permutations({c1, c2} \cap Caller)
=============================================================================
