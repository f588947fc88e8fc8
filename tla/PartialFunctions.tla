-------------------------- MODULE PartialFunctions --------------------------
(* A store is a function from the keys that are present.                    *)

(* f with k bound to e. *)
With(f, k, e) == [x \in DOMAIN f \cup {k} |-> IF x = k THEN e ELSE f[x]]

(* f without the keys of ks. *)
Without(f, ks) == [x \in DOMAIN f \ ks |-> f[x]]

(* The function that is nowhere defined. *)
NoKeys == [x \in {} |-> x]
=============================================================================
