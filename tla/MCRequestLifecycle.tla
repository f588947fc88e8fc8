------------------------ MODULE MCRequestLifecycle ------------------------
(* A small instance of RequestLifecycle for TLC. *)
EXTENDS RequestLifecycle, TLC

CONSTANTS r1, r2
=============================================================================
