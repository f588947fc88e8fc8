-------------------------- MODULE MCLegacyServer --------------------------
(* A small instance of LegacyServer for TLC. *)
EXTENDS LegacyServer, TLC

CONSTANTS r1, r2
=============================================================================
