----------------------------- MODULE MCShutdown -----------------------------
(* Small instances of Shutdown for TLC. *)
EXTENDS Shutdown

CONSTANTS d1, x1
=============================================================================
