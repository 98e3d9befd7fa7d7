----------------------------- MODULE MCLifeCycle -----------------------------
(* Small instances of LifeCycle for TLC. *)
EXTENDS LifeCycle

CONSTANTS first, second     \* processes
=============================================================================
