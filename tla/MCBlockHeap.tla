----------------------------- MODULE MCBlockHeap -----------------------------
(* Small instances of BlockHeap for TLC. *)
EXTENDS BlockHeap

CONSTANTS main, vfs    \* the threads
=============================================================================
