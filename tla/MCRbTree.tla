------------------------------ MODULE MCRbTree -------------------------------
(* The red-black tree for TLC. *)
EXTENDS RbTree

FewKeys == 1 .. 9
=============================================================================
