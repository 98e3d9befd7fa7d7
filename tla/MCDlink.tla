------------------------------- MODULE MCDlink -------------------------------
(* A small instance of Dlink for TLC. *)
EXTENDS Dlink, TLC

Symmetry == Permutations(Nodes) \cup Permutations(Lists) \cup Permutations(Values)
=============================================================================
