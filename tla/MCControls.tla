----------------------------- MODULE MCControls -----------------------------
(***************************************************************************)
(* Controls with names that can be exchanged for one another.              *)
(***************************************************************************)
EXTENDS Controls, TLC

Symmetry == Permutations(Namespaces) \cup Permutations(Machines)

=============================================================================
