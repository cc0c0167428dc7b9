---------------------------- MODULE MCEdgeSlots ----------------------------
(***************************************************************************)
(* EdgeSlots; nothing tells two edges apart.                               *)
(***************************************************************************)
EXTENDS EdgeSlots, TLC

EdgeSymmetry == Permutations(Edges)

=============================================================================
