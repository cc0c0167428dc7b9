-------------------------- MODULE MCFlowGraphFeed --------------------------
(* FlowGraphFeed on the small inputs of MCFlows. *)
EXTENDS FlowGraphFeed, MCFlows

=============================================================================
