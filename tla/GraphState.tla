----------------------------- MODULE GraphState -----------------------------
(***************************************************************************)
(* The browser's copy of the graph: the class GraphState of                *)
(* web/src/graph-state.ts.  A store is one record with the class's fields; *)
(* every method is an operator from the store before to the store after,   *)
(* and Browser composes them with the messages and the frames.             *)
(*                                                                         *)
(* A node is the machine it shows and the set of its edges.  Edge counters *)
(* are in FlowGraphFeed; the ring of seconds, labels, sparks and the list  *)
(* of touched edges (which nothing reads) are left out.                    *)
(***************************************************************************)
EXTENDS Integers

CONSTANTS
  NodeIds,     \* node ids
  EdgeIds,     \* edge ids
  Src, Dst,    \* the endpoints of an edge: an edge's id holds both node ids
  Machines     \* machine names

CONSTANT NoMachine   \* the absent field

ASSUME GraphStateAssumption ==
  /\ Src \in [EdgeIds -> NodeIds] /\ Dst \in [EdgeIds -> NodeIds]
  /\ NoMachine \notin Machines

Touching(E, id) == {e \in E : Src[e] = id \/ Dst[e] = id}

EmptyStore ==
  [nodes |-> <<>>, edges |-> {}, addedNodes |-> {}, removedNodes |-> {},
   addedEdges |-> {}, removedEdges |-> {}, touchedNodes |-> {}, reset |-> FALSE]

(* upsertNode for each node sent: a map from ids to machines. *)
UpsertNodes(s, sent) ==
  LET new   == DOMAIN sent \ DOMAIN s.nodes
      moved == {id \in DOMAIN sent \cap DOMAIN s.nodes :
                  sent[id] \notin {NoMachine, s.nodes[id].machine}}
  IN  [s EXCEPT
         !.nodes = [id \in DOMAIN @ \cup new |->
                      IF id \in new THEN [machine |-> sent[id], edges |-> {}]
                      ELSE IF id \in moved THEN [@[id] EXCEPT !.machine = sent[id]]
                      ELSE @[id]],
         !.addedNodes = @ \cup new,
         !.removedNodes = @ \ new,
         !.touchedNodes = @ \cup moved]

(* upsertEdge for each edge sent.  An endpoint that is not in the store is  *)
(* passed over.                                                             *)
UpsertEdges(s, sent) ==
  LET new == sent \ s.edges
  IN  [s EXCEPT
         !.edges = @ \cup new,
         !.addedEdges = @ \cup new,
         !.removedEdges = @ \ new,
         !.nodes = [id \in DOMAIN @ |->
                      [s.nodes[id] EXCEPT !.edges = @ \cup Touching(new, id)]]]

(* removeEdge for each id: one that was added since the last frame is not   *)
(* reported at all.                                                         *)
RemoveEdges(s, ids) ==
  LET known == ids \cap s.edges
  IN  [s EXCEPT
         !.edges = @ \ known,
         !.nodes = [id \in DOMAIN @ |-> [s.nodes[id] EXCEPT !.edges = @ \ known]],
         !.addedEdges = @ \ known,
         !.removedEdges = @ \cup (known \ s.addedEdges)]

(* removeNode for each id. *)
RemoveNodes(s, ids) ==
  LET known == ids \cap DOMAIN s.nodes
  IN  [s EXCEPT
         !.nodes = [id \in DOMAIN @ \ known |-> @[id]],
         !.touchedNodes = @ \ known,
         !.addedNodes = @ \ known,
         !.removedNodes = @ \cup (known \ s.addedNodes)]

(* The head of applySnapshot: the store's contents go. *)
Discarded(s) ==
  [s EXCEPT !.removedNodes = @ \cup DOMAIN s.nodes,
            !.removedEdges = @ \cup s.edges,
            !.nodes = <<>>, !.edges = {}, !.addedNodes = {}, !.addedEdges = {},
            !.touchedNodes = {}]

(* The tail of applySnapshot: ids found both added and removed are neither. *)
WithoutReadded(s) ==
  LET nodes == s.addedNodes \cap s.removedNodes
      edges == s.addedEdges \cap s.removedEdges
  IN  [s EXCEPT !.addedNodes = @ \ nodes, !.removedNodes = @ \ nodes,
                !.addedEdges = @ \ edges, !.removedEdges = @ \ edges]

ApplySnapshot(s, nodes, edges) ==
  [WithoutReadded(UpsertEdges(UpsertNodes(Discarded(s), nodes), edges)) EXCEPT !.reset = TRUE]

(* Mutant: edges come before the nodes they join. *)
ApplyTick_EdgesFirst(s, nodes, edges, gone) ==
  RemoveNodes(RemoveEdges(UpsertNodes(UpsertEdges(s, edges), nodes), gone.edges), gone.nodes)

ApplyTick(s, nodes, edges, gone) ==
  RemoveNodes(RemoveEdges(UpsertEdges(UpsertNodes(s, nodes), edges), gone.edges), gone.nodes)

(* What consume leaves; what it returns are the fields before. *)
Consumed(s) ==
  [s EXCEPT !.addedNodes = {}, !.removedNodes = {}, !.addedEdges = {},
            !.removedEdges = {}, !.touchedNodes = {}, !.reset = FALSE]

=============================================================================
