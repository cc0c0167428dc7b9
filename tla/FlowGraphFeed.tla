--------------------------- MODULE FlowGraphFeed ---------------------------
(***************************************************************************)
(* The graph of FlowGraph with one client store behind it: the store       *)
(* (web/src/graph-state.ts) applies every tick the graph hands out.  The   *)
(* client is there from the start (FeedSpec) or replaces its store by a        *)
(* snapshot at any moment (JoinSpec), which is what a connecting browser   *)
(* does and what the hub does for a client that fell behind.               *)
(***************************************************************************)
EXTENDS FlowGraph

VARIABLES
  mirror,   \* the client's store: nodes with their machine, edges with totals
  atTick    \* the last step was a tick: the client has just applied it

feedVars == <<graph, now, flows, mirror, atTick>>

-----------------------------------------------------------------------------

(* upsertNode keeps the machine it has when the tick carries none. *)
UpsertNodes(m, nodes) ==
  [id \in DOMAIN m \cup DOMAIN nodes |->
     IF id \in DOMAIN nodes /\ (id \notin DOMAIN m \/ nodes[id] # "")
       THEN nodes[id] ELSE m[id]]

(* upsertEdge and the loop of applyTick: increments are added to the totals, *)
(* details replace the old ones when the tick carries some.                  *)
AddIncrements(m, edges) ==
  [e \in DOMAIN m \cup DOMAIN edges |->
     IF e \notin DOMAIN edges THEN m[e]
     ELSE IF e \notin DOMAIN m THEN edges[e]
     ELSE [counts  |-> [c \in Codes |-> m[e].counts[c] + edges[e].counts[c]],
           details |-> IF edges[e].details # 0 THEN edges[e].details ELSE m[e].details]]

ApplyTick(m, t) ==
  [nodes |-> Without(UpsertNodes(m.nodes, t.nodes), t.gone.nodes),
   edges |-> Without(AddIncrements(m.edges, t.edges), t.gone.edges)]

(* Snapshot: the whole graph with the totals, as a client stores it.  The    *)
(* graph is not changed: what waits for the next tick keeps waiting.         *)
Snapshot(g) ==
  [nodes |-> [id \in DOMAIN g.nodes |-> g.nodes[id].machine],
   edges |-> [e \in DOMAIN g.edges |-> [counts  |-> g.edges[e].counts,
                                        details |-> g.edges[e].details]]]

-----------------------------------------------------------------------------

FeedInit == Init /\ mirror = Snapshot(EmptyGraph) /\ atTick = TRUE

FeedTick ==
  /\ Tick
  /\ mirror' = ApplyTick(mirror, TickMessage(Expired(graph, now - Retention)))
  /\ atTick' = TRUE

FeedStep ==
  /\ Ingest \/ Peers \/ Advance
  /\ atTick' = FALSE
  /\ UNCHANGED mirror

(* applySnapshot replaces whatever the store held. *)
Join ==
  /\ mirror' = Snapshot(graph)
  /\ atTick' = FALSE
  /\ UNCHANGED <<graph, now, flows>>

FeedNext == FeedTick \/ FeedStep

FeedSpec == FeedInit /\ [][FeedNext]_feedVars

(* The hub calls Tick on every beat of its ticker, and time passes.  Nothing *)
(* is promised about flows or about Relay's peer list.                       *)
FairFeedSpec == FeedSpec /\ WF_vars(Tick) /\ WF_vars(Advance)

JoinNext == FeedTick \/ FeedStep \/ Join

JoinSpec == FeedInit /\ [][JoinNext]_feedVars

-----------------------------------------------------------------------------
(* Properties.                                                              *)

(* What the client holds is what the graph holds, after any number of flows,  *)
(* expiries and retirements between two ticks: the ticks implement the        *)
(* abstract feed.                                                             *)
AbstractFeed == INSTANCE Feed WITH truth <- Snapshot(graph), copy <- mirror

FeedImplementsFeed == AbstractFeed!Spec

(* The bookkeeping behind it: at any moment the totals a client shows plus    *)
(* the increments that wait for the next tick are the totals of the edge, and *)
(* whatever the client has and the graph has not is on its way out.           *)
NothingLost ==
  /\ \A e \in DOMAIN graph.edges :
       \/ /\ e \notin DOMAIN mirror.edges
          /\ e \in DOMAIN graph.dirty
          /\ graph.dirty[e] = graph.edges[e].counts
       \/ /\ e \in DOMAIN mirror.edges \cap DOMAIN graph.dirty
          /\ \A c \in Codes : mirror.edges[e].counts[c] + graph.dirty[e][c]
                                = graph.edges[e].counts[c]
       \/ /\ e \in DOMAIN mirror.edges \ DOMAIN graph.dirty
          /\ mirror.edges[e].counts = graph.edges[e].counts
  /\ DOMAIN mirror.edges \ DOMAIN graph.edges \subseteq graph.goneEdges
  /\ DOMAIN mirror.nodes \ DOMAIN graph.nodes \subseteq graph.goneNodes
  /\ DOMAIN graph.nodes \ graph.newNodes = DOMAIN graph.nodes \cap DOMAIN mirror.nodes

(* protocol.go:50-51: "In a snapshot the counters are totals; in a tick they   *)
(* are increments since the previous tick."  A client that adds them as told  *)
(* should show the graph's totals after every tick.                           *)
JoinCountsExactly ==
  atTick => \A e \in DOMAIN graph.edges \cap DOMAIN mirror.edges :
              mirror.edges[e].counts = graph.edges[e].counts

=============================================================================
