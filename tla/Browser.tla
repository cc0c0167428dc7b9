------------------------------ MODULE Browser ------------------------------
(***************************************************************************)
(* The page: messages from the server change the store (GraphState), and   *)
(* each animation frame brings the renderer's slots in line with it        *)
(* (web/src/main.ts applyChanges, nodes.ts, edges.ts, platforms.ts).       *)
(* Messages come from the socket's callbacks and frames from               *)
(* requestAnimationFrame, which a browser stops for a hidden tab: any      *)
(* number of messages may lie between two frames.                          *)
(*                                                                         *)
(* The server is the environment: `server' is its graph as of the last     *)
(* message, and a message is what FlowGraph's deltas are shown to be, the  *)
(* difference to the next graph.  What the filters hide is computed from   *)
(* store and slots anew whenever refreshRates runs, and is an operator     *)
(* here.  An edge's slot is in one of the width batches, as its rate       *)
(* calls for; the indexes within a batch are in EdgeSlots.                 *)
(***************************************************************************)
EXTENDS Layout

CONSTANTS
  Anchor,      \* the machine a node of kind "machine" stands for
  Placeable,   \* bound: workloads whose machine may become known
  Shapes,      \* bound: what the server's graphs consist of, pairs of nodes and edges
  Capacity,    \* CAPACITY of the node pool, 2048
  Widths,      \* number of width batches, 3
  BatchCapacity \* CAPACITY of a width batch, 2048

ASSUME BrowserAssumption ==
  /\ IsFiniteSet(NodeIds)
  /\ NodeIds \cap EdgeIds = {}   \* an edge's id joins its ends with bars
  /\ \A id \in NodeIds : Kind[id] = "machine" => Anchor[id] \in Machines
  /\ \A id \in Placeable : Kind[id] = "workload"
  /\ Capacity \in Nat \ {0} /\ Widths \in Nat \ {0} /\ BatchCapacity \in Nat \ {0}

VARIABLES
  server,      \* the server's graph as of the last message: machines by node, and edges
  connected,   \* the first snapshot of this connection has been received
  state,       \* the GraphState
  nodes,       \* Nodes.slots: the machine each drawn node shows
  batch,       \* Edges.slots: the width batch of each drawn edge
  same,        \* the drawn edges whose slot says that both ends share a platform
  groupBy,     \* layout.groupBy
  targets,     \* layout.targets
  platforms,   \* Platforms.items: the kind each drawn platform was made for
  passedBy,    \* for the properties: slots that were not told of a change, see below
  refused      \* for the properties: edges whose batch was full when they needed a slot

edges == DOMAIN batch

slots == <<nodes, batch, same>>
arrangement == <<groupBy, targets, platforms>>
vars == <<server, connected, state, slots, arrangement, passedBy, refused>>

-----------------------------------------------------------------------------
(* The server's graphs.                                                     *)

Workloads == {id \in NodeIds : Kind[id] = "workload"}

MachineMaps ==
  {f \in UNION {[N -> Machines \cup {NoMachine}] : N \in SUBSET NodeIds} :
     \A id \in DOMAIN f \ Placeable : f[id] = NoMachine}

(* Both endpoints of an edge are nodes (FlowGraph's EndpointsExist). *)
ServerGraph(g) ==
  /\ \A e \in g.edges : {Src[e], Dst[e]} \subseteq DOMAIN g.nodes
  /\ <<DOMAIN g.nodes, g.edges>> \in Shapes

ServerGraphs == {g \in [nodes: MachineMaps, edges: SUBSET EdgeIds] : ServerGraph(g)}

(* A node's machine is never taken back (placeOn). *)
KeepsMachines(old, new) ==
  \A id \in DOMAIN old.nodes \cap DOMAIN new.nodes :
    old.nodes[id] # NoMachine => new.nodes[id] # NoMachine

-----------------------------------------------------------------------------

Init ==
  /\ server = [nodes |-> <<>>, edges |-> {}]
  /\ connected = FALSE
  /\ state = EmptyStore
  /\ nodes = <<>> /\ batch = <<>> /\ same = {}
  /\ groupBy = "namespace" /\ targets = <<>> /\ platforms = <<>>
  /\ passedBy = {} /\ refused = {}

(* A slot outlives its node when the node is away for less than a frame.    *)
(* What the node came back with is told to no one; slots of nodes that came *)
(* back as they were are right all the same.                                *)
PassedBy(returned) ==
  (passedBy \ DOMAIN returned)
    \cup {id \in DOMAIN returned \cap DOMAIN nodes : nodes[id] # returned[id]}

(* A connection, the first one or one after a break, starts with a snapshot. *)
ReceiveSnapshot ==
  /\ ~connected
  /\ connected' = TRUE
  /\ \E g \in ServerGraphs :
       /\ server' = g
       /\ state' = ApplySnapshot(state, g.nodes, g.edges)
       /\ passedBy' = PassedBy(g.nodes)
  /\ UNCHANGED <<slots, arrangement, refused>>

(* A tick brings the difference to the graph of the last message. *)
ReceiveTick ==
  /\ connected
  /\ \E g \in ServerGraphs :
       LET new  == DOMAIN g.nodes \ DOMAIN server.nodes
           sent == new \cup {id \in DOMAIN g.nodes \ new : server.nodes[id] # g.nodes[id]}
           gone == [nodes |-> DOMAIN server.nodes \ DOMAIN g.nodes,
                    edges |-> server.edges \ g.edges]
       IN  /\ KeepsMachines(server, g)
           /\ server' = g
           /\ state' = ApplyTick(state, [id \in sent |-> g.nodes[id]],
                                 g.edges \ server.edges, gone)
           /\ passedBy' = PassedBy([id \in new |-> g.nodes[id]])
  /\ UNCHANGED <<connected, slots, arrangement, refused>>

(* The socket closes: nothing is taken from the store until the next        *)
(* snapshot.                                                                *)
Disconnect ==
  /\ connected
  /\ connected' = FALSE
  /\ UNCHANGED <<server, state, slots, arrangement, passedBy, refused>>

-----------------------------------------------------------------------------
(* The frame.                                                               *)

(* setMachine for the nodes that moved to another machine.                  *)
Moved == {id \in state.touchedNodes : state.nodes[id].machine # NoMachine}

(* samePlatform, for edges of the store: never with a reserved entity.      *)
SamePlatform(e, by) ==
  /\ {Src[e], Dst[e]} \subseteq Workloads
  /\ GroupOf(state.nodes, Src[e], by) = GroupOf(state.nodes, Dst[e], by)

(* Mutant: nodes that only moved need no pass. *)
MembershipDirty_Moves(by) ==
  state.addedNodes # {} \/ state.removedNodes # {} \/ state.reset

(* A membership pass is due when nodes came or went; when they only moved,  *)
(* it depends on the grouping.                                              *)
MembershipDirty(by) ==
  \/ state.addedNodes # {} \/ state.removedNodes # {} \/ state.reset
  \/ state.touchedNodes # {} /\ by = "machine"

(* As many of S as there is room for; who is served first depends on orders *)
(* that are left open.                                                      *)
Fitting(S, room) ==
  {T \in SUBSET S : Cardinality(T) = IF Cardinality(S) < room THEN Cardinality(S) ELSE room}

(* Mutant: slots are for the nodes that were added since the last frame. *)
Admissible_OnlyAdded(N) ==
  Fitting(state.addedNodes \ DOMAIN N, Capacity - Cardinality(DOMAIN N))

(* Nodes.add for the targets that have no slot, until the pool is empty. *)
Admissible(N) ==
  Fitting(DOMAIN state.nodes \ DOMAIN N, Capacity - Cardinality(DOMAIN N))

-----------------------------------------------------------------------------
(* The width batches.                                                       *)

Batches == 0..(Widths - 1)

NoBatch == -1

InBatch(B, w) == {e \in DOMAIN B : B[e] = w}

(* Edges.add for those that have no slot: into the thinnest batch, or not   *)
(* at all.                                                                  *)
AdmissibleEdges(missing, E) ==
  Fitting(missing, BatchCapacity - Cardinality(InBatch([e \in E |-> batch[e]], 0)))

(* setRate for every edge of the store that has a slot, one after the       *)
(* other: its rate may call for any batch.  At its turn a batch has those   *)
(* that moved there before and those that have not moved yet; when it is    *)
(* full the edge loses its slot.                                            *)
Rerated(B) ==
  LET rated == DOMAIN B \cap state.edges
      turns == {t \in [rated -> 1..Cardinality(rated)] : \A x, y \in rated : t[x] = t[y] => x = y}
      Occupants(C, t, e, w) ==
        {x \in DOMAIN B \ {e} : w = IF x \in rated /\ t[x] < t[e] THEN C[x] ELSE B[x]}
      outcomes ==
        {C \in [DOMAIN B -> Batches \cup {NoBatch}] :
           /\ \A e \in DOMAIN B \ rated : C[e] = B[e]
           /\ \E t \in turns : \A e \in rated : \E want \in Batches :
                C[e] = IF want = B[e] \/ Cardinality(Occupants(C, t, e, want)) < BatchCapacity
                       THEN want ELSE NoBatch}
  IN  {[e \in {x \in DOMAIN B : C[x] # NoBatch} |-> C[e]] : C \in outcomes}

-----------------------------------------------------------------------------

(* Platforms.sync: an object made for a group of the other kind is not kept. *)
Synced(old, groups, by) ==
  [g \in groups |-> IF g \in DOMAIN old /\ old[g] = by THEN old[g] ELSE by]

(* The membership pass, over the slots N and E that the removals left.      *)
Pass(N, by) ==
  /\ targets' = Targets(state.nodes, by)
  /\ platforms' = Synced(platforms, Groups(state.nodes, by), by)
  /\ \E T \in Admissible(N) :
       nodes' = [id \in DOMAIN N \cup T |->
                   IF id \in T THEN state.nodes[id].machine ELSE N[id]]

(* applyChanges, and refreshRates if it runs as well.  An edge that has a    *)
(* slot keeps it as it is; setSame looks at those of the store.             *)
ApplyChanges(dirty, by, refreshed) ==
  LET N == [id \in DOMAIN nodes \ state.removedNodes |->
              IF id \in Moved THEN state.nodes[id].machine ELSE nodes[id]]
      E == edges \ state.removedEdges
      M == (state.addedEdges \cap state.edges) \ E
      S == IF dirty THEN E \cap state.edges ELSE {}
  IN  /\ IF dirty THEN Pass(N, by) ELSE nodes' = N /\ UNCHANGED <<targets, platforms>>
      /\ \E A \in AdmissibleEdges(M, E) :
           LET B == [e \in E \cup A |-> IF e \in A THEN 0 ELSE batch[e]]
           IN  /\ batch' \in IF refreshed THEN Rerated(B) ELSE {B}
               /\ same' = edges' \cap ((same \cap (E \ S)) \cup {e \in S \cup A : SamePlatform(e, by)})
               /\ refused' = (refused \cup M \cup E) \cap (state.edges \ edges')
      /\ passedBy' = ((passedBy \ Moved) \cap DOMAIN N)
                       \cup (edges' \cap IF dirty THEN E \ S ELSE passedBy \cap E)
      /\ groupBy' = by
      /\ state' = Consumed(state)
      /\ UNCHANGED <<server, connected>>

(* The head of every animation frame; refreshRates does nothing more often  *)
(* than four times a second.                                                *)
Frame(refreshed) == ApplyChanges(MembershipDirty(groupBy), groupBy, refreshed)

(* filters.onChange for the other grouping, between frames: a pass at once. *)
SwitchGrouping ==
  ApplyChanges(TRUE, IF groupBy = "namespace" THEN "machine" ELSE "namespace", TRUE)

(* refreshRates alone, on other clicks. *)
RefreshRates ==
  /\ batch' \in Rerated(batch)
  /\ same' = same \cap edges'
  /\ refused' = refused \cup (edges \ edges')
  /\ passedBy' = passedBy \ (edges \ edges')
  /\ UNCHANGED <<server, connected, state, nodes, arrangement>>

Next ==
  \/ ReceiveSnapshot \/ ReceiveTick \/ Disconnect
  \/ \E refreshed \in BOOLEAN : Frame(refreshed)
  \/ SwitchGrouping \/ RefreshRates

Spec == Init /\ [][Next]_vars

(* Nothing is waiting for a frame. *)
Settled == state = Consumed(state)

-----------------------------------------------------------------------------
(* What refreshRates hides, every quarter of a second and on every click:   *)
(* `off' is what is switched off.  Verdicts, protocols and silence, which   *)
(* hide further arcs, are left out.                                         *)

IsReserved(id) == id \notin Workloads

MachineAnchorHidden(id, off) == Kind[id] = "machine" /\ Anchor[id] \in off.machines

NodeHidden(id, off) ==
  \/ ~IsReserved(id) /\ Namespace[id] \in off.namespaces
  \/ IsReserved(id) /\ off.reserved
  \/ state.nodes[id].machine \in off.machines
  \/ MachineAnchorHidden(id, off)

(* machineOf: what the slot says, not the store. *)
SlotMachine(id) == IF id \in DOMAIN nodes THEN nodes[id] ELSE NoMachine

(* Mutant: machine anchors hide their node only. *)
EdgeHidden_NoAnchors(e, off) ==
  \E id \in {Src[e], Dst[e]} :
    \/ ~IsReserved(id) /\ Namespace[id] \in off.namespaces
    \/ IsReserved(id) /\ off.reserved
    \/ SlotMachine(id) \in off.machines

EdgeHidden(e, off) ==
  \E id \in {Src[e], Dst[e]} :
    \/ ~IsReserved(id) /\ Namespace[id] \in off.namespaces
    \/ IsReserved(id) /\ off.reserved
    \/ SlotMachine(id) \in off.machines
    \/ MachineAnchorHidden(id, off)

-----------------------------------------------------------------------------
(* Properties.                                                              *)

(* Whatever was missed while away, the store is the server's graph after      *)
(* every message: a snapshot leaves nothing of the old graph behind, a tick   *)
(* applied to the last one is enough, and each node knows exactly the edges   *)
(* that touch it, which the panel lists (graph-state.ts:187-229).             *)
StoreFollowsServer ==
  /\ DOMAIN state.nodes = DOMAIN server.nodes
  /\ state.edges = server.edges
  /\ \A id \in DOMAIN state.nodes :
       /\ state.nodes[id].machine = server.nodes[id]
       /\ state.nodes[id].edges = Touching(state.edges, id)

(* However many messages pile up between two frames, after a frame everything *)
(* in the store is drawn: an id that was removed and came back, in ticks or   *)
(* across snapshots, is never lost for the renderer.  A node that found the   *)
(* pool full gets the slot of one that leaves: nothing is undrawn while a     *)
(* slot is free (nodes.ts:121-145, main.ts:114-120).  An edge is not drawn    *)
(* only if its batch was full, and this it is never asked again: when it was  *)
(* last added or when its rate last moved it (edges.ts:116, :167).            *)
NothingUndrawn ==
  Settled =>
    /\ state.edges \subseteq edges \cup refused
    /\ \/ DOMAIN state.nodes \subseteq DOMAIN nodes
       \/ Cardinality(DOMAIN nodes) = Capacity

(* Nodes move and the grouping is switched at any time between messages and   *)
(* frames, and not every frame makes a membership pass; still each frame      *)
(* leaves every light, platform and low arc where the grouping of the moment  *)
(* puts it (main.ts:99-123, :207-216).  Two things stay behind, both because  *)
(* what is removed, added and removed again between two frames is reported to *)
(* no one (graph-state.ts:222, :228): a node keeps its place and its platform *)
(* until the next pass, and an arc that a pass found without its edge has,    *)
(* when the edge returns, the flag of the grouping it left under.             *)
ArrangedAsGrouped ==
  Settled =>
    /\ DOMAIN targets \subseteq DOMAIN state.nodes =>
         /\ targets = Targets(state.nodes, groupBy)
         /\ platforms = [g \in Groups(state.nodes, groupBy) |-> groupBy]
    /\ \A e \in (state.edges \cap edges) \ passedBy : e \in same <=> SamePlatform(e, groupBy)

Filters ==
  [namespaces: SUBSET {Namespace[id] : id \in Workloads}, machines: SUBSET Machines,
   reserved: BOOLEAN]

(* Whatever is switched off, no shown arc ends on a hidden light, although    *)
(* lights are hidden by what the store says of their machine and arcs by what *)
(* the slots say (main.ts:169-194).  Except at a light whose node came back   *)
(* with another machine within a frame: its slot is not told (main.ts:95-98). *)
ArcsEndOnLights ==
  Settled =>
    \A off \in Filters : \A e \in state.edges \cap edges :
      ~EdgeHidden(e, off) =>
        \A id \in ({Src[e], Dst[e]} \cap DOMAIN nodes) \ passedBy : ~NodeHidden(id, off)

=============================================================================
