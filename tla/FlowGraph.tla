----------------------------- MODULE FlowGraph -----------------------------
(***************************************************************************)
(* The aggregation graph of internal/graph/graph.go: flows come in, a      *)
(* ticker takes deltas out, and Relay's peer list names machines.  Every   *)
(* operation holds the graph's mutex from beginning to end, so each is one *)
(* action; what an operation does to the graph is an operator from the     *)
(* graph before to the graph after, because Ingest composes several of     *)
(* them (learn, retire, touch, place, count) inside one critical section.  *)
(*                                                                         *)
(* The graph is one record with the fields of the Go struct.  Maps are     *)
(* functions, sets of ids are sets; the ring of per-second buckets, the    *)
(* labels and the wording of L7 details are left out: `details' counts the *)
(* observations that changed an edge's drop reasons or L7 summary.         *)
(***************************************************************************)
EXTENDS EndpointKey, FiniteSets

CONSTANTS
  Flows,       \* the flows the source may deliver (without their time)
  PeerLists,   \* the address-to-machine maps GetNodes may return
  Retention,   \* history depth, in the unit of `now'
  Lag, Skew,   \* how far a flow's time may be behind or ahead of `now'
  MaxFlows,    \* bound: flows ingested in a behaviour
  MaxTime      \* bound: the last value of the clock

VARIABLES
  graph,       \* the Graph struct
  now,         \* the server's clock
  flows        \* flows delivered so far (only to bound the behaviours)

vars == <<graph, now, flows>>

-----------------------------------------------------------------------------

Codes == {"f", "d", "a", "e"}

(* verdictCode: the counter a verdict goes to; other verdicts are skipped. *)
VerdictCode(verdict) ==
  CASE verdict \in {"FORWARDED", "REDIRECTED", "TRACED", "TRANSLATED"} -> "f"
    [] verdict = "DROPPED" -> "d"
    [] verdict = "AUDIT"   -> "a"
    [] verdict = "ERROR"   -> "e"
    [] OTHER               -> "none"

Endpoint == [nil: BOOLEAN, ns: Names, kind: Names, workload: Names, base: Names,
             pod: Names, reserved: Seq(Names), cidr: Names]

Side == [ep: Endpoint, names: Seq(Names), ip: Names]

Flow == [reply: BOOLEAN, verdict: Names, src: Side, dst: Side, direction: Names,
         observer: Names, l4: L4, detail: BOOLEAN]

NodeKeys == [ns: Names, kind: Names, name: Names]

EdgeKeys == [src: NodeKeys, dst: NodeKeys, proto: {"TCP", "UDP", "SCTP", "ICMP", "L3"},
             port: Nat]

(* A flow has two addresses: no packet goes from an address to itself       *)
(* through the agent, so one endpoint's machine is never named by the other *)
(* endpoint's address inside one flow.                                      *)
ASSUME FlowsAssumption == Flows \subseteq {f \in Flow : f.src.ip # f.dst.ip}

ASSUME ParametersAssumption ==
  /\ Retention \in Nat \ {0}
  /\ Lag \in Nat /\ Skew \in Nat /\ MaxFlows \in Nat /\ MaxTime \in Nat

ASSUME PeerListsAssumption ==
  \A peers \in PeerLists : /\ DOMAIN peers \subseteq Names
                           /\ peers \in [DOMAIN peers -> Names]

(* "remote-node" is an identity of Cilium's: no workload is of that kind     *)
(* (kinds are those of Kubernetes, in CamelCase), and no address is spelled  *)
(* so.                                                                      *)
ASSUME SpellingAssumption ==
  /\ \A f \in Flows :
       "remote-node" \notin {f.src.ep.kind, f.dst.ep.kind, f.src.ip, f.dst.ip}
  /\ \A peers \in PeerLists : "remote-node" \notin DOMAIN peers

-----------------------------------------------------------------------------
(* The graph's operations, as operators on the graph.                       *)

Without(f, S) == [x \in DOMAIN f \ S |-> f[x]]

Put(f, x, v) == [y \in DOMAIN f \cup {x} |-> IF y = x THEN v ELSE f[y]]

NoCounts == [c \in Codes |-> 0]

EmptyGraph ==
  [nodes |-> <<>>, edges |-> <<>>, newNodes |-> {}, dirtyNode |-> {}, dirty |-> <<>>,
   dirtyL7 |-> {}, goneNodes |-> {}, goneEdges |-> {}, nodeIPs |-> <<>>]

Out(E, id) == {e \in E : e.src = id}
In(E, id)  == {e \in E : e.dst = id}

(* How many ends of the conversations E are at node id. *)
Degree(E, id) == Cardinality(Out(E, id)) + Cardinality(In(E, id))

Reconnected(n, k) == [n EXCEPT !.edges = @ + k]

(* Mutant: only the source's counter goes down. *)
DropEdges_SourceOnly(g, E) ==
  [g EXCEPT
     !.edges = Without(@, E), !.dirty = Without(@, E), !.dirtyL7 = @ \ E,
     !.goneEdges = @ \cup E,
     !.nodes = [id \in DOMAIN g.nodes |->
                  Reconnected(g.nodes[id], -Cardinality(Out(E, id)))]]

(* What deleting the conversations E does, in retireAddress and in Tick:   *)
(* both endpoints lose one from their counter for each.                    *)
DropEdges(g, E) ==
  [g EXCEPT
     !.edges = Without(@, E), !.dirty = Without(@, E), !.dirtyL7 = @ \ E,
     !.goneEdges = @ \cup E,
     !.nodes = [id \in DOMAIN g.nodes |-> Reconnected(g.nodes[id], -Degree(E, id))]]

(* Mutant: a fresh node that leaves stays in the list of new nodes. *)
DropNodes_StillNew(g, N) ==
  [g EXCEPT
     !.nodes = Without(@, N), !.dirtyNode = @ \ N,
     !.goneNodes = @ \cup (N \ g.newNodes)]

(* What deleting the nodes N does: one that was never sent leaves silently. *)
DropNodes(g, N) ==
  [g EXCEPT
     !.nodes = Without(@, N), !.dirtyNode = @ \ N, !.newNodes = @ \ N,
     !.goneNodes = @ \cup (N \ g.newNodes)]

(* Mutant: only the conversations towards the anchor go with it. *)
RetireAddresses_Incoming(g, ips) ==
  LET anchors == {AddressAnchor(ip) : ip \in ips} \cap DOMAIN g.nodes
  IN  DropNodes(DropEdges(g, {e \in DOMAIN g.edges : e.dst \in anchors}), anchors)

(* retireAddress for a set of addresses: each anchor goes with every        *)
(* conversation that touches it.  The order of the addresses is immaterial. *)
RetireAddresses(g, ips) ==
  LET anchors == {AddressAnchor(ip) : ip \in ips} \cap DOMAIN g.nodes
      cut     == {e \in DOMAIN g.edges : e.src \in anchors \/ e.dst \in anchors}
  IN  DropNodes(DropEdges(g, cut), anchors)

(* Mutant: the address's anchor is not retired. *)
LearnMachines_KeepAnchor(g, addrs) ==
  [g EXCEPT !.nodeIPs = [ip \in DOMAIN addrs \cup DOMAIN @ |->
                           IF ip \in DOMAIN addrs THEN addrs[ip] ELSE @[ip]]]

(* learnMachine for each pair of addrs: a pair that is news is recorded     *)
(* (and never forgotten), then the address's own anchor is retired.         *)
LearnMachines(g, addrs) ==
  LET news == {ip \in DOMAIN addrs :
                 /\ ip # ""
                 /\ addrs[ip] # ""
                 /\ ~(ip \in DOMAIN g.nodeIPs /\ g.nodeIPs[ip] = addrs[ip])}
      known == [ip \in news \cup DOMAIN g.nodeIPs |->
                  IF ip \in news THEN addrs[ip] ELSE g.nodeIPs[ip]]
  IN  RetireAddresses([g EXCEPT !.nodeIPs = known], news)

Later(s, t) == IF t > s THEN t ELSE s

NewNode(t) == [edges |-> 0, lastSeen |-> t, machines |-> <<>>, machine |-> ""]

Touched(n, t) == [n EXCEPT !.lastSeen = Later(@, t)]

TouchNode(g, id, t) ==
  IF id \in DOMAIN g.nodes
    THEN [g EXCEPT !.nodes = Put(@, id, Touched(g.nodes[id], t))]
    ELSE [g EXCEPT !.nodes = Put(@, id, NewNode(t)), !.newNodes = @ \cup {id}]

SeenOn(n, machine) == IF machine \in DOMAIN n.machines THEN n.machines[machine] ELSE 0

(* Mutant: the last machine wins, not the most frequent one. *)
Moves_Last(n, machine) == machine # n.machine

(* One more sighting on machine makes it the node's Machine. *)
Moves(n, machine) ==
  /\ machine # n.machine
  /\ SeenOn(n, machine) + 1 > SeenOn(n, n.machine) \/ n.machine = ""

Placed(n, machine) ==
  [n EXCEPT !.machines = Put(@, machine, SeenOn(n, machine) + 1),
            !.machine = IF Moves(n, machine) THEN machine ELSE @]

(* Mutant: a change of machine is not queued for the next tick. *)
PlaceOn_Unsent(g, id, machine) ==
  IF machine = "" \/ id.ns \in {ReservedNamespace, "unknown"} THEN g
  ELSE [g EXCEPT !.nodes = Put(@, id, Placed(g.nodes[id], machine))]

(* placeOn: count the machine, and when it overtakes the current one, take  *)
(* it and send the node with the next tick unless it is new anyway.         *)
PlaceOn(g, id, machine) ==
  IF machine = "" \/ id.ns \in {ReservedNamespace, "unknown"} THEN g
  ELSE [g EXCEPT
          !.nodes = Put(@, id, Placed(g.nodes[id], machine)),
          !.dirtyNode = @ \cup (IF Moves(g.nodes[id], machine) THEN {id} \ g.newNodes ELSE {})]

NewEdge(t) == [counts |-> NoCounts, lastSeen |-> t, details |-> 0]

(* Ingest creates the edge on first sight, with one more for the counters   *)
(* of both endpoints.                                                       *)
Connect(g, e, t) ==
  IF e \in DOMAIN g.edges THEN g
  ELSE [g EXCEPT
          !.edges = Put(@, e, NewEdge(t)),
          !.nodes = [id \in DOMAIN g.nodes |-> Reconnected(g.nodes[id], Degree({e}, id))]]

Increment(counts, code) == [counts EXCEPT ![code] = @ + 1]

Counted(edge, code, t, detail) ==
  [counts   |-> Increment(edge.counts, code),
   lastSeen |-> Later(edge.lastSeen, t),
   details  |-> edge.details + (IF detail THEN 1 ELSE 0)]

(* Ingest then counts the flow in the edge's totals and in the delta. *)
Count(g, e, code, t, detail) ==
  [g EXCEPT
     !.edges = Put(@, e, Counted(g.edges[e], code, t, detail)),
     !.dirtyL7 = @ \cup (IF detail THEN {e} ELSE {}),
     !.dirty = Put(@, e, Increment(IF e \in DOMAIN @ THEN @[e] ELSE NoCounts, code))]

Skipped(f) == f.reply \/ VerdictCode(f.verdict) \notin Codes

(* The whole of Ingest for a flow that is not skipped.  The source is keyed *)
(* before the destination, and each may teach a machine; a flow from a node *)
(* to itself is dropped only after that.                                    *)
Ingested(g, f, t) ==
  LET g1  == LearnMachines(g, Learned(f.src, f.observer))
      src == EndpointKey(f.src, f.observer, g.nodeIPs)
      g2  == LearnMachines(g1, Learned(f.dst, f.observer))
      dst == EndpointKey(f.dst, f.observer, g1.nodeIPs)
      g3  == TouchNode(TouchNode(g2, src, t), dst, t)
      g4  == CASE f.direction = "EGRESS"  -> PlaceOn(g3, src, f.observer)
               [] f.direction = "INGRESS" -> PlaceOn(g3, dst, f.observer)
               [] OTHER                   -> g3
      e   == EdgeKey(src, dst, L4Key(f.l4))
  IN  IF src = dst THEN g2
      ELSE Count(Connect(g4, e, t), e, VerdictCode(f.verdict), t, f.detail)

(* Mutant: an idle node is kept while its counter is not negative. *)
Expired_Negative(g, cutoff) ==
  LET g1   == DropEdges(g, {e \in DOMAIN g.edges : g.edges[e].lastSeen < cutoff})
      idle == {id \in DOMAIN g1.nodes : /\ g1.nodes[id].edges < 0
                                        /\ g1.nodes[id].lastSeen < cutoff}
  IN  DropNodes(g1, idle)

(* The expiry at the head of Tick: idle conversations first, then the idle  *)
(* nodes that are left without any.                                         *)
Expired(g, cutoff) ==
  LET g1   == DropEdges(g, {e \in DOMAIN g.edges : g.edges[e].lastSeen < cutoff})
      idle == {id \in DOMAIN g1.nodes : /\ g1.nodes[id].edges <= 0
                                        /\ g1.nodes[id].lastSeen < cutoff}
  IN  DropNodes(g1, idle)

(* The delta Tick builds: new nodes and nodes that moved to another         *)
(* machine, the increments of every dirty edge with its details when they   *)
(* changed, and what is gone.                                               *)
TickMessage(g) ==
  [nodes |-> [id \in g.newNodes \cup g.dirtyNode |-> g.nodes[id].machine],
   edges |-> [e \in DOMAIN g.dirty \cap DOMAIN g.edges |->
                [counts  |-> g.dirty[e],
                 details |-> IF e \in g.dirtyL7 THEN g.edges[e].details ELSE 0]],
   gone  |-> [nodes |-> g.goneNodes, edges |-> g.goneEdges]]

(* Mutant: the increments are handed out and kept. *)
Cleared_KeepDirty(g) ==
  [g EXCEPT !.newNodes = {}, !.dirtyNode = {}, !.dirtyL7 = {},
            !.goneNodes = {}, !.goneEdges = {}]

Cleared(g) ==
  [g EXCEPT !.newNodes = {}, !.dirtyNode = {}, !.dirty = <<>>, !.dirtyL7 = {},
            !.goneNodes = {}, !.goneEdges = {}]

-----------------------------------------------------------------------------

Init ==
  /\ graph = EmptyGraph
  /\ now = 0
  /\ flows = 0

Ingest ==
  /\ flows < MaxFlows
  /\ \E f \in Flows, t \in (now - Lag)..(now + Skew) :
       /\ ~Skipped(f)
       /\ graph' = Ingested(graph, f, t)
  /\ flows' = flows + 1
  /\ UNCHANGED now

Peers ==
  /\ \E peers \in PeerLists : graph' = LearnMachines(graph, peers)
  /\ UNCHANGED <<now, flows>>

Tick ==
  /\ graph' = Cleared(Expired(graph, now - Retention))
  /\ UNCHANGED <<now, flows>>

Advance ==
  /\ now < MaxTime
  /\ now' = now + 1
  /\ UNCHANGED <<graph, flows>>

Next == Ingest \/ Peers \/ Tick \/ Advance

Spec == Init /\ [][Next]_vars

-----------------------------------------------------------------------------
(* Properties.                                                              *)

IsNode(n) ==
  /\ n = [edges |-> n.edges, lastSeen |-> n.lastSeen, machines |-> n.machines,
          machine |-> n.machine]
  /\ n.edges \in Int /\ n.lastSeen \in Int /\ n.machine \in Names
  /\ DOMAIN n.machines \subseteq Names
  /\ n.machines \in [DOMAIN n.machines -> Nat]

Edge == [counts: [Codes -> Nat], lastSeen: Int, details: Nat]

HasFields(g) ==
  g = [nodes |-> g.nodes, edges |-> g.edges, newNodes |-> g.newNodes,
       dirtyNode |-> g.dirtyNode, dirty |-> g.dirty, dirtyL7 |-> g.dirtyL7,
       goneNodes |-> g.goneNodes, goneEdges |-> g.goneEdges, nodeIPs |-> g.nodeIPs]

IsGraph(g) ==
  /\ HasFields(g)
  /\ DOMAIN g.nodes \subseteq NodeKeys
  /\ g.nodes = [id \in DOMAIN g.nodes |-> g.nodes[id]]
  /\ \A id \in DOMAIN g.nodes : IsNode(g.nodes[id])
  /\ DOMAIN g.edges \subseteq EdgeKeys
  /\ g.edges \in [DOMAIN g.edges -> Edge]
  /\ g.newNodes \cup g.dirtyNode \cup g.goneNodes \subseteq NodeKeys
  /\ g.dirtyL7 \cup g.goneEdges \subseteq EdgeKeys
  /\ g.dirty \in [DOMAIN g.dirty -> [Codes -> Nat]]
  /\ DOMAIN g.nodeIPs \subseteq Names
  /\ g.nodeIPs \in [DOMAIN g.nodeIPs -> Names]

(* Types of the graph's maps and sets.  That the keys of `nodes' and `edges' *)
(* are keys is also what makes them usable as ids on the wire.               *)
TypeOK == IsGraph(graph) /\ now \in Int /\ flows \in Nat

EndpointsLive(g) ==
  \A e \in DOMAIN g.edges : e.src \in DOMAIN g.nodes /\ e.dst \in DOMAIN g.nodes

(* Both endpoints of every conversation are live nodes.  Ingest, Tick and     *)
(* retireAddress dereference g.nodes[endpoint] without a nil check            *)
(* (graph.go:147-148, :205-206, :319-320), so a missing endpoint is a crash.  *)
EndpointsExist == EndpointsLive(graph)

CountersExact(g) ==
  \A id \in DOMAIN g.nodes : g.nodes[id].edges = Degree(DOMAIN g.edges, id)

(* A node's edge counter is the number of conversations that touch it, across *)
(* creation, expiry and retirement of either endpoint.  Tick removes a node   *)
(* when the counter is not positive: one too few would take a node away under *)
(* its conversations, one too many would keep it for ever.                    *)
EdgeCountersExact == CountersExact(graph)

PendingConsistent(g) ==
  /\ g.newNodes \cup g.dirtyNode \subseteq DOMAIN g.nodes
  /\ g.newNodes \cap g.dirtyNode = {}
  /\ g.dirtyL7 \subseteq DOMAIN g.dirty
  /\ DOMAIN g.dirty \subseteq DOMAIN g.edges

(* What waits for the next tick is consistent with the graph: everything to   *)
(* be announced is live, and nothing that is to be retired is live again.     *)
(* Tick reads g.edges[id] and the nodes of newNodes and dirtyNode, and a      *)
(* client applies a tick's gone list after its nodes and edges, so an id in   *)
(* both would be lost.                                                        *)
DeltaWellFormed ==
  /\ PendingConsistent(graph)
  /\ graph.goneNodes \cap DOMAIN graph.nodes = {}
  /\ graph.goneEdges \cap DOMAIN graph.edges = {}

(* A machine whose address has been learned is one anchor, under its name:    *)
(* the anchor by address does not survive the learning and does not come      *)
(* back, whichever of flows and peer list taught the name.                    *)
NamedAddressHasNoAnchor ==
  \A ip \in DOMAIN graph.nodeIPs : AddressAnchor(ip) \notin DOMAIN graph.nodes

(* A node's Machine is one of the machines it was seen on most often, though  *)
(* placeOn only ever compares the machine just counted with the current one.  *)
MachineIsMostSeen ==
  \A id \in DOMAIN graph.nodes :
    LET n == graph.nodes[id]
    IN  \A m \in DOMAIN n.machines : n.machines[m] <= SeenOn(n, n.machine)

(* When the flows stop, everything is forgotten in the end: no conversation   *)
(* and no node is kept by a counter or a timestamp that stopped being right.  *)
EventuallyForgotten ==
  (now + Skew + Retention < MaxTime /\ flows = MaxFlows)
     ~> (DOMAIN graph.nodes = {} /\ DOMAIN graph.edges = {})

=============================================================================
