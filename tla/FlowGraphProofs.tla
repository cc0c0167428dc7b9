------------------------- MODULE FlowGraphProofs --------------------------
(***************************************************************************)
(* Proofs about FlowGraph and FlowGraphFeed for every set of flows, every  *)
(* peer list and every retention, in three parts.                          *)
(*                                                                         *)
(* The graph: GraphInv is the part of the inductive invariant that each    *)
(* operation on the graph preserves by itself; one lemma per operation     *)
(* says so, and Ingest, Peers and Tick compose the lemmas.                 *)
(*                                                                         *)
(* What is gone: an address that has a name has no anchor of its own, what *)
(* waits to be announced as gone is not live, and a node's machine is one  *)
(* it was seen on most often.  The first two hold together: only anchors   *)
(* of named addresses are ever retired between two ticks, and the keys of  *)
(* a flow, derived while other addresses are being named, never bring one  *)
(* of them back.                                                           *)
(*                                                                         *)
(* The feed: the deltas of graph.go, applied as graph-state.ts does,       *)
(* implement the abstract feed.  Between two ticks the client lacks what   *)
(* the graph has put down for the next one, and nothing else: NodesOwed    *)
(* and EdgesOwed say so, for each node and each conversation.  They hold   *)
(* only because what is gone does not come back before the tick            *)
(* (AnchorInv).                                                            *)
(***************************************************************************)
EXTENDS FlowGraphFeed, FiniteSetTheorems, TLAPS

GraphInv(g) ==
  /\ IsGraph(g)
  /\ IsFiniteSet(DOMAIN g.edges)
  /\ EndpointsLive(g)
  /\ CountersExact(g)
  /\ PendingConsistent(g)

-----------------------------------------------------------------------------
(* Counting conversations.                                                  *)

(* The conversations that leave or enter a node are finitely many. *)
LEMMA DegreeType ==
  ASSUME NEW E, IsFiniteSet(E), NEW id
  PROVE  /\ IsFiniteSet(Out(E, id)) /\ IsFiniteSet(In(E, id))
         /\ Cardinality(Out(E, id)) \in Nat /\ Cardinality(In(E, id)) \in Nat
         /\ Degree(E, id) \in Nat
  <1>1. Out(E, id) \subseteq E /\ In(E, id) \subseteq E  BY DEF Out, In
  <1>2. IsFiniteSet(Out(E, id)) /\ IsFiniteSet(In(E, id))  BY <1>1, FS_Subset
  <1>3. Cardinality(Out(E, id)) \in Nat /\ Cardinality(In(E, id)) \in Nat
    BY <1>2, FS_CardinalityType
  <1> QED BY <1>2, <1>3 DEF Degree

(* Only a node that no conversation touches has degree zero. *)
LEMMA DegreeZero ==
  ASSUME NEW E, IsFiniteSet(E), NEW id, Degree(E, id) <= 0
  PROVE  \A e \in E : e.src # id /\ e.dst # id
  <1>1. /\ IsFiniteSet(Out(E, id)) /\ IsFiniteSet(In(E, id))
        /\ Cardinality(Out(E, id)) \in Nat /\ Cardinality(In(E, id)) \in Nat
    BY DegreeType
  <1>2. Cardinality(Out(E, id)) = 0 /\ Cardinality(In(E, id)) = 0  BY <1>1 DEF Degree
  <1>3. Out(E, id) = {} /\ In(E, id) = {}  BY <1>1, <1>2, FS_EmptySet
  <1> QED BY <1>3 DEF Out, In

(* Removing conversations lowers the degree by that of what is removed. *)
LEMMA DegreeDrop ==
  ASSUME NEW E, IsFiniteSet(E), NEW D \in SUBSET E, NEW id
  PROVE  Degree(E \ D, id) = Degree(E, id) - Degree(D, id)
  <1>1. IsFiniteSet(D)  BY FS_Subset
  <1>2. /\ IsFiniteSet(Out(E, id)) /\ IsFiniteSet(In(E, id))
        /\ Cardinality(Out(E, id)) \in Nat /\ Cardinality(In(E, id)) \in Nat
        /\ Cardinality(Out(D, id)) \in Nat /\ Cardinality(In(D, id)) \in Nat
    BY <1>1, DegreeType
  <1>3. /\ Out(E \ D, id) = Out(E, id) \ Out(D, id)
        /\ In(E \ D, id) = In(E, id) \ In(D, id)
    BY DEF Out, In
  <1>4. /\ Out(E, id) \cap Out(D, id) = Out(D, id)
        /\ In(E, id) \cap In(D, id) = In(D, id)
    BY DEF Out, In
  <1>5. /\ Cardinality(Out(E, id) \ Out(D, id))
             = Cardinality(Out(E, id)) - Cardinality(Out(E, id) \cap Out(D, id))
        /\ Cardinality(In(E, id) \ In(D, id))
             = Cardinality(In(E, id)) - Cardinality(In(E, id) \cap In(D, id))
    BY <1>2, FS_Difference
  <1>6. /\ Cardinality(Out(E \ D, id)) = Cardinality(Out(E, id)) - Cardinality(Out(D, id))
        /\ Cardinality(In(E \ D, id)) = Cardinality(In(E, id)) - Cardinality(In(D, id))
    BY <1>3, <1>4, <1>5
  <1> QED BY <1>2, <1>6 DEF Degree

(* A new conversation adds its own ends. *)
LEMMA DegreeAdd ==
  ASSUME NEW E, IsFiniteSet(E), NEW e, e \notin E, NEW id
  PROVE  Degree(E \cup {e}, id) = Degree(E, id) + Degree({e}, id)
  <1>1. IsFiniteSet(E \cup {e})  BY FS_AddElement
  <1>2. Degree((E \cup {e}) \ {e}, id) = Degree(E \cup {e}, id) - Degree({e}, id)
    BY <1>1, DegreeDrop
  <1>3. (E \cup {e}) \ {e} = E  OBVIOUS
  <1>4. IsFiniteSet({e})  BY FS_Singleton
  <1>5. /\ Degree(E \cup {e}, id) \in Nat /\ Degree({e}, id) \in Nat
        /\ Degree(E, id) \in Nat
    BY <1>1, <1>4, DegreeType
  <1>6. Degree(E, id) = Degree(E \cup {e}, id) - Degree({e}, id)  BY <1>2, <1>3
  <1> QED BY <1>5, <1>6

-----------------------------------------------------------------------------
(* The operations.                                                          *)

(* What DropEdges leaves in each field. *)
LEMMA DropEdgesFields ==
  ASSUME NEW g, HasFields(g), NEW E
  PROVE  /\ HasFields(DropEdges(g, E))
         /\ DropEdges(g, E).nodes = [id \in DOMAIN g.nodes |->
                                      Reconnected(g.nodes[id], -Degree(E, id))]
         /\ DropEdges(g, E).edges = Without(g.edges, E)
         /\ DropEdges(g, E).dirty = Without(g.dirty, E)
         /\ DropEdges(g, E).dirtyL7 = g.dirtyL7 \ E
         /\ DropEdges(g, E).goneEdges = g.goneEdges \cup E
         /\ DropEdges(g, E).newNodes = g.newNodes
         /\ DropEdges(g, E).dirtyNode = g.dirtyNode
         /\ DropEdges(g, E).goneNodes = g.goneNodes
         /\ DropEdges(g, E).nodeIPs = g.nodeIPs
  <1> DEFINE nodes == [id \in DOMAIN g.nodes |-> Reconnected(g.nodes[id], -Degree(E, id))]
  <1>1. DropEdges(g, E) = [g EXCEPT !.edges = Without(g.edges, E), !.dirty = Without(g.dirty, E),
                                    !.dirtyL7 = g.dirtyL7 \ E,
                                    !.goneEdges = g.goneEdges \cup E, !.nodes = nodes]
    BY DEF DropEdges
  <1> HIDE DEF nodes
  <1>2. /\ HasFields(DropEdges(g, E))
        /\ DropEdges(g, E).nodes = nodes
        /\ DropEdges(g, E).edges = Without(g.edges, E)
        /\ DropEdges(g, E).dirty = Without(g.dirty, E)
        /\ DropEdges(g, E).dirtyL7 = g.dirtyL7 \ E
        /\ DropEdges(g, E).goneEdges = g.goneEdges \cup E
        /\ DropEdges(g, E).newNodes = g.newNodes
        /\ DropEdges(g, E).dirtyNode = g.dirtyNode
        /\ DropEdges(g, E).goneNodes = g.goneNodes
        /\ DropEdges(g, E).nodeIPs = g.nodeIPs
    BY <1>1 DEF HasFields
  <1> QED BY <1>2 DEF nodes

(* Adjusting a node's counter changes nothing else of it. *)
LEMMA ReconnectedType ==
  ASSUME NEW n, IsNode(n), NEW k \in Int
  PROVE  IsNode(Reconnected(n, k)) /\ Reconnected(n, k).edges = n.edges + k
  BY DEF IsNode, Reconnected

(* Dropping conversations keeps the counters exact. *)
LEMMA DropEdgesInv ==
  ASSUME NEW g, GraphInv(g), NEW E \in SUBSET DOMAIN g.edges
  PROVE  GraphInv(DropEdges(g, E))
  <1> DEFINE h == DropEdges(g, E)
  <1>1. IsGraph(g) /\ HasFields(g) /\ IsFiniteSet(DOMAIN g.edges)
    BY DEF GraphInv, IsGraph
  <1>2. IsFiniteSet(E) /\ \A id : Degree(E, id) \in Nat
    BY <1>1, FS_Subset, DegreeType
  <1>3. /\ HasFields(h)
        /\ h.nodes = [id \in DOMAIN g.nodes |-> Reconnected(g.nodes[id], -Degree(E, id))]
        /\ h.edges = Without(g.edges, E) /\ h.dirty = Without(g.dirty, E)
        /\ h.dirtyL7 = g.dirtyL7 \ E /\ h.goneEdges = g.goneEdges \cup E
        /\ h.newNodes = g.newNodes /\ h.dirtyNode = g.dirtyNode
        /\ h.goneNodes = g.goneNodes /\ h.nodeIPs = g.nodeIPs
    BY <1>1, DropEdgesFields
  <1> HIDE DEF h
  <1>4. DOMAIN h.edges = DOMAIN g.edges \ E /\ DOMAIN h.nodes = DOMAIN g.nodes
    BY <1>3 DEF Without
  <1>5. IsFiniteSet(DOMAIN h.edges)  BY <1>1, <1>4, FS_Difference
  <1>6. \A id \in DOMAIN h.nodes : /\ IsNode(h.nodes[id])
                                   /\ h.nodes[id].edges = g.nodes[id].edges - Degree(E, id)
    <2> TAKE id \in DOMAIN h.nodes
    <2>1. IsNode(g.nodes[id])  BY <1>1, <1>4 DEF IsGraph
    <2>2. h.nodes[id] = Reconnected(g.nodes[id], -Degree(E, id))  BY <1>3, <1>4
    <2>3. g.nodes[id].edges \in Int  BY <2>1 DEF IsNode
    <2>4. -Degree(E, id) \in Int /\ Degree(E, id) \in Int  BY <1>2
    <2>5. /\ IsNode(Reconnected(g.nodes[id], -Degree(E, id)))
          /\ Reconnected(g.nodes[id], -Degree(E, id)).edges
               = g.nodes[id].edges + (-Degree(E, id))
      BY <2>1, <2>4, ReconnectedType
    <2>6. g.nodes[id].edges + (-Degree(E, id)) = g.nodes[id].edges - Degree(E, id)
      BY <2>3, <2>4
    <2> QED BY <2>2, <2>5, <2>6
  <1>7. IsGraph(h)
    <2>1. /\ h.edges \in [DOMAIN h.edges -> Edge]
          /\ h.dirty \in [DOMAIN h.dirty -> [Codes -> Nat]]
      BY <1>1, <1>3 DEF IsGraph, Without
    <2>2. h.nodes = [id \in DOMAIN h.nodes |-> h.nodes[id]]  BY <1>3
    <2> QED BY <1>1, <1>3, <1>4, <1>6, <2>1, <2>2 DEF IsGraph
  <1>8. EndpointsLive(h)  BY <1>3, <1>4 DEF GraphInv, EndpointsLive
  <1>9. CountersExact(h)
    <2> SUFFICES ASSUME NEW id \in DOMAIN h.nodes
                 PROVE  h.nodes[id].edges = Degree(DOMAIN h.edges, id)
      BY DEF CountersExact
    <2>1. g.nodes[id].edges = Degree(DOMAIN g.edges, id)
      BY <1>4 DEF GraphInv, CountersExact
    <2> QED BY <1>1, <1>4, <1>6, <2>1, DegreeDrop
  <1>10. PendingConsistent(h)
    BY <1>3, <1>4 DEF GraphInv, PendingConsistent, Without
  <1> QED BY <1>5, <1>7, <1>8, <1>9, <1>10 DEF GraphInv, h

(* What DropNodes leaves in each field. *)
LEMMA DropNodesFields ==
  ASSUME NEW g, HasFields(g), NEW N
  PROVE  /\ HasFields(DropNodes(g, N))
         /\ DropNodes(g, N).nodes = Without(g.nodes, N)
         /\ DropNodes(g, N).newNodes = g.newNodes \ N
         /\ DropNodes(g, N).dirtyNode = g.dirtyNode \ N
         /\ DropNodes(g, N).goneNodes = g.goneNodes \cup (N \ g.newNodes)
         /\ DropNodes(g, N).edges = g.edges
         /\ DropNodes(g, N).dirty = g.dirty
         /\ DropNodes(g, N).dirtyL7 = g.dirtyL7
         /\ DropNodes(g, N).goneEdges = g.goneEdges
         /\ DropNodes(g, N).nodeIPs = g.nodeIPs
  <1>1. DropNodes(g, N) =
          [g EXCEPT !.nodes = Without(g.nodes, N), !.dirtyNode = g.dirtyNode \ N,
                    !.newNodes = g.newNodes \ N,
                    !.goneNodes = g.goneNodes \cup (N \ g.newNodes)]
    BY DEF DropNodes
  <1> QED BY <1>1 DEF HasFields

(* Nodes that no conversation touches can go. *)
LEMMA DropNodesInv ==
  ASSUME NEW g, GraphInv(g), NEW N \in SUBSET DOMAIN g.nodes,
         \A e \in DOMAIN g.edges : e.src \notin N /\ e.dst \notin N
  PROVE  GraphInv(DropNodes(g, N))
  <1> DEFINE h == DropNodes(g, N)
  <1>1. IsGraph(g) /\ HasFields(g)  BY DEF GraphInv, IsGraph
  <1>2. /\ HasFields(h) /\ h.nodes = Without(g.nodes, N)
        /\ h.newNodes = g.newNodes \ N /\ h.dirtyNode = g.dirtyNode \ N
        /\ h.goneNodes = g.goneNodes \cup (N \ g.newNodes)
        /\ h.edges = g.edges /\ h.dirty = g.dirty /\ h.dirtyL7 = g.dirtyL7
        /\ h.goneEdges = g.goneEdges /\ h.nodeIPs = g.nodeIPs
    BY <1>1, DropNodesFields
  <1> HIDE DEF h
  <1>3. /\ DOMAIN h.nodes = DOMAIN g.nodes \ N
        /\ \A id \in DOMAIN h.nodes : h.nodes[id] = g.nodes[id]
        /\ h.nodes = [id \in DOMAIN h.nodes |-> h.nodes[id]]
    BY <1>2 DEF Without
  <1>4. IsGraph(h)  BY <1>1, <1>2, <1>3 DEF IsGraph
  <1>5. EndpointsLive(h)  BY <1>2, <1>3 DEF GraphInv, EndpointsLive
  <1>6. CountersExact(h)  BY <1>2, <1>3 DEF GraphInv, CountersExact
  <1>7. PendingConsistent(h)  BY <1>2, <1>3 DEF GraphInv, PendingConsistent
  <1> QED BY <1>2, <1>4, <1>5, <1>6, <1>7 DEF GraphInv, h

(* retireAddress, for any set of addresses. *)
LEMMA RetireAddressesInv ==
  ASSUME NEW g, GraphInv(g), NEW ips
  PROVE  GraphInv(RetireAddresses(g, ips))
  <1> DEFINE anchors == {AddressAnchor(ip) : ip \in ips} \cap DOMAIN g.nodes
             cut     == {e \in DOMAIN g.edges : e.src \in anchors \/ e.dst \in anchors}
             h       == DropEdges(g, cut)
  <1>1. HasFields(g)  BY DEF GraphInv, IsGraph
  <1>2. GraphInv(h)  BY DropEdgesInv
  <1>3. h.edges = Without(g.edges, cut) /\ DOMAIN h.nodes = DOMAIN g.nodes
    <2> HIDE DEF cut
    <2>1. /\ h.edges = Without(g.edges, cut)
          /\ h.nodes = [id \in DOMAIN g.nodes |-> Reconnected(g.nodes[id], -Degree(cut, id))]
      BY <1>1, DropEdgesFields
    <2> QED BY <2>1
  <1>4. \A e \in DOMAIN h.edges : e.src \notin anchors /\ e.dst \notin anchors
    BY <1>3 DEF Without
  <1>5. anchors \in SUBSET DOMAIN h.nodes  BY <1>3
  <1>6. RetireAddresses(g, ips) = DropNodes(h, anchors)  BY DEF RetireAddresses
  <1> HIDE DEF h, anchors
  <1> QED BY <1>2, <1>4, <1>5, <1>6, DropNodesInv

IsAddressMap(addrs) == DOMAIN addrs \subseteq Names /\ addrs \in [DOMAIN addrs -> Names]

(* Nothing but the names differs. *)
OnlyNamed(g, k) ==
  /\ k.nodes = g.nodes /\ k.edges = g.edges
  /\ k.newNodes = g.newNodes /\ k.dirtyNode = g.dirtyNode /\ k.dirty = g.dirty
  /\ k.dirtyL7 = g.dirtyL7 /\ k.goneNodes = g.goneNodes
  /\ k.goneEdges = g.goneEdges

(* Learning is naming some of the addresses and retiring their anchors. *)
LEMMA LearnMachinesRetires ==
  ASSUME NEW g, GraphInv(g), NEW addrs, IsAddressMap(addrs)
  PROVE  \E k, news : /\ LearnMachines(g, addrs) = RetireAddresses(k, news)
                      /\ GraphInv(k) /\ OnlyNamed(g, k)
                      /\ news \subseteq DOMAIN addrs
                      /\ DOMAIN k.nodeIPs = news \cup DOMAIN g.nodeIPs
  <1> DEFINE news == {ip \in DOMAIN addrs :
                        /\ ip # ""
                        /\ addrs[ip] # ""
                        /\ ~(ip \in DOMAIN g.nodeIPs /\ g.nodeIPs[ip] = addrs[ip])}
             known == [ip \in news \cup DOMAIN g.nodeIPs |->
                         IF ip \in news THEN addrs[ip] ELSE g.nodeIPs[ip]]
             k == [g EXCEPT !.nodeIPs = known]
  <1>1. IsGraph(g) /\ HasFields(g)  BY DEF GraphInv, IsGraph
  <1>2. /\ news \subseteq DOMAIN addrs /\ DOMAIN known = news \cup DOMAIN g.nodeIPs
        /\ DOMAIN known \subseteq Names /\ known \in [DOMAIN known -> Names]
    BY <1>1 DEF IsGraph, IsAddressMap
  <1>3. LearnMachines(g, addrs) = RetireAddresses(k, news)  BY DEF LearnMachines
  <1> HIDE DEF known, news
  <1>4. HasFields(k) /\ OnlyNamed(g, k) /\ k.nodeIPs = known
    BY <1>1 DEF HasFields, OnlyNamed
  <1> HIDE DEF k
  <1>5. IsGraph(k)  BY <1>1, <1>2, <1>4 DEF IsGraph, OnlyNamed
  <1>6. GraphInv(k)
    BY <1>4, <1>5 DEF GraphInv, EndpointsLive, CountersExact, PendingConsistent, OnlyNamed
  <1> QED BY <1>2, <1>3, <1>4, <1>6

(* Learning machines keeps the invariant. *)
LEMMA LearnMachinesInv ==
  ASSUME NEW g, GraphInv(g), NEW addrs, IsAddressMap(addrs)
  PROVE  GraphInv(LearnMachines(g, addrs))
  <1>1. PICK k, news : LearnMachines(g, addrs) = RetireAddresses(k, news) /\ GraphInv(k)
    BY LearnMachinesRetires
  <1> QED BY <1>1, RetireAddressesInv

(* A new node is well-formed and has no conversation. *)
LEMMA NewNodeType ==
  ASSUME NEW t \in Int
  PROVE  IsNode(NewNode(t)) /\ NewNode(t).edges = 0
  <1> DEFINE n == NewNode(t)
  <1>1. /\ n = [edges |-> n.edges, lastSeen |-> n.lastSeen, machines |-> n.machines,
                machine |-> n.machine]
        /\ n.edges = 0 /\ n.lastSeen = t /\ n.machine = "" /\ n.machines = <<>>
    BY DEF NewNode
  <1> HIDE DEF n
  <1>2. DOMAIN <<>> = {} /\ <<>> \in [{} -> Nat]  OBVIOUS
  <1>3. DOMAIN n.machines = {} /\ n.machines \in [{} -> Nat]  BY <1>1, <1>2, Zenon
  <1>4. /\ DOMAIN n.machines \subseteq Names
        /\ n.machines \in [DOMAIN n.machines -> Nat]
    BY <1>3, Zenon
  <1>5. "" \in Names  BY NamesAssumption
  <1>6. n.edges \in Int /\ n.lastSeen \in Int /\ n.machine \in Names
    <2>1. n.edges = 0 /\ n.lastSeen = t  BY <1>1, Zenon
    <2>2. n.machine = ""  BY <1>1, Zenon
    <2>3. n.edges \in Int /\ n.lastSeen \in Int  BY <2>1
    <2>4. n.machine \in Names  BY <1>5, <2>2, Zenon
    <2> QED BY <2>3, <2>4
  <1>7. IsNode(n)  BY <1>1, <1>4, <1>6, Zenon DEF IsNode
  <1> QED BY <1>1, <1>7 DEF n

(* touchNode leaves the node in the graph and takes none away. *)
LEMMA TouchNodeInv ==
  ASSUME NEW g, GraphInv(g), NEW id \in NodeKeys, NEW t \in Int
  PROVE  /\ GraphInv(TouchNode(g, id, t))
         /\ DOMAIN TouchNode(g, id, t).nodes = DOMAIN g.nodes \cup {id}
         /\ TouchNode(g, id, t).nodeIPs = g.nodeIPs
         /\ TouchNode(g, id, t).goneNodes = g.goneNodes
         /\ TouchNode(g, id, t).goneEdges = g.goneEdges
  <1> DEFINE live  == id \in DOMAIN g.nodes
             n     == IF live THEN Touched(g.nodes[id], t) ELSE NewNode(t)
             nodes == Put(g.nodes, id, n)
             h     == TouchNode(g, id, t)
  <1>1. IsGraph(g) /\ HasFields(g)  BY DEF GraphInv, IsGraph
  <1>2. h = IF live THEN [g EXCEPT !.nodes = nodes]
                    ELSE [g EXCEPT !.nodes = nodes, !.newNodes = g.newNodes \cup {id}]
    BY DEF TouchNode
  <1>3. IsNode(n) /\ n.edges = IF live THEN g.nodes[id].edges ELSE 0
    <2>1. ASSUME live
          PROVE  IsNode(n) /\ n.edges = g.nodes[id].edges
      <3>1. IsNode(g.nodes[id]) /\ n = Touched(g.nodes[id], t)  BY <1>1, <2>1 DEF IsGraph
      <3> HIDE DEF n
      <3> QED BY <3>1 DEF IsNode, Touched, Later
    <2>2. ASSUME ~live
          PROVE  IsNode(n) /\ n.edges = 0
      <3>1. n = NewNode(t)  BY <2>2
      <3> QED BY <3>1, NewNodeType
    <2> HIDE DEF n
    <2> QED BY <2>1, <2>2
  <1> HIDE DEF n
  <1>4. /\ DOMAIN nodes = DOMAIN g.nodes \cup {id} /\ nodes[id] = n
        /\ \A x \in DOMAIN g.nodes \ {id} : nodes[x] = g.nodes[x]
        /\ nodes = [x \in DOMAIN nodes |-> nodes[x]]
    BY DEF Put
  <1> HIDE DEF nodes, h
  <1>5. /\ HasFields(h) /\ h.nodes = nodes /\ h.edges = g.edges /\ h.dirty = g.dirty
        /\ h.newNodes = g.newNodes \cup (IF live THEN {} ELSE {id})
        /\ h.dirtyNode = g.dirtyNode /\ h.dirtyL7 = g.dirtyL7
        /\ h.goneNodes = g.goneNodes /\ h.goneEdges = g.goneEdges
        /\ h.nodeIPs = g.nodeIPs
    <2>1. CASE live   BY <1>1, <1>2, <2>1 DEF HasFields
    <2>2. CASE ~live  BY <1>1, <1>2, <2>2 DEF HasFields
    <2> QED BY <2>1, <2>2
  <1>6. IsGraph(h)  BY <1>1, <1>3, <1>4, <1>5 DEF IsGraph
  <1>7. EndpointsLive(h)  BY <1>4, <1>5 DEF GraphInv, EndpointsLive
  <1>8. CountersExact(h)
    <2>1. ~live => Degree(DOMAIN g.edges, id) = 0
      <3>1. ~live => Out(DOMAIN g.edges, id) = {} /\ In(DOMAIN g.edges, id) = {}
        BY DEF GraphInv, EndpointsLive, Out, In
      <3> QED BY <3>1, FS_EmptySet DEF Degree
    <2>2. h.nodes[id].edges = Degree(DOMAIN h.edges, id)
      BY <1>3, <1>4, <1>5, <2>1 DEF GraphInv, CountersExact
    <2> QED BY <1>4, <1>5, <2>2 DEF GraphInv, CountersExact
  <1>9. PendingConsistent(h)  BY <1>4, <1>5 DEF GraphInv, PendingConsistent
  <1>10. GraphInv(h)  BY <1>5, <1>6, <1>7, <1>8, <1>9 DEF GraphInv
  <1> QED BY <1>4, <1>5, <1>10 DEF h

(* placeOn changes no counter and no membership. *)
LEMMA PlaceOnInv ==
  ASSUME NEW g, GraphInv(g), NEW id \in DOMAIN g.nodes, NEW machine \in Names
  PROVE  /\ GraphInv(PlaceOn(g, id, machine))
         /\ DOMAIN PlaceOn(g, id, machine).nodes = DOMAIN g.nodes
         /\ PlaceOn(g, id, machine).nodeIPs = g.nodeIPs
         /\ PlaceOn(g, id, machine).goneNodes = g.goneNodes
         /\ PlaceOn(g, id, machine).goneEdges = g.goneEdges
  <1> DEFINE n     == Placed(g.nodes[id], machine)
             moved == IF Moves(g.nodes[id], machine) THEN {id} \ g.newNodes ELSE {}
             nodes == Put(g.nodes, id, n)
             h     == PlaceOn(g, id, machine)
  <1>1. IsGraph(g) /\ HasFields(g)  BY DEF GraphInv, IsGraph
  <1>2. h = g \/ h = [g EXCEPT !.nodes = nodes, !.dirtyNode = g.dirtyNode \cup moved]
    BY DEF PlaceOn
  <1>3. IsNode(n) /\ n.edges = g.nodes[id].edges
    <2> DEFINE m == g.nodes[id]
               counts == Put(m.machines, machine, SeenOn(m, machine) + 1)
               moves == Moves(m, machine)
    <2>1. IsNode(m)  BY <1>1 DEF IsGraph
    <2>2. SeenOn(m, machine) \in Nat  BY <2>1 DEF IsNode, SeenOn
    <2>3. DOMAIN counts \subseteq Names /\ counts \in [DOMAIN counts -> Nat]
      BY <2>1, <2>2 DEF IsNode, Put
    <2>4. n = [m EXCEPT !.machines = counts, !.machine = IF moves THEN machine ELSE m.machine]
      BY DEF Placed
    <2> HIDE DEF counts, moves, n, m
    <2>5. IsNode(n) /\ n.edges = m.edges  BY <2>1, <2>3, <2>4 DEF IsNode
    <2> QED BY <2>5 DEF m
  <1> HIDE DEF n
  <1>4. /\ DOMAIN nodes = DOMAIN g.nodes /\ nodes[id] = n
        /\ \A x \in DOMAIN g.nodes \ {id} : nodes[x] = g.nodes[x]
        /\ nodes = [x \in DOMAIN nodes |-> nodes[x]]
    BY DEF Put
  <1>5. moved \subseteq {id} \ g.newNodes  OBVIOUS
  <1> HIDE DEF nodes, moved, h
  <1>6. CASE h = g
    BY <1>6 DEF h
  <1>7. CASE h = [g EXCEPT !.nodes = nodes, !.dirtyNode = g.dirtyNode \cup moved]
    <2>1. /\ HasFields(h) /\ h.nodes = nodes /\ h.edges = g.edges /\ h.dirty = g.dirty
          /\ h.newNodes = g.newNodes /\ h.dirtyNode = g.dirtyNode \cup moved
          /\ h.dirtyL7 = g.dirtyL7 /\ h.goneNodes = g.goneNodes
          /\ h.goneEdges = g.goneEdges /\ h.nodeIPs = g.nodeIPs
      BY <1>1, <1>7 DEF HasFields
    <2>2. IsGraph(h)  BY <1>1, <1>3, <1>4, <1>5, <2>1 DEF IsGraph
    <2>3. EndpointsLive(h)  BY <1>4, <2>1 DEF GraphInv, EndpointsLive
    <2>4. CountersExact(h)  BY <1>3, <1>4, <2>1 DEF GraphInv, CountersExact
    <2>5. PendingConsistent(h)  BY <1>4, <1>5, <2>1 DEF GraphInv, PendingConsistent
    <2>6. GraphInv(h)  BY <2>1, <2>2, <2>3, <2>4, <2>5 DEF GraphInv
    <2> QED BY <1>4, <2>1, <2>6 DEF h
  <1> QED BY <1>2, <1>6, <1>7

(* A conversation is created with both its ends counted. *)
LEMMA ConnectInv ==
  ASSUME NEW g, GraphInv(g), NEW e \in EdgeKeys, NEW t \in Int,
         e.src \in DOMAIN g.nodes, e.dst \in DOMAIN g.nodes
  PROVE  /\ GraphInv(Connect(g, e, t))
         /\ DOMAIN Connect(g, e, t).edges = DOMAIN g.edges \cup {e}
         /\ DOMAIN Connect(g, e, t).nodes = DOMAIN g.nodes
         /\ Connect(g, e, t).nodeIPs = g.nodeIPs
         /\ Connect(g, e, t).goneNodes = g.goneNodes
         /\ Connect(g, e, t).goneEdges = g.goneEdges
  <1> DEFINE edges == Put(g.edges, e, NewEdge(t))
             nodes == [id \in DOMAIN g.nodes |-> Reconnected(g.nodes[id], Degree({e}, id))]
             h     == Connect(g, e, t)
  <1>1. IsGraph(g) /\ HasFields(g) /\ IsFiniteSet(DOMAIN g.edges)
    BY DEF GraphInv, IsGraph
  <1>2. CASE e \in DOMAIN g.edges
    <2>1. h = g  BY <1>2 DEF Connect
    <2> QED BY <1>2, <2>1
  <1>3. CASE e \notin DOMAIN g.edges
    <2>1. h = [g EXCEPT !.edges = edges, !.nodes = nodes]  BY <1>3 DEF Connect
    <2>2. NewEdge(t) \in Edge  BY DEF NewEdge, Edge, NoCounts
    <2>3. DOMAIN edges = DOMAIN g.edges \cup {e} /\ edges \in [DOMAIN edges -> Edge]
      BY <1>1, <2>2 DEF Put, IsGraph
    <2>4. \A id : Degree({e}, id) \in Int
      <3>1. IsFiniteSet({e})  BY FS_Singleton
      <3>2. \A id : Degree({e}, id) \in Nat  BY <3>1, DegreeType
      <3> QED BY <3>2
    <2>5. /\ DOMAIN nodes = DOMAIN g.nodes
          /\ nodes = [id \in DOMAIN nodes |-> nodes[id]]
          /\ \A id \in DOMAIN nodes : /\ IsNode(nodes[id])
                                      /\ nodes[id].edges = g.nodes[id].edges + Degree({e}, id)
      BY <1>1, <2>4, ReconnectedType DEF IsGraph
    <2> HIDE DEF edges, nodes, h
    <2>6. /\ HasFields(h) /\ h.nodes = nodes /\ h.edges = edges /\ h.dirty = g.dirty
          /\ h.newNodes = g.newNodes /\ h.dirtyNode = g.dirtyNode
          /\ h.dirtyL7 = g.dirtyL7 /\ h.goneNodes = g.goneNodes
          /\ h.goneEdges = g.goneEdges /\ h.nodeIPs = g.nodeIPs
      BY <1>1, <2>1 DEF HasFields
    <2>7. IsFiniteSet(DOMAIN h.edges)  BY <1>1, <2>3, <2>6, FS_AddElement
    <2>8. IsGraph(h)  BY <1>1, <2>3, <2>5, <2>6 DEF IsGraph
    <2>9. EndpointsLive(h)  BY <2>3, <2>5, <2>6 DEF GraphInv, EndpointsLive
    <2>10. CountersExact(h)
      BY <1>1, <1>3, <2>3, <2>5, <2>6, DegreeAdd DEF GraphInv, CountersExact
    <2>11. PendingConsistent(h)
      BY <2>3, <2>5, <2>6 DEF GraphInv, PendingConsistent
    <2>12. GraphInv(h)  BY <2>7, <2>8, <2>9, <2>10, <2>11 DEF GraphInv
    <2> QED BY <2>3, <2>5, <2>6, <2>12 DEF h
  <1> QED BY <1>2, <1>3

(* Counting a flow of a live conversation. *)
LEMMA CountInv ==
  ASSUME NEW g, GraphInv(g), NEW e \in DOMAIN g.edges, NEW code \in Codes,
         NEW t \in Int, NEW detail \in BOOLEAN
  PROVE  /\ GraphInv(Count(g, e, code, t, detail))
         /\ Count(g, e, code, t, detail).nodes = g.nodes
         /\ Count(g, e, code, t, detail).nodeIPs = g.nodeIPs
         /\ Count(g, e, code, t, detail).goneNodes = g.goneNodes
         /\ Count(g, e, code, t, detail).goneEdges = g.goneEdges
         /\ DOMAIN Count(g, e, code, t, detail).edges = DOMAIN g.edges
  <1> DEFINE counted == Counted(g.edges[e], code, t, detail)
             pending == Increment(IF e \in DOMAIN g.dirty THEN g.dirty[e] ELSE NoCounts, code)
             edges   == Put(g.edges, e, counted)
             dirty   == Put(g.dirty, e, pending)
             details == g.dirtyL7 \cup (IF detail THEN {e} ELSE {})
             h       == Count(g, e, code, t, detail)
  <1>1. IsGraph(g) /\ HasFields(g) /\ IsFiniteSet(DOMAIN g.edges)
    BY DEF GraphInv, IsGraph
  <1>2. \A c \in [Codes -> Nat] : Increment(c, code) \in [Codes -> Nat]
    BY DEF Increment
  <1>3. counted \in Edge
    <2>1. g.edges[e] \in Edge  BY <1>1 DEF IsGraph
    <2> QED BY <1>2, <2>1 DEF Counted, Edge, Later
  <1>4. pending \in [Codes -> Nat]
    <2>1. NoCounts \in [Codes -> Nat]  BY DEF NoCounts
    <2>2. e \in DOMAIN g.dirty => g.dirty[e] \in [Codes -> Nat]  BY <1>1 DEF IsGraph
    <2> QED BY <1>2, <2>1, <2>2
  <1>5. h = [g EXCEPT !.edges = edges, !.dirtyL7 = details, !.dirty = dirty]
    BY DEF Count
  <1> HIDE DEF counted, pending
  <1>6. DOMAIN edges = DOMAIN g.edges /\ edges \in [DOMAIN edges -> Edge]
    BY <1>1, <1>3 DEF Put, IsGraph
  <1>7. /\ DOMAIN dirty = DOMAIN g.dirty \cup {e}
        /\ dirty \in [DOMAIN dirty -> [Codes -> Nat]]
    BY <1>1, <1>4 DEF Put, IsGraph
  <1>8. details \subseteq g.dirtyL7 \cup {e}  OBVIOUS
  <1> HIDE DEF edges, dirty, details, h
  <1>9. /\ HasFields(h) /\ h.nodes = g.nodes /\ h.edges = edges /\ h.dirty = dirty
        /\ h.newNodes = g.newNodes /\ h.dirtyNode = g.dirtyNode
        /\ h.dirtyL7 = details /\ h.goneNodes = g.goneNodes
        /\ h.goneEdges = g.goneEdges /\ h.nodeIPs = g.nodeIPs
    BY <1>1, <1>5 DEF HasFields
  <1>10. IsGraph(h)  BY <1>1, <1>6, <1>7, <1>8, <1>9 DEF IsGraph
  <1>11. /\ EndpointsLive(h) /\ CountersExact(h) /\ PendingConsistent(h)
         /\ IsFiniteSet(DOMAIN h.edges)
    BY <1>1, <1>6, <1>7, <1>8, <1>9
       DEF GraphInv, EndpointsLive, CountersExact, PendingConsistent
  <1>12. GraphInv(h)  BY <1>10, <1>11 DEF GraphInv
  <1> QED BY <1>6, <1>9, <1>12 DEF h

-----------------------------------------------------------------------------
(* Keys.                                                                    *)

(* The strings the derivation of a key writes itself. *)
LEMMA LiteralNames ==
  /\ "" \in Names /\ "unknown" \in Names /\ "ip" \in Names /\ "reserved" \in Names
  /\ "world" \in Names /\ "node" \in Names /\ "host" \in Names
  /\ "remote-node" \in Names /\ "Deployment" \in Names /\ "Pod" \in Names
  /\ "Namespace" \in Names
  BY NamesAssumption, Zenon

(* A key is three strings. *)
LEMMA NodeKeyType ==
  ASSUME NEW ns \in Names, NEW kind \in Names, NEW name \in Names
  PROVE  NodeKey(ns, kind, name) \in NodeKeys
  BY DEF NodeKey, NodeKeys

(* The reserved label is one of the endpoint's labels, or none. *)
LEMMA ReservedType ==
  ASSUME NEW labels \in Seq(Names)
  PROVE  Reserved(labels) \in Names
  <1>1. labels # <<>> => labels[Len(labels)] \in Names  OBVIOUS
  <1> QED BY <1>1, LiteralNames, Zenon DEF Reserved

(* Every endpoint has a key. *)
LEMMA EndpointKeyType ==
  ASSUME NEW side \in Side, NEW observer \in Names, NEW nodeIPs, IsAddressMap(nodeIPs)
  PROVE  EndpointKey(side, observer, nodeIPs) \in NodeKeys
  <1> DEFINE ep == side.ep
  <1>1. /\ ep \in Endpoint /\ side.ip \in Names /\ side.names \in Seq(Names)
    BY DEF Side
  <1>2. /\ ep.ns \in Names /\ ep.kind \in Names /\ ep.workload \in Names
        /\ ep.base \in Names /\ ep.pod \in Names /\ ep.cidr \in Names
        /\ ep.reserved \in Seq(Names)
    BY <1>1 DEF Endpoint
  <1> HIDE DEF ep
  <1>3. UnknownKey(side.ip) \in NodeKeys
    BY <1>1, LiteralNames, NodeKeyType, Zenon DEF UnknownKey
  <1>4. WorkloadKey(ep) \in NodeKeys
    <2>1. DisplayKind(ep.kind) \in Names  BY <1>2, LiteralNames, Zenon DEF DisplayKind
    <2> QED BY <1>2, <2>1, LiteralNames, NodeKeyType, Zenon DEF WorkloadKey
  <1>5. ReservedKey(ep, side.names, side.ip, observer, nodeIPs) \in NodeKeys
    <2>1. Reserved(ep.reserved) \in Names  BY <1>2, ReservedType
    <2>2. WorldName(ep, side.names) \in Names
      <3>1. side.names # <<>> => side.names[1] \in Names  BY <1>1
      <3> QED BY <1>2, <3>1, LiteralNames, Zenon DEF WorldName
    <2>3. \A ip \in DOMAIN nodeIPs : nodeIPs[ip] \in Names  BY DEF IsAddressMap
    <2>4. ReservedNamespace \in Names  BY LiteralNames, Zenon DEF ReservedNamespace
    <2>5. (IF side.ip # "" THEN side.ip ELSE "remote-node") \in Names
      BY <1>1, LiteralNames, Zenon
    <2> QED BY <1>1, <1>2, <1>3, <2>1, <2>2, <2>3, <2>4, <2>5, LiteralNames, NodeKeyType, Zenon
            DEF ReservedKey, MachineAnchor, AddressAnchor
  <1> QED BY <1>3, <1>4, <1>5, Zenon DEF EndpointKey, ep

(* The key of a conversation, and what one side of a flow teaches. *)
LEMMA EdgeKeyType ==
  ASSUME NEW src \in NodeKeys, NEW dst \in NodeKeys, NEW l4 \in L4
  PROVE  EdgeKey(src, dst, L4Key(l4)) \in EdgeKeys
  <1>1. L4Key(l4) \in [proto: {"TCP", "UDP", "SCTP", "ICMP", "L3"}, port: Nat]
    BY DEF L4, L4Key
  <1> QED BY <1>1 DEF EdgeKey, EdgeKeys

(* What a flow teaches is an address map, empty or of one pair. *)
LEMMA LearnedType ==
  ASSUME NEW side \in Side, NEW observer \in Names
  PROVE  IsAddressMap(Learned(side, observer))
  <1> DEFINE ips == DOMAIN Learned(side, observer)
  <1>1. side.ip \in Names  BY DEF Side
  <1>2. ips \subseteq {side.ip}  BY DEF Learned
  <1>3. Learned(side, observer) = [ip \in ips |-> observer]  BY DEF Learned
  <1> HIDE DEF ips
  <1> QED BY <1>1, <1>2, <1>3 DEF IsAddressMap

-----------------------------------------------------------------------------
(* Ingest and Tick, and the specification.                                  *)

(* A whole Ingest keeps the invariant. *)
LEMMA IngestedInv ==
  ASSUME NEW g, GraphInv(g), NEW f \in Flow, ~Skipped(f), NEW t \in Int
  PROVE  GraphInv(Ingested(g, f, t))
  <1> DEFINE g1  == LearnMachines(g, Learned(f.src, f.observer))
             src == EndpointKey(f.src, f.observer, g.nodeIPs)
             g2  == LearnMachines(g1, Learned(f.dst, f.observer))
             dst == EndpointKey(f.dst, f.observer, g1.nodeIPs)
             gs  == TouchNode(g2, src, t)
             g3  == TouchNode(gs, dst, t)
             g4  == CASE f.direction = "EGRESS"  -> PlaceOn(g3, src, f.observer)
                      [] f.direction = "INGRESS" -> PlaceOn(g3, dst, f.observer)
                      [] OTHER                   -> g3
             e   == EdgeKey(src, dst, L4Key(f.l4))
             g5  == Connect(g4, e, t)
             g6  == Count(g5, e, VerdictCode(f.verdict), t, f.detail)
  <1>1. /\ f.src \in Side /\ f.dst \in Side /\ f.observer \in Names
        /\ f.l4 \in L4 /\ f.detail \in BOOLEAN
    BY DEF Flow
  <1>2. GraphInv(g1)  BY <1>1, LearnedType, LearnMachinesInv
  <1>3. GraphInv(g2)  BY <1>1, <1>2, LearnedType, LearnMachinesInv
  <1>4. src \in NodeKeys /\ dst \in NodeKeys
    <2>1. IsAddressMap(g.nodeIPs) /\ IsAddressMap(g1.nodeIPs)
      BY <1>2 DEF GraphInv, IsGraph, IsAddressMap
    <2> QED BY <1>1, <2>1, EndpointKeyType
  <1>5. e \in EdgeKeys /\ e.src = src /\ e.dst = dst
    BY <1>1, <1>4, EdgeKeyType DEF EdgeKey
  <1>6. Ingested(g, f, t) = IF src = dst THEN g2 ELSE g6  BY DEF Ingested
  <1> HIDE DEF g1, g2, src, dst, e
  <1>7. GraphInv(gs) /\ src \in DOMAIN gs.nodes  BY <1>3, <1>4, TouchNodeInv
  <1> HIDE DEF gs
  <1>8. GraphInv(g3) /\ src \in DOMAIN g3.nodes /\ dst \in DOMAIN g3.nodes
    BY <1>4, <1>7, TouchNodeInv
  <1> HIDE DEF g3
  <1>9. GraphInv(g4) /\ DOMAIN g4.nodes = DOMAIN g3.nodes
    <2>1. /\ GraphInv(PlaceOn(g3, src, f.observer))
          /\ GraphInv(PlaceOn(g3, dst, f.observer))
          /\ DOMAIN PlaceOn(g3, src, f.observer).nodes = DOMAIN g3.nodes
          /\ DOMAIN PlaceOn(g3, dst, f.observer).nodes = DOMAIN g3.nodes
      BY <1>1, <1>8, PlaceOnInv
    <2>2. \/ g4 = PlaceOn(g3, src, f.observer)
          \/ g4 = PlaceOn(g3, dst, f.observer)
          \/ g4 = g3
      BY Zenon
    <2> HIDE DEF g4
    <2> QED BY <1>8, <2>1, <2>2
  <1> HIDE DEF g4
  <1>10. GraphInv(g5) /\ e \in DOMAIN g5.edges  BY <1>5, <1>8, <1>9, ConnectInv
  <1> HIDE DEF g5
  <1>11. GraphInv(g6)
    <2>1. VerdictCode(f.verdict) \in Codes  BY DEF Skipped
    <2> QED BY <1>1, <1>10, <2>1, CountInv
  <1> QED BY <1>3, <1>6, <1>11

(* The expiry of Tick keeps the invariant: an idle node whose counter is not *)
(* positive has no conversation left.                                        *)
LEMMA ExpiredInv ==
  ASSUME NEW g, GraphInv(g), NEW cutoff \in Int
  PROVE  GraphInv(Expired(g, cutoff))
  <1> DEFINE stale == {e \in DOMAIN g.edges : g.edges[e].lastSeen < cutoff}
             h     == DropEdges(g, stale)
             idle  == {id \in DOMAIN h.nodes : /\ h.nodes[id].edges <= 0
                                               /\ h.nodes[id].lastSeen < cutoff}
  <1>1. GraphInv(h)  BY DropEdgesInv
  <1>2. Expired(g, cutoff) = DropNodes(h, idle)  BY DEF Expired
  <1> HIDE DEF h
  <1>3. \A e \in DOMAIN h.edges : e.src \notin idle /\ e.dst \notin idle
    <2> SUFFICES ASSUME NEW id \in idle, NEW e \in DOMAIN h.edges
                 PROVE  e.src # id /\ e.dst # id
      OBVIOUS
    <2>1. Degree(DOMAIN h.edges, id) <= 0  BY <1>1 DEF GraphInv, CountersExact
    <2> QED BY <1>1, <2>1, DegreeZero DEF GraphInv
  <1> QED BY <1>1, <1>2, <1>3, DropNodesInv

(* Handing a delta out keeps the invariant. *)
LEMMA ClearedInv ==
  ASSUME NEW g, GraphInv(g)
  PROVE  GraphInv(Cleared(g))
  <1> DEFINE h       == Cleared(g)
             nothing == <<>>
  <1>1. IsGraph(g) /\ HasFields(g)  BY DEF GraphInv, IsGraph
  <1>2. h = [g EXCEPT !.newNodes = {}, !.dirtyNode = {}, !.dirty = nothing, !.dirtyL7 = {},
                      !.goneNodes = {}, !.goneEdges = {}]
    BY DEF Cleared
  <1>3. DOMAIN nothing = {} /\ nothing \in [{} -> [Codes -> Nat]]  OBVIOUS
  <1> HIDE DEF h, nothing
  <1>4. /\ HasFields(h) /\ h.nodes = g.nodes /\ h.edges = g.edges
        /\ h.newNodes = {} /\ h.dirtyNode = {} /\ h.dirty = nothing
        /\ h.dirtyL7 = {} /\ h.goneNodes = {} /\ h.goneEdges = {}
        /\ h.nodeIPs = g.nodeIPs
    BY <1>1, <1>2 DEF HasFields
  <1>5. IsGraph(h)  BY <1>1, <1>3, <1>4 DEF IsGraph
  <1>6. EndpointsLive(h) /\ CountersExact(h) /\ PendingConsistent(h)
    BY <1>3, <1>4 DEF GraphInv, EndpointsLive, CountersExact, PendingConsistent
  <1> QED BY <1>4, <1>5, <1>6 DEF GraphInv, h

IInv == GraphInv(graph) /\ now \in Int /\ flows \in Nat

(* The empty graph satisfies the invariant. *)
LEMMA InitIInv == Init => IInv
  <1> SUFFICES ASSUME Init PROVE IInv  OBVIOUS
  <1> DEFINE nothing == <<>>
  <1>1. DOMAIN nothing = {} /\ \A S : nothing \in [{} -> S]  OBVIOUS
  <1>2. nothing = [id \in {} |-> nothing[id]]  OBVIOUS
  <1>3. graph = [nodes |-> nothing, edges |-> nothing, newNodes |-> {}, dirtyNode |-> {},
                 dirty |-> nothing, dirtyL7 |-> {}, goneNodes |-> {}, goneEdges |-> {},
                 nodeIPs |-> nothing]
    BY DEF Init, EmptyGraph
  <1> HIDE DEF nothing
  <1>4. /\ HasFields(graph) /\ graph.nodes = nothing /\ graph.edges = nothing
        /\ graph.newNodes = {} /\ graph.dirtyNode = {} /\ graph.dirty = nothing
        /\ graph.dirtyL7 = {} /\ graph.goneNodes = {} /\ graph.goneEdges = {}
        /\ graph.nodeIPs = nothing
    BY <1>3 DEF HasFields
  <1>5. IsGraph(graph)  BY <1>1, <1>2, <1>4 DEF IsGraph
  <1>6. IsFiniteSet(DOMAIN graph.edges)  BY <1>1, <1>4, FS_EmptySet
  <1>7. EndpointsLive(graph) /\ CountersExact(graph) /\ PendingConsistent(graph)
    BY <1>1, <1>4 DEF EndpointsLive, CountersExact, PendingConsistent
  <1> QED BY <1>5, <1>6, <1>7 DEF IInv, GraphInv, Init

(* Every action keeps the invariant. *)
LEMMA NextIInv == IInv /\ [Next]_vars => IInv'
  <1> SUFFICES ASSUME IInv, [Next]_vars PROVE IInv'  OBVIOUS
  <1>1. GraphInv(graph) /\ now \in Int /\ flows \in Nat  BY DEF IInv
  <1>2. CASE Ingest
    <2>1. PICK f \in Flows, t \in (now - Lag)..(now + Skew) :
            ~Skipped(f) /\ graph' = Ingested(graph, f, t)
      BY <1>2 DEF Ingest
    <2>2. f \in Flow /\ t \in Int  BY <1>1, FlowsAssumption, ParametersAssumption
    <2>3. GraphInv(graph')  BY <1>1, <2>1, <2>2, IngestedInv
    <2> QED BY <1>1, <1>2, <2>3 DEF IInv, Ingest
  <1>3. CASE Peers
    <2>1. PICK peers \in PeerLists : graph' = LearnMachines(graph, peers)
      BY <1>3 DEF Peers
    <2>2. IsAddressMap(peers)  BY PeerListsAssumption DEF IsAddressMap
    <2>3. GraphInv(graph')  BY <1>1, <2>1, <2>2, LearnMachinesInv
    <2> QED BY <1>1, <1>3, <2>3 DEF IInv, Peers
  <1>4. CASE Tick
    <2>1. now - Retention \in Int  BY <1>1, ParametersAssumption
    <2>2. GraphInv(Expired(graph, now - Retention))  BY <1>1, <2>1, ExpiredInv
    <2>3. GraphInv(graph')  BY <1>4, <2>2, ClearedInv DEF Tick
    <2> QED BY <1>1, <1>4, <2>3 DEF IInv, Tick
  <1>5. CASE Advance
    BY <1>1, <1>5 DEF IInv, Advance
  <1>6. CASE UNCHANGED vars
    BY <1>1, <1>6 DEF IInv, vars
  <1> QED BY <1>2, <1>3, <1>4, <1>5, <1>6 DEF Next

(* The inductive invariant holds in every execution: whatever flows, peer    *)
(* lists and ticks are interleaved, each operation of the graph leaves its    *)
(* maps, counters and pending deltas consistent.                              *)
THEOREM Invariant == Spec => []IInv
  <1> QED BY InitIInv, NextIInv, PTL DEF Spec

(* The graph's maps keep their types in every execution. *)
THEOREM TypeCorrect == Spec => []TypeOK
  <1>1. IInv => TypeOK  BY DEF IInv, GraphInv, TypeOK
  <1> QED BY <1>1, Invariant, PTL

(* No operation dereferences an endpoint that is not there. *)
THEOREM EndpointsAlwaysExist == Spec => []EndpointsExist
  <1>1. IInv => EndpointsExist  BY DEF IInv, GraphInv, EndpointsExist
  <1> QED BY <1>1, Invariant, PTL

(* The counters that decide when a node leaves are right in every execution. *)
THEOREM CountersAlwaysExact == Spec => []EdgeCountersExact
  <1>1. IInv => EdgeCountersExact  BY DEF IInv, GraphInv, EdgeCountersExact
  <1> QED BY <1>1, Invariant, PTL

-----------------------------------------------------------------------------
(* What is gone.                                                            *)

AnchorsOf(ips) == {AddressAnchor(ip) : ip \in ips}

(* The anchors that the graph must not have. *)
Named(g) == AnchorsOf(DOMAIN g.nodeIPs)

AnchorInv(g) ==
  /\ "remote-node" \notin DOMAIN g.nodeIPs
  /\ Named(g) \cap DOMAIN g.nodes = {}
  /\ g.goneNodes \subseteq Named(g)
  /\ \A e \in g.goneEdges : {e.src, e.dst} \cap Named(g) # {}

(* A node that has been placed has a machine, the one it was seen on most. *)
MostSeen(n) ==
  /\ n.machine = "" => DOMAIN n.machines = {}
  /\ \A m \in DOMAIN n.machines : n.machines[m] <= SeenOn(n, n.machine)

AllMostSeen(g) == \A id \in DOMAIN g.nodes : MostSeen(g.nodes[id])

(* Nothing that the two invariants speak of is added. *)
OnlyLess(g, h) ==
  /\ DOMAIN h.nodes \subseteq DOMAIN g.nodes
  /\ \A id \in DOMAIN h.nodes : /\ h.nodes[id].machine = g.nodes[id].machine
                                /\ h.nodes[id].machines = g.nodes[id].machines

(* A node that stays keeps its machine and its sightings. *)
LEMMA OnlyLessKeeps ==
  ASSUME NEW g, AllMostSeen(g), NEW h, OnlyLess(g, h)
  PROVE  AllMostSeen(h)
  BY DEF AllMostSeen, MostSeen, SeenOn, OnlyLess

-----------------------------------------------------------------------------
(* Retiring and learning.                                                   *)

(* The name of an anchor is its address. *)
LEMMA AnchorIsAddress ==
  ASSUME NEW x, NEW ips
  PROVE  AddressAnchor(x) \in AnchorsOf(ips) <=> x \in ips
  BY DEF AnchorsOf, AddressAnchor, NodeKey

(* Dropping conversations leaves the nodes as they are but for a counter. *)
LEMMA DropEdgesOnlyLess ==
  ASSUME NEW g, GraphInv(g), NEW E
  PROVE  OnlyLess(g, DropEdges(g, E)) /\ DOMAIN DropEdges(g, E).nodes = DOMAIN g.nodes
  <1>1. HasFields(g) /\ \A id \in DOMAIN g.nodes : IsNode(g.nodes[id])
    BY DEF GraphInv, IsGraph
  <1>2. DropEdges(g, E).nodes = [id \in DOMAIN g.nodes |-> Reconnected(g.nodes[id], -Degree(E, id))]
    BY <1>1, DropEdgesFields
  <1>3. \A id \in DOMAIN g.nodes : \A k :
          /\ Reconnected(g.nodes[id], k).machine = g.nodes[id].machine
          /\ Reconnected(g.nodes[id], k).machines = g.nodes[id].machines
    BY <1>1 DEF IsNode, Reconnected
  <1> QED BY <1>2, <1>3 DEF OnlyLess

(* retireAddress takes the anchors and the conversations that touch them. *)
LEMMA RetireAddressesLeaves ==
  ASSUME NEW g, GraphInv(g), NEW ips
  PROVE  LET h == RetireAddresses(g, ips) IN
         /\ OnlyLess(g, h)
         /\ DOMAIN h.nodes \cap AnchorsOf(ips) = {}
         /\ h.nodeIPs = g.nodeIPs
         /\ h.goneNodes \subseteq g.goneNodes \cup AnchorsOf(ips)
         /\ \A e \in h.goneEdges \ g.goneEdges : {e.src, e.dst} \cap AnchorsOf(ips) # {}
  <1> DEFINE anchors == AnchorsOf(ips) \cap DOMAIN g.nodes
             cut == {e \in DOMAIN g.edges : e.src \in anchors \/ e.dst \in anchors}
             d   == DropEdges(g, cut)
             h   == DropNodes(d, anchors)
  <1>1. RetireAddresses(g, ips) = h  BY DEF RetireAddresses, AnchorsOf
  <1>2. HasFields(g)  BY DEF GraphInv, IsGraph
  <1>3. /\ HasFields(d) /\ d.goneEdges = g.goneEdges \cup cut
        /\ d.goneNodes = g.goneNodes /\ d.nodeIPs = g.nodeIPs
    <2> HIDE DEF cut
    <2> QED BY <1>2, DropEdgesFields
  <1>4. OnlyLess(g, d) /\ DOMAIN d.nodes = DOMAIN g.nodes
    <2> HIDE DEF cut
    <2> QED BY DropEdgesOnlyLess
  <1> HIDE DEF d
  <1>5. /\ h.nodes = Without(d.nodes, anchors) /\ h.nodeIPs = d.nodeIPs
        /\ h.goneNodes = d.goneNodes \cup (anchors \ d.newNodes)
        /\ h.goneEdges = d.goneEdges
    <2> HIDE DEF anchors
    <2> QED BY <1>3, DropNodesFields
  <1> HIDE DEF h
  <1>6. /\ DOMAIN h.nodes = DOMAIN g.nodes \ AnchorsOf(ips)
        /\ \A id \in DOMAIN h.nodes : h.nodes[id] = d.nodes[id]
    BY <1>4, <1>5 DEF Without
  <1>7. OnlyLess(g, h)  BY <1>4, <1>6 DEF OnlyLess
  <1>8. \A e \in h.goneEdges \ g.goneEdges : {e.src, e.dst} \cap AnchorsOf(ips) # {}
    BY <1>3, <1>5
  <1> QED BY <1>1, <1>3, <1>5, <1>6, <1>7, <1>8

(* What naming addresses leaves: those of addrs are named, no others. *)
LEMMA LearnMachinesLeaves ==
  ASSUME NEW g, GraphInv(g), NEW addrs, IsAddressMap(addrs)
  PROVE  LET h == LearnMachines(g, addrs) IN
         /\ OnlyLess(g, h)
         /\ DOMAIN h.nodeIPs \subseteq DOMAIN g.nodeIPs \cup DOMAIN addrs
         /\ AnchorInv(g) /\ "remote-node" \notin DOMAIN addrs => AnchorInv(h)
  <1> DEFINE h == LearnMachines(g, addrs)
  <1>1. PICK k, news : /\ h = RetireAddresses(k, news)
                       /\ GraphInv(k) /\ OnlyNamed(g, k)
                       /\ news \subseteq DOMAIN addrs
                       /\ DOMAIN k.nodeIPs = news \cup DOMAIN g.nodeIPs
    BY LearnMachinesRetires
  <1> DEFINE r == RetireAddresses(k, news)
  <1>2. /\ OnlyLess(k, r)
        /\ DOMAIN r.nodes \cap AnchorsOf(news) = {}
        /\ r.nodeIPs = k.nodeIPs
        /\ r.goneNodes \subseteq k.goneNodes \cup AnchorsOf(news)
        /\ \A e \in r.goneEdges \ k.goneEdges : {e.src, e.dst} \cap AnchorsOf(news) # {}
    BY <1>1, RetireAddressesLeaves
  <1> HIDE DEF h, r
  <1>3. h = r  BY <1>1 DEF r
  <1>4. Named(h) = Named(g) \cup AnchorsOf(news)
    BY <1>1, <1>2, <1>3 DEF Named, AnchorsOf
  <1>5. OnlyLess(g, h)  BY <1>1, <1>2, <1>3 DEF OnlyLess, OnlyNamed
  <1>6. ASSUME AnchorInv(g), "remote-node" \notin DOMAIN addrs  PROVE AnchorInv(h)
    <2>1. "remote-node" \notin DOMAIN h.nodeIPs
      BY <1>1, <1>2, <1>3, <1>6 DEF AnchorInv
    <2>2. Named(h) \cap DOMAIN h.nodes = {}
      BY <1>2, <1>3, <1>4, <1>5, <1>6 DEF AnchorInv, OnlyLess
    <2>3. h.goneNodes \subseteq Named(h)
      BY <1>1, <1>2, <1>3, <1>4, <1>6 DEF AnchorInv, OnlyNamed
    <2>4. \A e \in h.goneEdges : {e.src, e.dst} \cap Named(h) # {}
      <3> TAKE e \in h.goneEdges
      <3>1. CASE e \in g.goneEdges  BY <1>4, <1>6, <3>1 DEF AnchorInv
      <3>2. CASE e \notin g.goneEdges  BY <1>1, <1>2, <1>3, <1>4, <3>2 DEF OnlyNamed
      <3> QED BY <3>1, <3>2
    <2> QED BY <2>1, <2>2, <2>3, <2>4 DEF AnchorInv
  <1>7. DOMAIN h.nodeIPs \subseteq DOMAIN g.nodeIPs \cup DOMAIN addrs
    BY <1>1, <1>2, <1>3
  <1> QED BY <1>5, <1>6, <1>7 DEF h

-----------------------------------------------------------------------------
(* The steps of Ingest after the learning.                                  *)

(* A node that is touched is no anchor of a named address. *)
LEMMA TouchNodeKeepsAnchors ==
  ASSUME NEW g, GraphInv(g), NEW id \in NodeKeys, NEW t \in Int,
         AnchorInv(g), AllMostSeen(g), id \notin Named(g)
  PROVE  LET h == TouchNode(g, id, t) IN AnchorInv(h) /\ AllMostSeen(h) /\ Named(h) = Named(g)
  <1> DEFINE h == TouchNode(g, id, t)
             live == id \in DOMAIN g.nodes
             n == IF live THEN Touched(g.nodes[id], t) ELSE NewNode(t)
             nodes == Put(g.nodes, id, n)
  <1>1. HasFields(g) /\ \A x \in DOMAIN g.nodes : IsNode(g.nodes[x])
    BY DEF GraphInv, IsGraph
  <1>2. h = IF live THEN [g EXCEPT !.nodes = nodes]
                    ELSE [g EXCEPT !.nodes = nodes, !.newNodes = g.newNodes \cup {id}]
    BY DEF TouchNode
  <1>3. /\ DOMAIN h.nodes = DOMAIN g.nodes \cup {id} /\ h.nodeIPs = g.nodeIPs
        /\ h.goneNodes = g.goneNodes /\ h.goneEdges = g.goneEdges
    BY TouchNodeInv
  <1>4. h.nodes = nodes
    <2> HIDE DEF h, nodes
    <2> QED BY <1>1, <1>2 DEF HasFields
  <1>5. MostSeen(n)
    <2>1. CASE live
      <3>1. /\ IsNode(g.nodes[id]) /\ MostSeen(g.nodes[id]) /\ n = Touched(g.nodes[id], t)
        BY <1>1, <2>1 DEF AllMostSeen
      <3> HIDE DEF n
      <3>2. n.machine = g.nodes[id].machine /\ n.machines = g.nodes[id].machines
        BY <3>1 DEF IsNode, Touched
      <3> QED BY <3>1, <3>2 DEF MostSeen, SeenOn
    <2>2. CASE ~live
      <3>1. n.machine = "" /\ n.machines = <<>>  BY <2>2 DEF NewNode
      <3>2. DOMAIN <<>> = {}  OBVIOUS
      <3>3. DOMAIN n.machines = {}  BY <3>1, <3>2, Zenon
      <3> HIDE DEF n
      <3> QED BY <3>3 DEF MostSeen
    <2> QED BY <2>1, <2>2
  <1>6. \A x \in DOMAIN nodes : nodes[x] = IF x = id THEN n ELSE g.nodes[x]
    BY DEF Put
  <1> HIDE DEF h, n, nodes
  <1>7. AllMostSeen(h)  BY <1>3, <1>4, <1>5, <1>6 DEF AllMostSeen
  <1>8. Named(h) = Named(g)  BY <1>3 DEF Named
  <1>9. AnchorInv(h)  BY <1>3, <1>8 DEF AnchorInv
  <1> QED BY <1>7, <1>8, <1>9 DEF h

(* placeOn only compares the machine it counts with the current one, and     *)
(* that is enough: the current one was ahead of all others before.          *)
LEMMA PlacedAhead ==
  ASSUME NEW n, IsNode(n), MostSeen(n), NEW machine \in Names
  PROVE  LET p == Placed(n, machine)
         IN  \A m \in DOMAIN p.machines : p.machines[m] <= SeenOn(p, p.machine)
  <1> DEFINE counts == Put(n.machines, machine, SeenOn(n, machine) + 1)
             moves == Moves(n, machine)
             p == Placed(n, machine)
  <1>1. SeenOn(n, machine) \in Nat /\ SeenOn(n, n.machine) \in Nat  BY DEF IsNode, SeenOn
  <1>2. p = [n EXCEPT !.machines = counts, !.machine = IF moves THEN machine ELSE n.machine]
    BY DEF Placed
  <1>3. p.machines = counts /\ p.machine = IF moves THEN machine ELSE n.machine
    <2> HIDE DEF counts, moves, p
    <2> QED BY <1>2 DEF IsNode
  <1>4. /\ DOMAIN counts = DOMAIN n.machines \cup {machine}
        /\ counts[machine] = SeenOn(n, machine) + 1
        /\ \A m \in DOMAIN n.machines \ {machine} : counts[m] = n.machines[m]
    BY DEF Put
  <1>5. \A m \in DOMAIN n.machines : n.machines[m] \in Nat /\ n.machines[m] <= SeenOn(n, n.machine)
    BY DEF IsNode, MostSeen
  <1>6. moves <=> machine # n.machine /\ (SeenOn(n, machine) + 1 > SeenOn(n, n.machine) \/ n.machine = "")
    BY DEF Moves
  <1>7. n.machine = "" => DOMAIN n.machines = {}  BY DEF MostSeen
  <1>8. machine \in DOMAIN n.machines => SeenOn(n, machine) = n.machines[machine]  BY DEF SeenOn
  <1> HIDE DEF p, counts, moves
  <1>9. CASE moves
    <2>1. p.machine = machine /\ SeenOn(p, p.machine) = SeenOn(n, machine) + 1
      BY <1>3, <1>4, <1>9 DEF SeenOn
    <2>2. n.machine = "" \/ SeenOn(n, machine) + 1 > SeenOn(n, n.machine)  BY <1>6, <1>9, Zenon
    <2>3. CASE n.machine = ""
      <3>1. DOMAIN n.machines = {}  BY <1>7, <2>3, Zenon
      <3>2. \A m \in DOMAIN counts : counts[m] = SeenOn(n, machine) + 1  BY <1>4, <3>1
      <3> QED BY <1>1, <1>3, <2>1, <3>2 DEF p
    <2>4. CASE SeenOn(n, machine) + 1 > SeenOn(n, n.machine)
      <3>1. \A m \in DOMAIN counts : counts[m] <= SeenOn(n, machine) + 1
        <4> TAKE m \in DOMAIN counts
        <4>1. CASE m = machine  BY <1>1, <1>4, <4>1
        <4>2. CASE m # machine
          <5>1. /\ counts[m] = n.machines[m] /\ n.machines[m] \in Nat
                /\ n.machines[m] <= SeenOn(n, n.machine)
            BY <1>4, <1>5, <4>2
          <5> QED BY <1>1, <2>4, <5>1
        <4> QED BY <4>1, <4>2
      <3> QED BY <1>3, <1>9, <2>1, <3>1 DEF p
    <2> QED BY <2>2, <2>3, <2>4
  <1>10. CASE ~moves /\ machine = n.machine
    <2>1. p.machine = machine /\ SeenOn(p, p.machine) = SeenOn(n, machine) + 1
      BY <1>3, <1>4, <1>10 DEF SeenOn
    <2>2. SeenOn(n, n.machine) = SeenOn(n, machine)  BY <1>10
    <2>3. \A m \in DOMAIN counts : counts[m] <= SeenOn(n, machine) + 1
      <3> TAKE m \in DOMAIN counts
      <3>1. CASE m = machine  BY <1>1, <1>4, <3>1
      <3>2. CASE m # machine
        <4>1. /\ counts[m] = n.machines[m] /\ n.machines[m] \in Nat
              /\ n.machines[m] <= SeenOn(n, machine)
          BY <1>4, <1>5, <2>2, <3>2
        <4> QED BY <1>1, <4>1
      <3> QED BY <3>1, <3>2
    <2> QED BY <1>3, <1>10, <2>1, <2>3 DEF p
  <1>11. CASE ~moves /\ machine # n.machine
    <2>1. ~(SeenOn(n, machine) + 1 > SeenOn(n, n.machine))  BY <1>6, <1>11, Zenon
    <2>2. SeenOn(n, machine) + 1 <= SeenOn(n, n.machine)  BY <1>1, <2>1
    <2>3. n.machine \in DOMAIN n.machines
      <3>1. n.machine \notin DOMAIN n.machines => SeenOn(n, n.machine) = 0  BY DEF SeenOn
      <3>2. SeenOn(n, n.machine) # 0  BY <1>1, <2>2
      <3> QED BY <3>1, <3>2
    <2>4. p.machine = n.machine /\ SeenOn(p, p.machine) = SeenOn(n, n.machine)
      BY <1>3, <1>4, <1>11, <2>3 DEF SeenOn
    <2>5. \A m \in DOMAIN counts : counts[m] <= SeenOn(n, n.machine)
      BY <1>4, <1>5, <2>2
    <2> QED BY <1>3, <2>4, <2>5 DEF p
  <1> QED BY <1>9, <1>10, <1>11

(* So a node that is placed is where it was seen most. *)
LEMMA PlacedMostSeen ==
  ASSUME NEW n, IsNode(n), MostSeen(n), NEW machine \in Names, machine # ""
  PROVE  MostSeen(Placed(n, machine))
  <1> DEFINE counts == Put(n.machines, machine, SeenOn(n, machine) + 1)
             moves == Moves(n, machine)
             p == Placed(n, machine)
  <1>1. p = [n EXCEPT !.machines = counts, !.machine = IF moves THEN machine ELSE n.machine]
    BY DEF Placed
  <1>2. moves \/ machine = n.machine \/ n.machine # ""  BY Zenon DEF Moves
  <1>3. p.machine = IF moves THEN machine ELSE n.machine
    <2> HIDE DEF counts, moves, p
    <2> QED BY <1>1 DEF IsNode
  <1> HIDE DEF p, moves
  <1>4. p.machine # ""  BY <1>2, <1>3
  <1> QED BY <1>4, PlacedAhead DEF MostSeen, p

(* Placing a node moves no anchor. *)
LEMMA PlaceOnKeepsAnchors ==
  ASSUME NEW g, GraphInv(g), NEW id \in DOMAIN g.nodes, NEW machine \in Names,
         AnchorInv(g), AllMostSeen(g)
  PROVE  LET h == PlaceOn(g, id, machine) IN AnchorInv(h) /\ AllMostSeen(h)
  <1> DEFINE n == Placed(g.nodes[id], machine)
             moved == IF Moves(g.nodes[id], machine) THEN {id} \ g.newNodes ELSE {}
             nodes == Put(g.nodes, id, n)
             h == PlaceOn(g, id, machine)
  <1>1. HasFields(g) /\ IsNode(g.nodes[id]) /\ MostSeen(g.nodes[id])
    BY DEF GraphInv, IsGraph, AllMostSeen
  <1>2. \/ h = g
        \/ machine # "" /\ h = [g EXCEPT !.nodes = nodes, !.dirtyNode = g.dirtyNode \cup moved]
    BY DEF PlaceOn
  <1>3. /\ DOMAIN h.nodes = DOMAIN g.nodes /\ h.nodeIPs = g.nodeIPs
        /\ h.goneNodes = g.goneNodes /\ h.goneEdges = g.goneEdges
    BY PlaceOnInv
  <1>4. machine # "" => MostSeen(n)  BY <1>1, PlacedMostSeen
  <1> HIDE DEF n
  <1>5. \A x \in DOMAIN nodes : nodes[x] = IF x = id THEN n ELSE g.nodes[x]
    BY DEF Put
  <1> HIDE DEF nodes, moved, h
  <1>6. AllMostSeen(h)
    <2>1. CASE h = g  BY <2>1
    <2>2. CASE machine # "" /\ h = [g EXCEPT !.nodes = nodes, !.dirtyNode = g.dirtyNode \cup moved]
      <3>1. h.nodes = nodes  BY <1>1, <2>2 DEF HasFields
      <3> QED BY <1>3, <1>4, <1>5, <2>2, <3>1 DEF AllMostSeen
    <2> QED BY <1>2, <2>1, <2>2
  <1>7. AnchorInv(h)  BY <1>3 DEF AnchorInv, Named
  <1> QED BY <1>6, <1>7 DEF h

(* A conversation changes the counters of its ends only. *)
LEMMA ConnectKeepsAnchors ==
  ASSUME NEW g, GraphInv(g), NEW e \in EdgeKeys, NEW t \in Int,
         e.src \in DOMAIN g.nodes, e.dst \in DOMAIN g.nodes,
         AnchorInv(g), AllMostSeen(g)
  PROVE  LET h == Connect(g, e, t) IN AnchorInv(h) /\ AllMostSeen(h)
  <1> DEFINE edges == Put(g.edges, e, NewEdge(t))
             nodes == [id \in DOMAIN g.nodes |-> Reconnected(g.nodes[id], Degree({e}, id))]
             h == Connect(g, e, t)
  <1>1. HasFields(g) /\ \A id \in DOMAIN g.nodes : IsNode(g.nodes[id])
    BY DEF GraphInv, IsGraph
  <1>2. h = g \/ h = [g EXCEPT !.edges = edges, !.nodes = nodes]  BY DEF Connect
  <1>3. /\ DOMAIN h.nodes = DOMAIN g.nodes /\ h.nodeIPs = g.nodeIPs
        /\ h.goneNodes = g.goneNodes /\ h.goneEdges = g.goneEdges
    BY ConnectInv
  <1>4. \A id \in DOMAIN g.nodes : /\ nodes[id].machine = g.nodes[id].machine
                                   /\ nodes[id].machines = g.nodes[id].machines
    <2>1. \A id \in DOMAIN g.nodes : \A k :
            /\ Reconnected(g.nodes[id], k).machine = g.nodes[id].machine
            /\ Reconnected(g.nodes[id], k).machines = g.nodes[id].machines
      BY <1>1 DEF IsNode, Reconnected
    <2> QED BY <2>1
  <1> HIDE DEF edges, nodes, h
  <1>5. h.nodes = g.nodes \/ h.nodes = nodes  BY <1>1, <1>2 DEF HasFields
  <1>6. OnlyLess(g, h)  BY <1>3, <1>4, <1>5 DEF OnlyLess
  <1>7. AllMostSeen(h)  BY <1>6, OnlyLessKeeps
  <1>8. AnchorInv(h)  BY <1>3 DEF AnchorInv, Named
  <1> QED BY <1>7, <1>8 DEF h

(* Counting touches edges only. *)
LEMMA CountKeepsAnchors ==
  ASSUME NEW g, GraphInv(g), NEW e \in DOMAIN g.edges, NEW code \in Codes,
         NEW t \in Int, NEW detail \in BOOLEAN, AnchorInv(g), AllMostSeen(g)
  PROVE  LET h == Count(g, e, code, t, detail) IN AnchorInv(h) /\ AllMostSeen(h)
  <1> DEFINE h == Count(g, e, code, t, detail)
  <1>1. /\ h.nodes = g.nodes /\ h.nodeIPs = g.nodeIPs
        /\ h.goneNodes = g.goneNodes /\ h.goneEdges = g.goneEdges
    BY CountInv
  <1> HIDE DEF h
  <1>2. AnchorInv(h) /\ AllMostSeen(h)  BY <1>1 DEF AnchorInv, Named, AllMostSeen
  <1> QED BY <1>2 DEF h

-----------------------------------------------------------------------------
(* Ingest.                                                                  *)

(* An endpoint keyed by an address anchor has an address without a name, and *)
(* teaches none itself.                                                      *)
LEMMA AnchorKey ==
  ASSUME NEW side, side.ep.kind # "remote-node", NEW observer, NEW nodeIPs, NEW x,
         "remote-node" \notin DOMAIN nodeIPs,
         EndpointKey(side, observer, nodeIPs) = AddressAnchor(x)
  PROVE  /\ x \notin DOMAIN nodeIPs /\ x \in {side.ip, "remote-node"}
         /\ DOMAIN Learned(side, observer) = {}
  <1> DEFINE reserved == Reserved(side.ep.reserved)
             key == EndpointKey(side, observer, nodeIPs)
  <1>1. key.kind = "remote-node"  BY DEF AddressAnchor, NodeKey
  <1>2. ~side.ep.nil  BY <1>1 DEF EndpointKey, UnknownKey, NodeKey
  <1>3. WorkloadKey(side.ep).kind # "remote-node"
    BY DEF WorkloadKey, DisplayKind, NodeKey
  <1>4. side.ep.ns = ""  BY <1>1, <1>2, <1>3 DEF EndpointKey
  <1>5. key = ReservedKey(side.ep, side.names, side.ip, observer, nodeIPs)
    BY <1>2, <1>4 DEF EndpointKey
  <1> HIDE DEF key, reserved
  <1>6. reserved = "remote-node" /\ side.ip \notin DOMAIN nodeIPs
    BY <1>1, <1>5
       DEF ReservedKey, MachineAnchor, UnknownKey, NodeKey, ReservedNamespace, reserved
  <1>7. key = AddressAnchor(IF side.ip # "" THEN side.ip ELSE "remote-node")
    BY <1>5, <1>6 DEF ReservedKey, reserved
  <1>8. x = IF side.ip # "" THEN side.ip ELSE "remote-node"
    <2>1. \A y : AddressAnchor(y).name = y  BY DEF AddressAnchor, NodeKey
    <2>2. key = AddressAnchor(x)  BY DEF key
    <2> QED BY <1>7, <2>1, <2>2, Zenon
  <1>9. DOMAIN Learned(side, observer) = {}  BY <1>6 DEF Learned, reserved
  <1> QED BY <1>6, <1>8, <1>9

(* Both ends of a flow are keyed while the other may teach a name; neither is *)
(* an anchor of an address that has one when the nodes are touched.           *)
LEMMA KeysUnnamed ==
  ASSUME NEW g, GraphInv(g), AnchorInv(g), NEW f \in Flow, f.src.ip # f.dst.ip,
         "remote-node" \notin {f.src.ep.kind, f.dst.ep.kind, f.src.ip, f.dst.ip}
  PROVE  LET g1  == LearnMachines(g, Learned(f.src, f.observer))
             src == EndpointKey(f.src, f.observer, g.nodeIPs)
             g2  == LearnMachines(g1, Learned(f.dst, f.observer))
             dst == EndpointKey(f.dst, f.observer, g1.nodeIPs)
         IN  /\ src \in NodeKeys /\ dst \in NodeKeys
             /\ GraphInv(g1) /\ AnchorInv(g1) /\ OnlyLess(g, g1)
             /\ GraphInv(g2) /\ AnchorInv(g2) /\ OnlyLess(g1, g2)
             /\ src \notin Named(g2) /\ dst \notin Named(g2)
  <1> DEFINE ls  == Learned(f.src, f.observer)
             ld  == Learned(f.dst, f.observer)
             g1  == LearnMachines(g, ls)
             src == EndpointKey(f.src, f.observer, g.nodeIPs)
             g2  == LearnMachines(g1, ld)
             dst == EndpointKey(f.dst, f.observer, g1.nodeIPs)
             Good(h) == GraphInv(h) /\ AnchorInv(h)
  <1>1. f.src \in Side /\ f.dst \in Side /\ f.observer \in Names  BY DEF Flow
  <1>2. /\ IsAddressMap(ls) /\ DOMAIN ls \subseteq {f.src.ip}
        /\ IsAddressMap(ld) /\ DOMAIN ld \subseteq {f.dst.ip}
    BY <1>1, LearnedType DEF Learned
  <1>3. \A x : src = AddressAnchor(x) =>
          /\ x \notin DOMAIN g.nodeIPs /\ x \in {f.src.ip, "remote-node"} /\ DOMAIN ls = {}
    BY AnchorKey DEF AnchorInv
  <1>4. \A x : dst = AddressAnchor(x) /\ "remote-node" \notin DOMAIN g1.nodeIPs =>
          x \notin DOMAIN g1.nodeIPs /\ DOMAIN ld = {}
    BY AnchorKey
  <1> HIDE DEF ls, ld, src
  <1>5. Good(g1) /\ OnlyLess(g, g1) /\ DOMAIN g1.nodeIPs \subseteq DOMAIN g.nodeIPs \cup DOMAIN ls
    <2>1. "remote-node" \notin DOMAIN ls  BY <1>2
    <2> QED BY <1>2, <2>1, LearnMachinesInv, LearnMachinesLeaves
  <1> HIDE DEF g1
  <1>6. Good(g2) /\ OnlyLess(g1, g2) /\ DOMAIN g2.nodeIPs \subseteq DOMAIN g1.nodeIPs \cup DOMAIN ld
    <2>1. "remote-node" \notin DOMAIN ld  BY <1>2
    <2> QED BY <1>2, <1>5, <2>1, LearnMachinesInv, LearnMachinesLeaves
  <1> HIDE DEF g2
  <1>7. src \notin Named(g2)
    <2> SUFFICES ASSUME NEW x \in DOMAIN g2.nodeIPs, src = AddressAnchor(x) PROVE FALSE
      BY DEF Named, AnchorsOf
    <2> QED BY <1>2, <1>3, <1>5, <1>6
  <1>8. dst \notin Named(g2)
    <2> SUFFICES ASSUME NEW x \in DOMAIN g2.nodeIPs, dst = AddressAnchor(x) PROVE FALSE
      BY DEF Named, AnchorsOf
    <2> QED BY <1>4, <1>5, <1>6 DEF AnchorInv
  <1>9. src \in NodeKeys /\ dst \in NodeKeys
    <2>1. IsAddressMap(g.nodeIPs) /\ IsAddressMap(g1.nodeIPs)
      BY <1>5 DEF GraphInv, IsGraph, IsAddressMap
    <2> QED BY <1>1, <2>1, EndpointKeyType DEF src
  <1> HIDE DEF dst
  <1> QED BY <1>5, <1>6, <1>7, <1>8, <1>9 DEF g1, g2, src, dst, ls, ld

(* A whole Ingest keeps the two invariants. *)
LEMMA IngestedKeepsAnchors ==
  ASSUME NEW g, GraphInv(g), AnchorInv(g), AllMostSeen(g),
         NEW f \in Flow, ~Skipped(f), f.src.ip # f.dst.ip, NEW t \in Int,
         "remote-node" \notin {f.src.ep.kind, f.dst.ep.kind, f.src.ip, f.dst.ip}
  PROVE  AnchorInv(Ingested(g, f, t)) /\ AllMostSeen(Ingested(g, f, t))
  <1> DEFINE g1  == LearnMachines(g, Learned(f.src, f.observer))
             src == EndpointKey(f.src, f.observer, g.nodeIPs)
             g2  == LearnMachines(g1, Learned(f.dst, f.observer))
             dst == EndpointKey(f.dst, f.observer, g1.nodeIPs)
             gs  == TouchNode(g2, src, t)
             g3  == TouchNode(gs, dst, t)
             g4  == CASE f.direction = "EGRESS"  -> PlaceOn(g3, src, f.observer)
                      [] f.direction = "INGRESS" -> PlaceOn(g3, dst, f.observer)
                      [] OTHER                   -> g3
             e   == EdgeKey(src, dst, L4Key(f.l4))
             g5  == Connect(g4, e, t)
             g6  == Count(g5, e, VerdictCode(f.verdict), t, f.detail)
             Good(h) == GraphInv(h) /\ AnchorInv(h) /\ AllMostSeen(h)
  <1>1. f.observer \in Names /\ f.l4 \in L4 /\ f.detail \in BOOLEAN  BY DEF Flow
  <1>2. Ingested(g, f, t) = IF src = dst THEN g2 ELSE g6  BY DEF Ingested
  <1>3. /\ src \in NodeKeys /\ dst \in NodeKeys
        /\ GraphInv(g2) /\ AnchorInv(g2) /\ OnlyLess(g, g1) /\ OnlyLess(g1, g2)
        /\ src \notin Named(g2) /\ dst \notin Named(g2)
    BY KeysUnnamed
  <1> HIDE DEF g1, g2, src, dst, e
  <1>4. Good(g2)  BY <1>3, OnlyLessKeeps
  <1>5. e \in EdgeKeys /\ e.src = src /\ e.dst = dst
    BY <1>1, <1>3, EdgeKeyType DEF EdgeKey, e
  <1>6. Good(gs) /\ src \in DOMAIN gs.nodes /\ Named(gs) = Named(g2)
    BY <1>3, <1>4, TouchNodeInv, TouchNodeKeepsAnchors
  <1> HIDE DEF gs
  <1>7. Good(g3) /\ src \in DOMAIN g3.nodes /\ dst \in DOMAIN g3.nodes
    BY <1>3, <1>6, TouchNodeInv, TouchNodeKeepsAnchors
  <1> HIDE DEF g3
  <1>8. Good(g4) /\ DOMAIN g4.nodes = DOMAIN g3.nodes
    <2>1. \A id \in DOMAIN g3.nodes : /\ Good(PlaceOn(g3, id, f.observer))
                                      /\ DOMAIN PlaceOn(g3, id, f.observer).nodes = DOMAIN g3.nodes
      BY <1>1, <1>7, PlaceOnInv, PlaceOnKeepsAnchors
    <2>2. \/ g4 = PlaceOn(g3, src, f.observer)
          \/ g4 = PlaceOn(g3, dst, f.observer)
          \/ g4 = g3
      BY Zenon
    <2> HIDE DEF g4
    <2> QED BY <1>7, <2>1, <2>2
  <1> HIDE DEF g4
  <1>9. Good(g5) /\ e \in DOMAIN g5.edges
    BY <1>5, <1>7, <1>8, ConnectInv, ConnectKeepsAnchors
  <1> HIDE DEF g5
  <1>10. AnchorInv(g6) /\ AllMostSeen(g6)
    <2>1. VerdictCode(f.verdict) \in Codes  BY DEF Skipped
    <2> QED BY <1>1, <1>9, <2>1, CountKeepsAnchors
  <1> QED BY <1>2, <1>4, <1>10

-----------------------------------------------------------------------------
(* Tick, and the specification.                                             *)

(* The expiry takes nodes away and names none. *)
LEMMA ExpiredLeaves ==
  ASSUME NEW g, GraphInv(g), NEW cutoff
  PROVE  LET h == Expired(g, cutoff)
         IN  HasFields(h) /\ OnlyLess(g, h) /\ h.nodeIPs = g.nodeIPs
  <1> DEFINE stale == {e \in DOMAIN g.edges : g.edges[e].lastSeen < cutoff}
             d     == DropEdges(g, stale)
             idle  == {id \in DOMAIN d.nodes : /\ d.nodes[id].edges <= 0
                                               /\ d.nodes[id].lastSeen < cutoff}
             h     == DropNodes(d, idle)
  <1>1. Expired(g, cutoff) = h  BY DEF Expired
  <1>2. HasFields(d) /\ d.nodeIPs = g.nodeIPs
    <2>1. HasFields(g)  BY DEF GraphInv, IsGraph
    <2> HIDE DEF stale
    <2> QED BY <2>1, DropEdgesFields
  <1>3. OnlyLess(g, d)
    <2> HIDE DEF stale
    <2> QED BY DropEdgesOnlyLess
  <1> HIDE DEF d
  <1>4. HasFields(h) /\ h.nodes = Without(d.nodes, idle) /\ h.nodeIPs = d.nodeIPs
    <2> HIDE DEF idle
    <2> QED BY <1>2, DropNodesFields
  <1> HIDE DEF idle, h
  <1>5. OnlyLess(d, h)  BY <1>4 DEF OnlyLess, Without
  <1>6. OnlyLess(g, h)  BY <1>3, <1>5 DEF OnlyLess
  <1> QED BY <1>1, <1>2, <1>4, <1>6

(* A tick announces all that is gone and leaves the rest as it was. *)
LEMMA TickKeepsAnchors ==
  ASSUME NEW g, GraphInv(g), AnchorInv(g), AllMostSeen(g), NEW cutoff
  PROVE  LET h == Cleared(Expired(g, cutoff)) IN AnchorInv(h) /\ AllMostSeen(h)
  <1> DEFINE x == Expired(g, cutoff)
             nothing == <<>>
             h == Cleared(x)
  <1>1. HasFields(x) /\ OnlyLess(g, x) /\ x.nodeIPs = g.nodeIPs  BY ExpiredLeaves
  <1> HIDE DEF x
  <1>2. h = [x EXCEPT !.newNodes = {}, !.dirtyNode = {}, !.dirty = nothing, !.dirtyL7 = {},
                      !.goneNodes = {}, !.goneEdges = {}]
    BY DEF Cleared
  <1> HIDE DEF h, nothing
  <1>3. h.nodes = x.nodes /\ h.nodeIPs = x.nodeIPs /\ h.goneNodes = {} /\ h.goneEdges = {}
    BY <1>1, <1>2 DEF HasFields
  <1>4. OnlyLess(g, h)  BY <1>1, <1>3 DEF OnlyLess
  <1>5. AllMostSeen(h)  BY <1>4, OnlyLessKeeps
  <1>6. AnchorInv(h)  BY <1>1, <1>3, <1>4 DEF AnchorInv, Named, OnlyLess
  <1> QED BY <1>5, <1>6 DEF h, x

FullInv == IInv /\ AnchorInv(graph) /\ AllMostSeen(graph)

(* The empty graph has no name and no anchor. *)
LEMMA InitFullInv == Init => FullInv
  <1> SUFFICES ASSUME Init PROVE FullInv  OBVIOUS
  <1> DEFINE nothing == <<>>
  <1>1. DOMAIN nothing = {}  OBVIOUS
  <1>2. graph = [nodes |-> nothing, edges |-> nothing, newNodes |-> {}, dirtyNode |-> {},
                 dirty |-> nothing, dirtyL7 |-> {}, goneNodes |-> {}, goneEdges |-> {},
                 nodeIPs |-> nothing]
    BY DEF Init, EmptyGraph
  <1> HIDE DEF nothing
  <1>3. /\ graph.nodes = nothing /\ graph.nodeIPs = nothing
        /\ graph.goneNodes = {} /\ graph.goneEdges = {}
    BY <1>2
  <1>4. AnchorInv(graph) /\ AllMostSeen(graph)
    BY <1>1, <1>3 DEF AnchorInv, AllMostSeen, Named, AnchorsOf
  <1> QED BY <1>4, InitIInv DEF FullInv

(* Every action keeps the strengthened invariant. *)
LEMMA NextFullInv == FullInv /\ [Next]_vars => FullInv'
  <1> SUFFICES ASSUME FullInv, [Next]_vars PROVE AnchorInv(graph') /\ AllMostSeen(graph')
    BY NextIInv DEF FullInv
  <1>1. /\ GraphInv(graph) /\ now \in Int
        /\ AnchorInv(graph) /\ AllMostSeen(graph)
    BY DEF FullInv, IInv
  <1>2. CASE Ingest
    <2>1. PICK f \in Flows, t \in (now - Lag)..(now + Skew) :
            ~Skipped(f) /\ graph' = Ingested(graph, f, t)
      BY <1>2 DEF Ingest
    <2>2. f \in Flow /\ f.src.ip # f.dst.ip /\ t \in Int
      BY <1>1, FlowsAssumption, ParametersAssumption
    <2>3. "remote-node" \notin {f.src.ep.kind, f.dst.ep.kind, f.src.ip, f.dst.ip}
      BY SpellingAssumption
    <2> QED BY <1>1, <2>1, <2>2, <2>3, IngestedKeepsAnchors
  <1>3. CASE Peers
    <2>1. PICK peers \in PeerLists : graph' = LearnMachines(graph, peers)
      BY <1>3 DEF Peers
    <2>2. IsAddressMap(peers) /\ "remote-node" \notin DOMAIN peers
      BY PeerListsAssumption, SpellingAssumption DEF IsAddressMap
    <2> QED BY <1>1, <2>1, <2>2, LearnMachinesLeaves, OnlyLessKeeps
  <1>4. CASE Tick
    BY <1>1, <1>4, TickKeepsAnchors DEF Tick
  <1>5. CASE Advance
    BY <1>1, <1>5 DEF Advance
  <1>6. CASE UNCHANGED vars
    BY <1>1, <1>6 DEF vars
  <1> QED BY <1>2, <1>3, <1>4, <1>5, <1>6 DEF Next

(* The strengthened invariant holds in every execution, whatever taught the   *)
(* names of the machines and in whatever order.                               *)
THEOREM FullInvariant == Spec => []FullInv
  <1> QED BY InitFullInv, NextFullInv, PTL DEF Spec

(* A machine whose address has a name is not also an anchor under its         *)
(* address: learnMachine retires that anchor and no later flow, keyed by      *)
(* endpointKey, brings it back.                                               *)
THEOREM NamedAddressNeverAnchor == Spec => []NamedAddressHasNoAnchor
  <1>1. FullInv => NamedAddressHasNoAnchor
    BY DEF FullInv, AnchorInv, Named, AnchorsOf, NamedAddressHasNoAnchor
  <1> QED BY <1>1, FullInvariant, PTL

(* What Tick is to announce as new is live and what it is to announce as      *)
(* gone is not: only retired anchors are gone between two ticks, and none of   *)
(* them comes back.                                                           *)
THEOREM DeltaAlwaysWellFormed == Spec => []DeltaWellFormed
  <1>1. FullInv => DeltaWellFormed
    <2> SUFFICES ASSUME FullInv PROVE DeltaWellFormed  OBVIOUS
    <2>1. PendingConsistent(graph) /\ EndpointsLive(graph) /\ AnchorInv(graph)
      BY DEF FullInv, IInv, GraphInv
    <2>2. graph.goneNodes \cap DOMAIN graph.nodes = {}  BY <2>1 DEF AnchorInv
    <2>3. graph.goneEdges \cap DOMAIN graph.edges = {}
      BY <2>1 DEF AnchorInv, EndpointsLive
    <2> QED BY <2>1, <2>2, <2>3 DEF DeltaWellFormed
  <1> QED BY <1>1, FullInvariant, PTL

(* The machine a node stands on is one it was seen on most often, though       *)
(* placeOn compares only two of its counters.                                 *)
THEOREM MachineAlwaysMostSeen == Spec => []MachineIsMostSeen
  <1>1. FullInv => MachineIsMostSeen
    BY DEF FullInv, AllMostSeen, MostSeen, MachineIsMostSeen
  <1> QED BY <1>1, FullInvariant, PTL

-----------------------------------------------------------------------------
(* The feed.                                                                *)

Totals == [counts: [Codes -> Nat], details: Nat]

IsMirror(m) ==
  /\ m = [nodes |-> m.nodes, edges |-> m.edges]
  /\ m.edges \in [DOMAIN m.edges -> Totals]

Owed(g, e) == IF e \in DOMAIN g.dirty THEN g.dirty[e] ELSE NoCounts

Shown(m, e) == IF e \in DOMAIN m.edges THEN m.edges[e].counts ELSE NoCounts

ShownDetails(m, e) == IF e \in DOMAIN m.edges THEN m.edges[e].details ELSE 0

(* The client has the nodes that were sent, on the machines that were sent. *)
NodesOwed(g, m) ==
  /\ DOMAIN m.nodes \subseteq DOMAIN g.nodes \cup g.goneNodes
  /\ \A id \in DOMAIN g.nodes :
       /\ id \in g.newNodes <=> id \notin DOMAIN m.nodes
       /\ id \in DOMAIN m.nodes \ g.dirtyNode => m.nodes[id] = g.nodes[id].machine
       /\ id \in g.dirtyNode => g.nodes[id].machine # ""

(* What it shows of a conversation and what is owed to it make the totals. *)
EdgeOwed(g, m, e) ==
  /\ \A c \in Codes : Shown(m, e)[c] + Owed(g, e)[c] = g.edges[e].counts[c]
  /\ IF e \in g.dirtyL7 THEN g.edges[e].details # 0
                        ELSE g.edges[e].details = ShownDetails(m, e)

EdgesOwed(g, m) ==
  /\ DOMAIN m.edges \subseteq DOMAIN g.edges \cup g.goneEdges
  /\ \A e \in DOMAIN g.edges : EdgeOwed(g, m, e)

(* Each conversation is known to the client or waits to be announced, but    *)
(* for the one that Ingest has connected and not counted yet.                *)
Announced(g, m, open) ==
  DOMAIN g.edges \ open \subseteq DOMAIN m.edges \cup DOMAIN g.dirty

MirrorInv(g, m) == NodesOwed(g, m) /\ EdgesOwed(g, m) /\ Announced(g, m, {})

(* What is gone is not there. *)
Apart(g) ==
  /\ g.goneNodes \cap DOMAIN g.nodes = {}
  /\ g.goneEdges \cap DOMAIN g.edges = {}

-----------------------------------------------------------------------------
(* Taking away.                                                             *)

(* Conversations that go take what is owed of them along. *)
LEMMA DropEdgesKeepsMirror ==
  ASSUME NEW g, GraphInv(g), NEW E \in SUBSET DOMAIN g.edges, NEW m, MirrorInv(g, m)
  PROVE  LET h == DropEdges(g, E)
         IN  MirrorInv(h, m) /\ DOMAIN h.nodes = DOMAIN g.nodes /\ (Apart(g) => Apart(h))
  <1> DEFINE h == DropEdges(g, E)
  <1>1. HasFields(g)  BY DEF GraphInv, IsGraph
  <1>2. /\ HasFields(h)
        /\ h.nodes = [id \in DOMAIN g.nodes |-> Reconnected(g.nodes[id], -Degree(E, id))]
        /\ h.edges = Without(g.edges, E) /\ h.dirty = Without(g.dirty, E)
        /\ h.dirtyL7 = g.dirtyL7 \ E /\ h.goneEdges = g.goneEdges \cup E
        /\ h.newNodes = g.newNodes /\ h.dirtyNode = g.dirtyNode
        /\ h.goneNodes = g.goneNodes /\ h.nodeIPs = g.nodeIPs
    BY <1>1, DropEdgesFields
  <1>3. OnlyLess(g, h) /\ DOMAIN h.nodes = DOMAIN g.nodes  BY DropEdgesOnlyLess
  <1> HIDE DEF h
  <1>4. NodesOwed(h, m)  BY <1>2, <1>3 DEF MirrorInv, NodesOwed, OnlyLess
  <1>5. /\ DOMAIN h.edges = DOMAIN g.edges \ E /\ DOMAIN h.dirty = DOMAIN g.dirty \ E
        /\ \A e \in DOMAIN h.edges : h.edges[e] = g.edges[e]
        /\ \A e \in DOMAIN h.dirty : h.dirty[e] = g.dirty[e]
    BY <1>2 DEF Without
  <1>6. EdgesOwed(h, m)
    <2>1. DOMAIN m.edges \subseteq DOMAIN h.edges \cup h.goneEdges
      BY <1>2, <1>5 DEF MirrorInv, EdgesOwed
    <2>2. ASSUME NEW e \in DOMAIN h.edges  PROVE EdgeOwed(h, m, e)
      <3>1. EdgeOwed(g, m, e)  BY <1>5, <2>2 DEF MirrorInv, EdgesOwed
      <3>2. Owed(h, e) = Owed(g, e)  BY <1>5, <2>2 DEF Owed
      <3>3. h.edges[e] = g.edges[e] /\ (e \in h.dirtyL7 <=> e \in g.dirtyL7)
        BY <1>2, <1>5, <2>2
      <3> QED BY <3>1, <3>2, <3>3 DEF EdgeOwed
    <2> QED BY <2>1, <2>2 DEF EdgesOwed
  <1>7. Announced(h, m, {})  BY <1>5 DEF MirrorInv, Announced
  <1>8. Apart(g) => Apart(h)  BY <1>2, <1>3, <1>5 DEF Apart
  <1> QED BY <1>3, <1>4, <1>6, <1>7, <1>8 DEF MirrorInv, h

(* A node that was never sent goes silently, any other is put down as gone. *)
LEMMA DropNodesKeepsMirror ==
  ASSUME NEW g, HasFields(g), NEW N \in SUBSET DOMAIN g.nodes, NEW m, MirrorInv(g, m)
  PROVE  LET h == DropNodes(g, N) IN MirrorInv(h, m) /\ (Apart(g) => Apart(h))
  <1> DEFINE h == DropNodes(g, N)
  <1>1. /\ h.nodes = Without(g.nodes, N)
        /\ h.newNodes = g.newNodes \ N /\ h.dirtyNode = g.dirtyNode \ N
        /\ h.goneNodes = g.goneNodes \cup (N \ g.newNodes)
        /\ h.edges = g.edges /\ h.dirty = g.dirty /\ h.dirtyL7 = g.dirtyL7
        /\ h.goneEdges = g.goneEdges
    BY DropNodesFields
  <1> HIDE DEF h
  <1>2. /\ DOMAIN h.nodes = DOMAIN g.nodes \ N
        /\ \A id \in DOMAIN h.nodes : h.nodes[id] = g.nodes[id]
    BY <1>1 DEF Without
  <1>3. NodesOwed(h, m)  BY <1>1, <1>2 DEF MirrorInv, NodesOwed
  <1>4. EdgesOwed(h, m) /\ Announced(h, m, {})
    BY <1>1 DEF MirrorInv, EdgesOwed, EdgeOwed, Owed, Announced
  <1>5. Apart(g) => Apart(h)  BY <1>1, <1>2 DEF Apart
  <1> QED BY <1>3, <1>4, <1>5 DEF MirrorInv, h

(* Retiring an anchor that was sent puts it down as gone. *)
LEMMA RetireAddressesKeepsMirror ==
  ASSUME NEW g, GraphInv(g), NEW ips, NEW m, MirrorInv(g, m)
  PROVE  MirrorInv(RetireAddresses(g, ips), m)
  <1> DEFINE anchors == {AddressAnchor(ip) : ip \in ips} \cap DOMAIN g.nodes
             cut == {e \in DOMAIN g.edges : e.src \in anchors \/ e.dst \in anchors}
             d   == DropEdges(g, cut)
  <1>1. RetireAddresses(g, ips) = DropNodes(d, anchors)  BY DEF RetireAddresses
  <1>2. cut \in SUBSET DOMAIN g.edges  OBVIOUS
  <1>3. MirrorInv(d, m) /\ DOMAIN d.nodes = DOMAIN g.nodes
    <2> HIDE DEF cut
    <2> QED BY <1>2, DropEdgesKeepsMirror
  <1>4. HasFields(d)
    <2> HIDE DEF cut
    <2>1. HasFields(g)  BY DEF GraphInv, IsGraph
    <2> QED BY <2>1, DropEdgesFields
  <1>5. anchors \in SUBSET DOMAIN d.nodes  BY <1>3
  <1> HIDE DEF d, anchors
  <1> QED BY <1>1, <1>3, <1>4, <1>5, DropNodesKeepsMirror

(* So learning machines keeps what is owed. *)
LEMMA LearnMachinesKeepsMirror ==
  ASSUME NEW g, GraphInv(g), NEW addrs, IsAddressMap(addrs), NEW m, MirrorInv(g, m)
  PROVE  MirrorInv(LearnMachines(g, addrs), m)
  <1>1. PICK k, news : /\ LearnMachines(g, addrs) = RetireAddresses(k, news)
                       /\ GraphInv(k) /\ OnlyNamed(g, k)
    BY LearnMachinesRetires
  <1>2. MirrorInv(k, m)
    <2>1. NodesOwed(k, m)  BY <1>1 DEF OnlyNamed, MirrorInv, NodesOwed
    <2>2. \A e : EdgeOwed(g, m, e) => EdgeOwed(k, m, e)  BY <1>1 DEF OnlyNamed, EdgeOwed, Owed
    <2>3. EdgesOwed(k, m)  BY <1>1, <2>2 DEF OnlyNamed, MirrorInv, EdgesOwed
    <2>4. Announced(k, m, {})  BY <1>1 DEF OnlyNamed, MirrorInv, Announced
    <2> QED BY <2>1, <2>3, <2>4 DEF MirrorInv
  <1> QED BY <1>1, <1>2, RetireAddressesKeepsMirror

-----------------------------------------------------------------------------
(* Adding and counting.                                                     *)

(* A node that is made was not sent before, or what was sent of it is gone  *)
(* for good: it is nothing that the next tick takes away.                   *)
LEMMA TouchNodeKeepsMirror ==
  ASSUME NEW g, GraphInv(g), NEW id \in NodeKeys, NEW t \in Int, id \notin g.goneNodes,
         NEW m, MirrorInv(g, m)
  PROVE  MirrorInv(TouchNode(g, id, t), m)
  <1> DEFINE live == id \in DOMAIN g.nodes
             n == IF live THEN Touched(g.nodes[id], t) ELSE NewNode(t)
             nodes == Put(g.nodes, id, n)
             h == TouchNode(g, id, t)
  <1>1. HasFields(g) /\ \A x \in DOMAIN g.nodes : IsNode(g.nodes[x])
    BY DEF GraphInv, IsGraph
  <1>2. h = IF live THEN [g EXCEPT !.nodes = nodes]
                    ELSE [g EXCEPT !.nodes = nodes, !.newNodes = g.newNodes \cup {id}]
    BY DEF TouchNode
  <1>3. live => n.machine = g.nodes[id].machine
    BY <1>1 DEF IsNode, Touched
  <1> HIDE DEF n
  <1>4. /\ DOMAIN nodes = DOMAIN g.nodes \cup {id}
        /\ \A x \in DOMAIN g.nodes : nodes[x].machine = g.nodes[x].machine
    BY <1>3 DEF Put
  <1> HIDE DEF nodes, h
  <1>5. /\ h.nodes = nodes /\ h.edges = g.edges /\ h.dirty = g.dirty
        /\ h.newNodes = g.newNodes \cup (IF live THEN {} ELSE {id})
        /\ h.dirtyNode = g.dirtyNode /\ h.dirtyL7 = g.dirtyL7
        /\ h.goneNodes = g.goneNodes /\ h.goneEdges = g.goneEdges
    <2>1. CASE live   BY <1>1, <1>2, <2>1 DEF HasFields
    <2>2. CASE ~live  BY <1>1, <1>2, <2>2 DEF HasFields
    <2> QED BY <2>1, <2>2
  <1>6. NodesOwed(h, m)
    BY <1>4, <1>5 DEF MirrorInv, NodesOwed, GraphInv, PendingConsistent
  <1>7. EdgesOwed(h, m) /\ Announced(h, m, {})
    BY <1>5 DEF MirrorInv, EdgesOwed, EdgeOwed, Owed, Announced
  <1> QED BY <1>6, <1>7 DEF MirrorInv, h

(* A node that moves is sent again, and it moves to a machine. *)
LEMMA PlaceOnKeepsMirror ==
  ASSUME NEW g, GraphInv(g), NEW id \in DOMAIN g.nodes, NEW machine,
         NEW m, MirrorInv(g, m)
  PROVE  MirrorInv(PlaceOn(g, id, machine), m)
  <1> DEFINE moves == Moves(g.nodes[id], machine)
             n == Placed(g.nodes[id], machine)
             moved == IF moves THEN {id} \ g.newNodes ELSE {}
             nodes == Put(g.nodes, id, n)
             h == PlaceOn(g, id, machine)
  <1>1. HasFields(g) /\ IsNode(g.nodes[id])  BY DEF GraphInv, IsGraph
  <1>2. \/ h = g
        \/ machine # "" /\ h = [g EXCEPT !.nodes = nodes, !.dirtyNode = g.dirtyNode \cup moved]
    BY DEF PlaceOn
  <1>3. n.machine = IF moves THEN machine ELSE g.nodes[id].machine
    <2> DEFINE counts == Put(g.nodes[id].machines, machine, SeenOn(g.nodes[id], machine) + 1)
    <2>1. n = [g.nodes[id] EXCEPT !.machines = counts,
                                  !.machine = IF moves THEN machine ELSE g.nodes[id].machine]
      BY DEF Placed
    <2> HIDE DEF counts, moves, n
    <2> QED BY <1>1, <2>1 DEF IsNode
  <1> HIDE DEF n, moves
  <1>4. /\ DOMAIN nodes = DOMAIN g.nodes /\ nodes[id] = n
        /\ \A x \in DOMAIN g.nodes \ {id} : nodes[x] = g.nodes[x]
    BY DEF Put
  <1> HIDE DEF nodes, h
  <1>5. CASE h = g  BY <1>5 DEF h
  <1>6. CASE machine # "" /\ h = [g EXCEPT !.nodes = nodes, !.dirtyNode = g.dirtyNode \cup moved]
    <2>1. /\ h.nodes = nodes /\ h.edges = g.edges /\ h.dirty = g.dirty
          /\ h.newNodes = g.newNodes /\ h.dirtyNode = g.dirtyNode \cup moved
          /\ h.dirtyL7 = g.dirtyL7
          /\ h.goneNodes = g.goneNodes /\ h.goneEdges = g.goneEdges
      <3> HIDE DEF moved
      <3> QED BY <1>1, <1>6 DEF HasFields
    <2>2. NodesOwed(h, m)
      <3>1. DOMAIN m.nodes \subseteq DOMAIN h.nodes \cup h.goneNodes
        BY <1>4, <2>1 DEF MirrorInv, NodesOwed
      <3>2. ASSUME NEW x \in DOMAIN h.nodes
            PROVE  /\ x \in h.newNodes <=> x \notin DOMAIN m.nodes
                   /\ x \in DOMAIN m.nodes \ h.dirtyNode => m.nodes[x] = h.nodes[x].machine
                   /\ x \in h.dirtyNode => h.nodes[x].machine # ""
        <4>1. /\ x \in g.newNodes <=> x \notin DOMAIN m.nodes
              /\ x \in DOMAIN m.nodes \ g.dirtyNode => m.nodes[x] = g.nodes[x].machine
              /\ x \in g.dirtyNode => g.nodes[x].machine # ""
          BY <1>4, <2>1, <3>2 DEF MirrorInv, NodesOwed
        <4>2. CASE x = id  BY <1>3, <1>4, <1>6, <2>1, <4>1, <4>2
        <4>3. CASE x # id  BY <1>4, <2>1, <3>2, <4>1, <4>3
        <4> QED BY <4>2, <4>3
      <3> QED BY <3>1, <3>2 DEF NodesOwed
    <2>3. EdgesOwed(h, m) /\ Announced(h, m, {})
      BY <2>1 DEF MirrorInv, EdgesOwed, EdgeOwed, Owed, Announced
    <2> QED BY <2>2, <2>3 DEF MirrorInv, h
  <1> QED BY <1>2, <1>5, <1>6

(* A conversation that is made is not one the client has. *)
LEMMA ConnectKeepsMirror ==
  ASSUME NEW g, GraphInv(g), NEW e, e \notin g.goneEdges, NEW t,
         NEW m, MirrorInv(g, m)
  PROVE  LET h == Connect(g, e, t)
         IN  NodesOwed(h, m) /\ EdgesOwed(h, m) /\ Announced(h, m, {e})
  <1> DEFINE edges == Put(g.edges, e, NewEdge(t))
             nodes == [id \in DOMAIN g.nodes |-> Reconnected(g.nodes[id], Degree({e}, id))]
             h == Connect(g, e, t)
  <1>1. HasFields(g) /\ \A id \in DOMAIN g.nodes : IsNode(g.nodes[id])
    BY DEF GraphInv, IsGraph
  <1>2. CASE e \in DOMAIN g.edges
    <2>1. h = g  BY <1>2 DEF Connect
    <2> QED BY <2>1 DEF MirrorInv, Announced
  <1>3. CASE e \notin DOMAIN g.edges
    <2>1. h = [g EXCEPT !.edges = edges, !.nodes = nodes]  BY <1>3 DEF Connect
    <2>2. /\ DOMAIN nodes = DOMAIN g.nodes
          /\ \A id \in DOMAIN nodes : nodes[id].machine = g.nodes[id].machine
      <3>1. \A id \in DOMAIN g.nodes : \A k : Reconnected(g.nodes[id], k).machine = g.nodes[id].machine
        BY <1>1 DEF IsNode, Reconnected
      <3> QED BY <3>1
    <2>3. /\ DOMAIN edges = DOMAIN g.edges \cup {e}
          /\ edges[e].counts = NoCounts /\ edges[e].details = 0
          /\ \A x \in DOMAIN g.edges : edges[x] = g.edges[x]
      BY <1>3 DEF Put, NewEdge
    <2> HIDE DEF edges, nodes, h
    <2>4. /\ h.nodes = nodes /\ h.edges = edges /\ h.dirty = g.dirty
          /\ h.newNodes = g.newNodes /\ h.dirtyNode = g.dirtyNode
          /\ h.dirtyL7 = g.dirtyL7 /\ h.goneNodes = g.goneNodes
          /\ h.goneEdges = g.goneEdges
      BY <1>1, <2>1 DEF HasFields
    <2>5. NodesOwed(h, m)  BY <2>2, <2>4 DEF MirrorInv, NodesOwed
    <2>6. e \notin DOMAIN m.edges /\ e \notin DOMAIN g.dirty /\ e \notin g.dirtyL7
      BY <1>3 DEF MirrorInv, EdgesOwed, GraphInv, PendingConsistent
    <2>7. EdgeOwed(h, m, e)
      <3>1. Shown(m, e) = NoCounts /\ Owed(h, e) = NoCounts /\ ShownDetails(m, e) = 0
        BY <2>4, <2>6 DEF Shown, Owed, ShownDetails
      <3>2. \A c \in Codes : NoCounts[c] + NoCounts[c] = NoCounts[c]  BY DEF NoCounts
      <3> QED BY <2>3, <2>4, <2>6, <3>1, <3>2 DEF EdgeOwed
    <2>8. \A x \in DOMAIN g.edges : EdgeOwed(h, m, x)
      BY <2>3, <2>4 DEF MirrorInv, EdgesOwed, EdgeOwed, Owed
    <2>9. EdgesOwed(h, m)  BY <2>3, <2>4, <2>7, <2>8 DEF MirrorInv, EdgesOwed
    <2>10. Announced(h, m, {e})  BY <2>3, <2>4 DEF MirrorInv, Announced
    <2> QED BY <2>5, <2>9, <2>10 DEF h
  <1> QED BY <1>2, <1>3

(* What is added to the totals is owed. *)
LEMMA CountKeepsMirror ==
  ASSUME NEW g, GraphInv(g), NEW e \in DOMAIN g.edges, NEW code \in Codes, NEW t,
         NEW detail \in BOOLEAN, NEW m, IsMirror(m),
         NodesOwed(g, m), EdgesOwed(g, m), Announced(g, m, {e})
  PROVE  MirrorInv(Count(g, e, code, t, detail), m)
  <1> DEFINE counted == Counted(g.edges[e], code, t, detail)
             pending == Increment(Owed(g, e), code)
             edges   == Put(g.edges, e, counted)
             dirty   == Put(g.dirty, e, pending)
             details == g.dirtyL7 \cup (IF detail THEN {e} ELSE {})
             h       == Count(g, e, code, t, detail)
  <1>1. IsGraph(g) /\ HasFields(g)  BY DEF GraphInv, IsGraph
  <1>2. h = [g EXCEPT !.edges = edges, !.dirtyL7 = details, !.dirty = dirty]
    BY DEF Count, Owed
  <1>3. g.edges[e] \in Edge /\ Owed(g, e) \in [Codes -> Nat] /\ Shown(m, e) \in [Codes -> Nat]
    <2>1. NoCounts \in [Codes -> Nat]  BY DEF NoCounts
    <2>2. e \in DOMAIN m.edges => m.edges[e].counts \in [Codes -> Nat]
      BY DEF IsMirror, Totals
    <2> QED BY <1>1, <2>1, <2>2 DEF IsGraph, Owed, Shown
  <1>4. /\ counted.counts = Increment(g.edges[e].counts, code)
        /\ counted.details = g.edges[e].details + (IF detail THEN 1 ELSE 0)
    BY DEF Counted
  <1>5. \A c \in Codes : Shown(m, e)[c] + pending[c] = counted.counts[c]
    <2>1. \A c \in Codes : Shown(m, e)[c] + Owed(g, e)[c] = g.edges[e].counts[c]
      BY DEF EdgesOwed, EdgeOwed
    <2>2. \A c \in Codes : /\ Shown(m, e)[c] \in Nat /\ Owed(g, e)[c] \in Nat
                           /\ g.edges[e].counts[c] \in Nat
      BY <1>3 DEF Edge
    <2>3. \A c \in Codes :
            /\ pending[c] = Owed(g, e)[c] + (IF c = code THEN 1 ELSE 0)
            /\ counted.counts[c] = g.edges[e].counts[c] + (IF c = code THEN 1 ELSE 0)
      BY <1>3, <1>4, <2>2 DEF Increment, Edge
    <2> QED BY <2>1, <2>2, <2>3
  <1> HIDE DEF counted, pending
  <1>6. /\ DOMAIN edges = DOMAIN g.edges /\ edges[e] = counted
        /\ \A x \in DOMAIN g.edges \ {e} : edges[x] = g.edges[x]
    BY DEF Put
  <1>7. /\ DOMAIN dirty = DOMAIN g.dirty \cup {e} /\ dirty[e] = pending
        /\ \A x \in DOMAIN g.dirty \ {e} : dirty[x] = g.dirty[x]
    BY DEF Put
  <1> HIDE DEF edges, dirty, h
  <1>8. /\ h.nodes = g.nodes /\ h.edges = edges /\ h.dirty = dirty
        /\ h.newNodes = g.newNodes /\ h.dirtyNode = g.dirtyNode
        /\ h.dirtyL7 = details /\ h.goneNodes = g.goneNodes
        /\ h.goneEdges = g.goneEdges
    <2> HIDE DEF details
    <2> QED BY <1>1, <1>2 DEF HasFields
  <1>9. NodesOwed(h, m)  BY <1>8 DEF NodesOwed
  <1>10. EdgesOwed(h, m)
    <2>1. EdgeOwed(h, m, e)
      <3>1. EdgeOwed(g, m, e) /\ g.edges[e].details \in Nat  BY <1>3 DEF EdgesOwed, Edge
      <3>2. Owed(h, e) = pending  BY <1>7, <1>8 DEF Owed
      <3>3. IF e \in h.dirtyL7 THEN h.edges[e].details # 0
                               ELSE h.edges[e].details = ShownDetails(m, e)
        BY <1>4, <1>6, <1>8, <3>1 DEF EdgeOwed
      <3> QED BY <1>5, <1>6, <1>8, <3>2, <3>3 DEF EdgeOwed
    <2>2. \A x \in DOMAIN g.edges \ {e} : EdgeOwed(h, m, x)
      BY <1>6, <1>7, <1>8 DEF EdgesOwed, EdgeOwed, Owed
    <2> QED BY <1>6, <1>8, <2>1, <2>2 DEF EdgesOwed
  <1>11. Announced(h, m, {})  BY <1>6, <1>7, <1>8 DEF Announced
  <1> QED BY <1>9, <1>10, <1>11 DEF MirrorInv, h

-----------------------------------------------------------------------------
(* Ingest and Tick.                                                         *)

(* Nodes and conversations that Ingest makes are not on their way out: their *)
(* keys are no anchors of named addresses.                                   *)
LEMMA IngestedKeepsMirror ==
  ASSUME NEW g, GraphInv(g), AnchorInv(g), AllMostSeen(g),
         NEW f \in Flow, ~Skipped(f), f.src.ip # f.dst.ip, NEW t \in Int,
         "remote-node" \notin {f.src.ep.kind, f.dst.ep.kind, f.src.ip, f.dst.ip},
         NEW m, IsMirror(m), MirrorInv(g, m)
  PROVE  MirrorInv(Ingested(g, f, t), m)
  <1> DEFINE g1  == LearnMachines(g, Learned(f.src, f.observer))
             src == EndpointKey(f.src, f.observer, g.nodeIPs)
             g2  == LearnMachines(g1, Learned(f.dst, f.observer))
             dst == EndpointKey(f.dst, f.observer, g1.nodeIPs)
             gs  == TouchNode(g2, src, t)
             g3  == TouchNode(gs, dst, t)
             g4  == CASE f.direction = "EGRESS"  -> PlaceOn(g3, src, f.observer)
                      [] f.direction = "INGRESS" -> PlaceOn(g3, dst, f.observer)
                      [] OTHER                   -> g3
             e   == EdgeKey(src, dst, L4Key(f.l4))
             g5  == Connect(g4, e, t)
             g6  == Count(g5, e, VerdictCode(f.verdict), t, f.detail)
             Good(h) == GraphInv(h) /\ AnchorInv(h) /\ AllMostSeen(h) /\ MirrorInv(h, m)
  <1>1. /\ f.src \in Side /\ f.dst \in Side /\ f.observer \in Names
        /\ f.l4 \in L4 /\ f.detail \in BOOLEAN
    BY DEF Flow
  <1>2. Ingested(g, f, t) = IF src = dst THEN g2 ELSE g6  BY DEF Ingested
  <1>3. /\ src \in NodeKeys /\ dst \in NodeKeys
        /\ GraphInv(g1) /\ OnlyLess(g, g1)
        /\ GraphInv(g2) /\ AnchorInv(g2) /\ OnlyLess(g1, g2)
        /\ src \notin Named(g2) /\ dst \notin Named(g2)
    BY KeysUnnamed
  <1>4. MirrorInv(g1, m)  BY <1>1, LearnedType, LearnMachinesKeepsMirror
  <1>5. MirrorInv(g2, m)  BY <1>1, <1>3, <1>4, LearnedType, LearnMachinesKeepsMirror
  <1> HIDE DEF g1, g2, src, dst, e
  <1>6. Good(g2)  BY <1>3, <1>5, OnlyLessKeeps
  <1>7. e \in EdgeKeys /\ e.src = src /\ e.dst = dst
    BY <1>1, <1>3, EdgeKeyType DEF EdgeKey, e
  <1>8. Good(gs) /\ src \in DOMAIN gs.nodes /\ Named(gs) = Named(g2)
    <2>1. src \notin g2.goneNodes  BY <1>3 DEF AnchorInv
    <2> QED BY <1>3, <1>6, <2>1, TouchNodeInv, TouchNodeKeepsAnchors, TouchNodeKeepsMirror
  <1> HIDE DEF gs
  <1>9. /\ Good(g3) /\ src \in DOMAIN g3.nodes /\ dst \in DOMAIN g3.nodes
        /\ Named(g3) = Named(g2)
    <2>1. dst \notin gs.goneNodes  BY <1>3, <1>8 DEF AnchorInv
    <2> QED BY <1>3, <1>8, <2>1, TouchNodeInv, TouchNodeKeepsAnchors, TouchNodeKeepsMirror
  <1> HIDE DEF g3
  <1>10. Good(g4) /\ DOMAIN g4.nodes = DOMAIN g3.nodes /\ Named(g4) = Named(g2)
    <2>1. \A id \in DOMAIN g3.nodes :
            LET h == PlaceOn(g3, id, f.observer)
            IN  Good(h) /\ DOMAIN h.nodes = DOMAIN g3.nodes /\ h.nodeIPs = g3.nodeIPs
      BY <1>1, <1>9, PlaceOnInv, PlaceOnKeepsAnchors, PlaceOnKeepsMirror
    <2>2. \/ g4 = PlaceOn(g3, src, f.observer)
          \/ g4 = PlaceOn(g3, dst, f.observer)
          \/ g4 = g3
      BY Zenon
    <2> HIDE DEF g4
    <2>3. Good(g4) /\ DOMAIN g4.nodes = DOMAIN g3.nodes /\ g4.nodeIPs = g3.nodeIPs
      BY <1>9, <2>1, <2>2
    <2> QED BY <1>9, <2>3 DEF Named
  <1> HIDE DEF g4
  <1>11. e \notin g4.goneEdges  BY <1>3, <1>7, <1>10 DEF AnchorInv
  <1>12. /\ GraphInv(g5) /\ e \in DOMAIN g5.edges
         /\ NodesOwed(g5, m) /\ EdgesOwed(g5, m) /\ Announced(g5, m, {e})
    BY <1>7, <1>9, <1>10, <1>11, ConnectInv, ConnectKeepsMirror
  <1> HIDE DEF g5
  <1>13. MirrorInv(g6, m)
    <2>1. VerdictCode(f.verdict) \in Codes  BY DEF Skipped
    <2> QED BY <1>1, <1>12, <2>1, CountKeepsMirror
  <1> QED BY <1>2, <1>6, <1>13

(* The expiry keeps what is owed, and what is gone apart. *)
LEMMA ExpiredKeepsMirror ==
  ASSUME NEW g, GraphInv(g), NEW cutoff, NEW m, MirrorInv(g, m), Apart(g)
  PROVE  LET x == Expired(g, cutoff) IN MirrorInv(x, m) /\ Apart(x)
  <1> DEFINE stale == {e \in DOMAIN g.edges : g.edges[e].lastSeen < cutoff}
             d     == DropEdges(g, stale)
             idle  == {id \in DOMAIN d.nodes : /\ d.nodes[id].edges <= 0
                                               /\ d.nodes[id].lastSeen < cutoff}
  <1>1. Expired(g, cutoff) = DropNodes(d, idle)  BY DEF Expired
  <1>2. stale \in SUBSET DOMAIN g.edges  OBVIOUS
  <1>3. HasFields(d) /\ MirrorInv(d, m) /\ Apart(d)
    <2> HIDE DEF stale
    <2>1. HasFields(g)  BY DEF GraphInv, IsGraph
    <2> QED BY <1>2, <2>1, DropEdgesFields, DropEdgesKeepsMirror
  <1> HIDE DEF d
  <1>4. idle \in SUBSET DOMAIN d.nodes  OBVIOUS
  <1> HIDE DEF idle
  <1> QED BY <1>1, <1>3, <1>4, DropNodesKeepsMirror

(* The nodes of the client after the tick. *)
LEMMA TickSendsNodes ==
  ASSUME NEW x, GraphInv(x), Apart(x), NEW m, MirrorInv(x, m)
  PROVE  ApplyTick(m, TickMessage(x)).nodes = Snapshot(x).nodes
  <1> DEFINE sent == [id \in x.newNodes \cup x.dirtyNode |-> x.nodes[id].machine]
             u == UpsertNodes(m.nodes, sent)
             left == Without(u, x.goneNodes)
  <1>1. ApplyTick(m, TickMessage(x)).nodes = left  BY DEF ApplyTick, TickMessage
  <1>2. Snapshot(x).nodes = [id \in DOMAIN x.nodes |-> x.nodes[id].machine]  BY DEF Snapshot
  <1>3. x.newNodes \cup x.dirtyNode \subseteq DOMAIN x.nodes
    BY DEF GraphInv, PendingConsistent
  <1>4. NodesOwed(x, m)  BY DEF MirrorInv
  <1>5. DOMAIN left = DOMAIN x.nodes
    <2>1. DOMAIN left = (DOMAIN m.nodes \cup x.newNodes \cup x.dirtyNode) \ x.goneNodes
      BY DEF Without, UpsertNodes
    <2> QED BY <1>3, <1>4, <2>1 DEF NodesOwed, Apart
  <1>6. ASSUME NEW id \in DOMAIN x.nodes  PROVE left[id] = x.nodes[id].machine
    <2>1. /\ id \in x.newNodes <=> id \notin DOMAIN m.nodes
          /\ id \in DOMAIN m.nodes \ x.dirtyNode => m.nodes[id] = x.nodes[id].machine
          /\ id \in x.dirtyNode => x.nodes[id].machine # ""
      BY <1>4 DEF NodesOwed
    <2>2. id \in DOMAIN left  BY <1>5
    <2>3. left[id] = u[id]  BY <2>2 DEF Without
    <2>4. id \in x.newNodes \cup x.dirtyNode => id \in DOMAIN sent /\ sent[id] = x.nodes[id].machine
      OBVIOUS
    <2>5. u[id] = IF id \in DOMAIN sent /\ (id \notin DOMAIN m.nodes \/ sent[id] # "")
                  THEN sent[id] ELSE m.nodes[id]
      <3>1. id \in DOMAIN m.nodes \cup DOMAIN sent  BY <2>1
      <3> HIDE DEF sent
      <3> QED BY <3>1 DEF UpsertNodes
    <2>6. DOMAIN sent = x.newNodes \cup x.dirtyNode  OBVIOUS
    <2> HIDE DEF sent, u, left
    <2> QED BY <2>1, <2>3, <2>4, <2>5, <2>6
  <1>7. left = [id \in DOMAIN left |-> left[id]]  BY DEF Without
  <1> HIDE DEF left
  <1> QED BY <1>1, <1>2, <1>5, <1>6, <1>7

(* The conversations of the client after the tick. *)
LEMMA TickSendsEdges ==
  ASSUME NEW x, GraphInv(x), Apart(x), NEW m, IsMirror(m), MirrorInv(x, m)
  PROVE  ApplyTick(m, TickMessage(x)).edges = Snapshot(x).edges
  <1> DEFINE sent == [e \in DOMAIN x.dirty \cap DOMAIN x.edges |->
                        [counts  |-> x.dirty[e],
                         details |-> IF e \in x.dirtyL7 THEN x.edges[e].details ELSE 0]]
             u == AddIncrements(m.edges, sent)
             left == Without(u, x.goneEdges)
             total(e) == [counts |-> x.edges[e].counts, details |-> x.edges[e].details]
  <1>1. ApplyTick(m, TickMessage(x)).edges = left  BY DEF ApplyTick, TickMessage
  <1>2. Snapshot(x).edges = [e \in DOMAIN x.edges |-> total(e)]  BY DEF Snapshot
  <1>3. x.dirtyL7 \subseteq DOMAIN x.dirty /\ DOMAIN x.dirty \subseteq DOMAIN x.edges
    BY DEF GraphInv, PendingConsistent
  <1>4. EdgesOwed(x, m) /\ Announced(x, m, {})  BY DEF MirrorInv
  <1>5. DOMAIN sent = DOMAIN x.dirty  BY <1>3
  <1>6. DOMAIN left = DOMAIN x.edges
    <2>1. DOMAIN left = (DOMAIN m.edges \cup DOMAIN sent) \ x.goneEdges
      <3> HIDE DEF sent
      <3> QED BY DEF Without, AddIncrements
    <2> QED BY <1>3, <1>4, <1>5, <2>1 DEF EdgesOwed, Announced, Apart
  <1>7. ASSUME NEW e \in DOMAIN x.edges  PROVE left[e] = total(e)
    <2>1. /\ x.edges[e].counts \in [Codes -> Nat] /\ x.edges[e].details \in Nat
          /\ x.dirty \in [DOMAIN x.dirty -> [Codes -> Nat]]
      BY DEF GraphInv, IsGraph, Edge
    <2>2. e \in DOMAIN m.edges =>
            /\ m.edges[e] = [counts |-> m.edges[e].counts, details |-> m.edges[e].details]
            /\ m.edges[e].counts \in [Codes -> Nat] /\ m.edges[e].details \in Nat
      BY DEF IsMirror, Totals
    <2>3. EdgeOwed(x, m, e)  BY <1>4 DEF EdgesOwed
    <2>4. e \in DOMAIN m.edges \cup DOMAIN x.dirty  BY <1>4 DEF Announced
    <2>5. e \in DOMAIN x.dirty =>
            sent[e] = [counts  |-> x.dirty[e],
                       details |-> IF e \in x.dirtyL7 THEN x.edges[e].details ELSE 0]
      OBVIOUS
    <2>6. e \in DOMAIN left /\ left[e] = u[e]  BY <1>6 DEF Without
    <2> HIDE DEF sent
    <2>7. u[e] = IF e \notin DOMAIN sent THEN m.edges[e]
                 ELSE IF e \notin DOMAIN m.edges THEN sent[e]
                 ELSE [counts  |-> [c \in Codes |-> m.edges[e].counts[c] + sent[e].counts[c]],
                       details |-> IF sent[e].details # 0 THEN sent[e].details
                                   ELSE m.edges[e].details]
      BY <1>5, <2>4 DEF AddIncrements
    <2> HIDE DEF u, left
    <2>8. CASE e \notin DOMAIN x.dirty
      <3>1. e \in DOMAIN m.edges /\ left[e] = m.edges[e]  BY <1>5, <2>4, <2>6, <2>7, <2>8
      <3>2. m.edges[e].details = x.edges[e].details
        BY <1>3, <2>3, <2>8, <3>1 DEF EdgeOwed, ShownDetails
      <3>3. \A c \in Codes : m.edges[e].counts[c] + NoCounts[c] = x.edges[e].counts[c]
        BY <2>3, <2>8, <3>1 DEF EdgeOwed, Shown, Owed
      <3>4. \A c \in Codes : NoCounts[c] = 0 /\ m.edges[e].counts[c] \in Nat
        BY <2>2, <3>1 DEF NoCounts
      <3>5. \A c \in Codes : m.edges[e].counts[c] = x.edges[e].counts[c]  BY <3>3, <3>4
      <3>6. m.edges[e].counts = x.edges[e].counts  BY <2>1, <2>2, <3>1, <3>5
      <3> QED BY <2>2, <3>1, <3>2, <3>6
    <2>9. CASE e \in DOMAIN x.dirty /\ e \notin DOMAIN m.edges
      <3>1. left[e] = [counts  |-> x.dirty[e],
                       details |-> IF e \in x.dirtyL7 THEN x.edges[e].details ELSE 0]
        BY <1>5, <2>5, <2>6, <2>7, <2>9
      <3>2. e \notin x.dirtyL7 => x.edges[e].details = 0
        BY <2>3, <2>9 DEF EdgeOwed, ShownDetails
      <3>3. \A c \in Codes : NoCounts[c] + x.dirty[e][c] = x.edges[e].counts[c]
        BY <2>3, <2>9 DEF EdgeOwed, Shown, Owed
      <3>4. x.dirty[e] \in [Codes -> Nat]  BY <2>1, <2>9
      <3>5. \A c \in Codes : NoCounts[c] = 0 /\ x.dirty[e][c] \in Nat  BY <3>4 DEF NoCounts
      <3>6. \A c \in Codes : x.dirty[e][c] = x.edges[e].counts[c]  BY <3>3, <3>5
      <3>7. x.dirty[e] = x.edges[e].counts  BY <2>1, <3>4, <3>6
      <3> QED BY <3>1, <3>2, <3>7
    <2>10. CASE e \in DOMAIN x.dirty /\ e \in DOMAIN m.edges
      <3>1. /\ sent[e].counts = x.dirty[e]
            /\ sent[e].details = IF e \in x.dirtyL7 THEN x.edges[e].details ELSE 0
        BY <2>5, <2>10
      <3>2. \A c \in Codes : m.edges[e].counts[c] + x.dirty[e][c] = x.edges[e].counts[c]
        BY <2>3, <2>10 DEF EdgeOwed, Shown, Owed
      <3>3. [c \in Codes |-> m.edges[e].counts[c] + x.dirty[e][c]] = x.edges[e].counts
        BY <2>1, <3>2
      <3>4. (IF sent[e].details # 0 THEN sent[e].details ELSE m.edges[e].details)
              = x.edges[e].details
        BY <2>3, <2>10, <3>1 DEF EdgeOwed, ShownDetails
      <3>5. left[e] = [counts  |-> [c \in Codes |-> m.edges[e].counts[c] + x.dirty[e][c]],
                       details |-> IF sent[e].details # 0 THEN sent[e].details
                                   ELSE m.edges[e].details]
        BY <1>5, <2>6, <2>7, <2>10, <3>1
      <3> QED BY <3>3, <3>4, <3>5
    <2> QED BY <2>8, <2>9, <2>10
  <1>8. left = [e \in DOMAIN left |-> left[e]]  BY DEF Without
  <1> HIDE DEF left
  <1> QED BY <1>1, <1>2, <1>6, <1>7, <1>8

(* A tick makes the client's store the graph. *)
LEMMA TickMirrors ==
  ASSUME NEW x, GraphInv(x), Apart(x), NEW m, IsMirror(m), MirrorInv(x, m)
  PROVE  ApplyTick(m, TickMessage(x)) = Snapshot(x)
  <1> DEFINE a == ApplyTick(m, TickMessage(x))
             b == Snapshot(x)
  <1>1. a = [nodes |-> a.nodes, edges |-> a.edges]  BY DEF ApplyTick
  <1>2. b = [nodes |-> b.nodes, edges |-> b.edges]  BY DEF Snapshot
  <1>3. a.nodes = b.nodes /\ a.edges = b.edges  BY TickSendsNodes, TickSendsEdges
  <1> HIDE DEF a, b
  <1>4. a = b  BY <1>1, <1>2, <1>3
  <1> QED BY <1>4 DEF a, b

(* After it nothing is owed. *)
LEMMA ClearedMirrors ==
  ASSUME NEW x, GraphInv(x)
  PROVE  /\ Snapshot(Cleared(x)) = Snapshot(x) /\ IsMirror(Snapshot(x))
         /\ MirrorInv(Cleared(x), Snapshot(x))
  <1> DEFINE nothing == <<>>
             h == Cleared(x)
             m == Snapshot(x)
  <1>1. IsGraph(x) /\ HasFields(x)  BY DEF GraphInv, IsGraph
  <1>2. h = [x EXCEPT !.newNodes = {}, !.dirtyNode = {}, !.dirty = nothing, !.dirtyL7 = {},
                      !.goneNodes = {}, !.goneEdges = {}]
    BY DEF Cleared
  <1>3. DOMAIN nothing = {}  OBVIOUS
  <1> HIDE DEF h, nothing
  <1>4. /\ h.nodes = x.nodes /\ h.edges = x.edges /\ h.newNodes = {} /\ h.dirtyNode = {}
        /\ h.dirty = nothing /\ h.dirtyL7 = {}
    BY <1>1, <1>2 DEF HasFields
  <1>5. Snapshot(h) = m  BY <1>4 DEF Snapshot
  <1>6. /\ m = [nodes |-> m.nodes, edges |-> m.edges]
        /\ m.nodes = [id \in DOMAIN x.nodes |-> x.nodes[id].machine]
        /\ m.edges = [e \in DOMAIN x.edges |-> [counts  |-> x.edges[e].counts,
                                                 details |-> x.edges[e].details]]
    BY DEF Snapshot
  <1> HIDE DEF m
  <1>7. \A e \in DOMAIN x.edges : x.edges[e].counts \in [Codes -> Nat] /\ x.edges[e].details \in Nat
    BY <1>1 DEF IsGraph, Edge
  <1>8. IsMirror(m)  BY <1>6, <1>7 DEF IsMirror, Totals
  <1>9. NodesOwed(h, m)  BY <1>4, <1>6 DEF NodesOwed
  <1>10. EdgesOwed(h, m)
    <2>1. ASSUME NEW e \in DOMAIN h.edges  PROVE EdgeOwed(h, m, e)
      <3>1. /\ Owed(h, e) = NoCounts /\ Shown(m, e) = x.edges[e].counts
            /\ ShownDetails(m, e) = x.edges[e].details
        BY <1>3, <1>4, <1>6, <2>1 DEF Owed, Shown, ShownDetails
      <3>2. \A c \in Codes : x.edges[e].counts[c] + NoCounts[c] = x.edges[e].counts[c]
        BY <1>4, <1>7, <2>1 DEF NoCounts
      <3> QED BY <1>4, <3>1, <3>2 DEF EdgeOwed
    <2> QED BY <1>4, <1>6, <2>1 DEF EdgesOwed
  <1>11. Announced(h, m, {})  BY <1>4, <1>6 DEF Announced
  <1> QED BY <1>5, <1>8, <1>9, <1>10, <1>11 DEF MirrorInv, h, m

-----------------------------------------------------------------------------
(* The specification.                                                       *)

FeedInv == FullInv /\ IsMirror(mirror) /\ MirrorInv(graph, mirror)

(* The lists of what is gone are apart from what is live. *)
LEMMA FullInvApart == FullInv => Apart(graph)
  <1> SUFFICES ASSUME FullInv PROVE Apart(graph)  OBVIOUS
  <1>1. EndpointsLive(graph) /\ AnchorInv(graph)  BY DEF FullInv, IInv, GraphInv
  <1> QED BY <1>1 DEF AnchorInv, EndpointsLive, Apart

(* The client starts with the empty graph. *)
LEMMA InitFeedInv == FeedInit => FeedInv
  <1> SUFFICES ASSUME FeedInit PROVE FeedInv  OBVIOUS
  <1>1. Init /\ FullInv /\ GraphInv(graph)
    BY InitFullInv DEF FeedInit, FullInv, IInv
  <1>2. Cleared(graph) = graph
    <2> DEFINE nothing == <<>>
    <2>1. graph = [nodes |-> nothing, edges |-> nothing, newNodes |-> {}, dirtyNode |-> {},
                   dirty |-> nothing, dirtyL7 |-> {}, goneNodes |-> {}, goneEdges |-> {},
                   nodeIPs |-> nothing]
      BY <1>1 DEF Init, EmptyGraph
    <2>2. Cleared(graph) = [graph EXCEPT !.newNodes = {}, !.dirtyNode = {}, !.dirty = nothing,
                                         !.dirtyL7 = {}, !.goneNodes = {}, !.goneEdges = {}]
      BY DEF Cleared
    <2> HIDE DEF nothing
    <2> QED BY <2>1, <2>2
  <1>3. mirror = Snapshot(graph)  BY <1>1 DEF FeedInit, Init
  <1> QED BY <1>1, <1>2, <1>3, ClearedMirrors DEF FeedInv

(* What a tick does to graph and client together. *)
LEMMA FeedTickMirrors ==
  ASSUME FeedInv, FeedTick
  PROVE  mirror' = Snapshot(graph') /\ IsMirror(mirror') /\ MirrorInv(graph', mirror')
  <1> DEFINE x == Expired(graph, now - Retention)
  <1>1. GraphInv(graph) /\ now \in Int /\ IsMirror(mirror) /\ MirrorInv(graph, mirror)
    BY DEF FeedInv, FullInv, IInv
  <1>2. graph' = Cleared(x) /\ mirror' = ApplyTick(mirror, TickMessage(x))
    BY DEF FeedTick, Tick
  <1>3. now - Retention \in Int  BY <1>1, ParametersAssumption
  <1>4. GraphInv(x)  BY <1>1, <1>3, ExpiredInv
  <1>5. MirrorInv(x, mirror) /\ Apart(x)
    BY <1>1, FullInvApart, ExpiredKeepsMirror DEF FeedInv
  <1> HIDE DEF x
  <1>6. mirror' = Snapshot(x)  BY <1>1, <1>2, <1>4, <1>5, TickMirrors
  <1> QED BY <1>2, <1>4, <1>6, ClearedMirrors

(* One step per action of the graph, with the client behind it. *)
LEMMA NextFeedInv == FeedInv /\ [FeedNext]_feedVars => FeedInv'
  <1> SUFFICES ASSUME FeedInv, [FeedNext]_feedVars PROVE FeedInv'  OBVIOUS
  <1>1. [Next]_vars  BY DEF FeedNext, FeedTick, FeedStep, Next, feedVars, vars
  <1>2. FullInv'  BY <1>1, NextFullInv DEF FeedInv
  <1>3. /\ GraphInv(graph) /\ AnchorInv(graph) /\ AllMostSeen(graph) /\ now \in Int
        /\ IsMirror(mirror) /\ MirrorInv(graph, mirror)
    BY DEF FeedInv, FullInv, IInv
  <1>4. CASE FeedTick  BY <1>2, <1>4, FeedTickMirrors DEF FeedInv
  <1>5. CASE FeedStep
    <2>1. mirror' = mirror  BY <1>5 DEF FeedStep
    <2>2. CASE Ingest
      <3>1. PICK f \in Flows, t \in (now - Lag)..(now + Skew) :
              ~Skipped(f) /\ graph' = Ingested(graph, f, t)
        BY <2>2 DEF Ingest
      <3>2. f \in Flow /\ f.src.ip # f.dst.ip /\ t \in Int
        BY <1>3, FlowsAssumption, ParametersAssumption
      <3>3. "remote-node" \notin {f.src.ep.kind, f.dst.ep.kind, f.src.ip, f.dst.ip}
        BY SpellingAssumption
      <3>4. MirrorInv(graph', mirror)  BY <1>3, <3>1, <3>2, <3>3, IngestedKeepsMirror
      <3> QED BY <1>2, <1>3, <2>1, <3>4 DEF FeedInv
    <2>3. CASE Peers
      <3>1. PICK peers \in PeerLists : graph' = LearnMachines(graph, peers)
        BY <2>3 DEF Peers
      <3>2. IsAddressMap(peers)  BY PeerListsAssumption DEF IsAddressMap
      <3>3. MirrorInv(graph', mirror)  BY <1>3, <3>1, <3>2, LearnMachinesKeepsMirror
      <3> QED BY <1>2, <1>3, <2>1, <3>3 DEF FeedInv
    <2>4. CASE Advance  BY <1>2, <1>3, <2>1, <2>4 DEF FeedInv, Advance
    <2> QED BY <1>5, <2>2, <2>3, <2>4 DEF FeedStep
  <1>6. CASE UNCHANGED feedVars  BY <1>2, <1>3, <1>6 DEF FeedInv, feedVars
  <1> QED BY <1>4, <1>5, <1>6 DEF FeedNext

(* What the client lacks is owed to it, in every execution.                  *)
THEOREM FeedInvariant == FeedSpec => []FeedInv
  <1> QED BY InitFeedInv, NextFeedInv, PTL DEF FeedSpec

(* Between two ticks the client shows, with the increments that wait, the      *)
(* totals of every conversation, and what it has too much of is on its way     *)
(* out (graph.go's dirty, newNodes, goneNodes and goneEdges).                 *)
THEOREM NothingEverLost == FeedSpec => []NothingLost
  <1>1. FeedInv => NothingLost
    <2> SUFFICES ASSUME FeedInv PROVE NothingLost  OBVIOUS
    <2>1. /\ IsGraph(graph) /\ IsMirror(mirror) /\ NodesOwed(graph, mirror)
          /\ EdgesOwed(graph, mirror) /\ Announced(graph, mirror, {})
      BY DEF FeedInv, FullInv, IInv, GraphInv, MirrorInv
    <2>2. ASSUME NEW e \in DOMAIN graph.edges
          PROVE  \/ /\ e \notin DOMAIN mirror.edges
                    /\ e \in DOMAIN graph.dirty
                    /\ graph.dirty[e] = graph.edges[e].counts
                 \/ /\ e \in DOMAIN mirror.edges \cap DOMAIN graph.dirty
                    /\ \A c \in Codes : mirror.edges[e].counts[c] + graph.dirty[e][c]
                                          = graph.edges[e].counts[c]
                 \/ /\ e \in DOMAIN mirror.edges \ DOMAIN graph.dirty
                    /\ mirror.edges[e].counts = graph.edges[e].counts
      <3>1. e \in DOMAIN mirror.edges \cup DOMAIN graph.dirty  BY <2>1 DEF Announced
      <3>2. \A c \in Codes : Shown(mirror, e)[c] + Owed(graph, e)[c] = graph.edges[e].counts[c]
        BY <2>1 DEF EdgesOwed, EdgeOwed
      <3>3. /\ graph.edges[e].counts \in [Codes -> Nat]
            /\ e \in DOMAIN graph.dirty => graph.dirty[e] \in [Codes -> Nat]
            /\ e \in DOMAIN mirror.edges => mirror.edges[e].counts \in [Codes -> Nat]
        BY <2>1 DEF IsGraph, Edge, IsMirror, Totals
      <3>4. CASE e \notin DOMAIN mirror.edges
        <4>1. e \in DOMAIN graph.dirty  BY <3>1, <3>4
        <4>2. \A c \in Codes : /\ NoCounts[c] + graph.dirty[e][c] = graph.edges[e].counts[c]
                               /\ NoCounts[c] = 0 /\ graph.dirty[e][c] \in Nat
          BY <3>2, <3>3, <3>4, <4>1 DEF Shown, Owed, NoCounts
        <4>3. \A c \in Codes : graph.dirty[e][c] = graph.edges[e].counts[c]  BY <4>2
        <4>4. graph.dirty[e] = graph.edges[e].counts  BY <3>3, <4>1, <4>3
        <4> QED BY <3>4, <4>1, <4>4
      <3>5. CASE e \in DOMAIN mirror.edges /\ e \in DOMAIN graph.dirty
        BY <3>2, <3>5 DEF Shown, Owed
      <3>6. CASE e \in DOMAIN mirror.edges /\ e \notin DOMAIN graph.dirty
        <4>1. \A c \in Codes : /\ mirror.edges[e].counts[c] + NoCounts[c] = graph.edges[e].counts[c]
                               /\ NoCounts[c] = 0 /\ mirror.edges[e].counts[c] \in Nat
          BY <3>2, <3>3, <3>6 DEF Shown, Owed, NoCounts
        <4>2. \A c \in Codes : mirror.edges[e].counts[c] = graph.edges[e].counts[c]  BY <4>1
        <4>3. mirror.edges[e].counts = graph.edges[e].counts  BY <3>3, <3>6, <4>2
        <4> QED BY <3>6, <4>3
      <3> QED BY <3>4, <3>5, <3>6
    <2>3. DOMAIN mirror.edges \ DOMAIN graph.edges \subseteq graph.goneEdges
      BY <2>1 DEF EdgesOwed
    <2>4. /\ DOMAIN mirror.nodes \ DOMAIN graph.nodes \subseteq graph.goneNodes
          /\ DOMAIN graph.nodes \ graph.newNodes = DOMAIN graph.nodes \cap DOMAIN mirror.nodes
      BY <2>1 DEF NodesOwed
    <2> QED BY <2>2, <2>3, <2>4 DEF NothingLost
  <1> QED BY <1>1, FeedInvariant, PTL

(* The deltas implement the abstract feed: the client's store changes only at *)
(* a tick, and is then the whole graph, whatever came, expired or was retired  *)
(* since the tick before.                                                     *)
THEOREM DeltasImplementFeed == FeedSpec => FeedImplementsFeed
  <1>1. FeedInit => AbstractFeed!Init
    BY DEF FeedInit, Init, AbstractFeed!Init
  <1>2. FeedInv /\ [FeedNext]_feedVars => [AbstractFeed!Next]_<<Snapshot(graph), mirror>>
    <2> SUFFICES ASSUME FeedInv, [FeedNext]_feedVars
                 PROVE  AbstractFeed!Next \/ UNCHANGED <<Snapshot(graph), mirror>>
      OBVIOUS
    <2>1. CASE FeedTick
      <3>1. mirror' = Snapshot(graph')  BY <2>1, FeedTickMirrors
      <3> QED BY <3>1 DEF AbstractFeed!Next, AbstractFeed!Publish
    <2>2. CASE FeedStep
      BY <2>2 DEF FeedStep, AbstractFeed!Next, AbstractFeed!Change
    <2>3. CASE UNCHANGED feedVars
      BY <2>3 DEF feedVars, AbstractFeed!Next, AbstractFeed!Change
    <2> QED BY <2>1, <2>2, <2>3 DEF FeedNext
  <1> QED BY <1>1, <1>2, FeedInvariant, PTL DEF FeedSpec, FeedImplementsFeed, AbstractFeed!Spec

=============================================================================
