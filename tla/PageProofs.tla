---------------------------- MODULE PageProofs ----------------------------
(***************************************************************************)
(* Proofs about Browser, for any graphs of the server, any filters and any *)
(* size of the pool, and about Page, for any nodes, edges and clicks.      *)
(*                                                                         *)
(* The store is the server's graph after every message: one lemma per      *)
(* method of the store says what it leaves; the messages compose the       *)
(* lemmas, and a frame only empties the lists of changes.                  *)
(*                                                                         *)
(* Slots, places and low arcs are behind the store between two frames;     *)
(* SlotInv says by how much: what is not drawn is reported, and the map of *)
(* nodes that the last membership pass saw differs from the store's only   *)
(* in what is reported.                                                    *)
(*                                                                         *)
(* The panel and the lit arcs hold what the selection holds; what has to   *)
(* be added is what is true while they differ: a panel that is closed      *)
(* under a selection means that the selection was gone, and an arc that is *)
(* lit without a selection means that the pointer is on something.         *)
(*                                                                         *)
(* The node pool comes last: the stack of free slots, after those that go  *)
(* were given back, has every slot but those of the nodes that stay.       *)
(***************************************************************************)
EXTENDS Page, FiniteSetTheorems, SequenceTheorems, TLAPS

IsStore(s) ==
  /\ {"nodes", "edges"} \subseteq DOMAIN s
  /\ DOMAIN s.nodes \subseteq NodeIds
  /\ s.nodes \in [DOMAIN s.nodes -> [machine: Machines \cup {NoMachine}, edges: SUBSET EdgeIds]]
  /\ s.edges \subseteq EdgeIds

(* The map of machines a message carries. *)
IsSent(m) ==
  DOMAIN m \subseteq NodeIds /\ m \in [DOMAIN m -> Machines \cup {NoMachine}]

IsServerGraph(g) ==
  /\ IsSent(g.nodes) /\ g.edges \subseteq EdgeIds
  /\ \A e \in g.edges : {Src[e], Dst[e]} \subseteq DOMAIN g.nodes

(* The store is the graph, and each of its nodes knows the edges that touch it. *)
Mirrors(s, g) ==
  /\ DOMAIN s.nodes = DOMAIN g.nodes
  /\ s.edges = g.edges
  /\ \A id \in DOMAIN s.nodes :
       s.nodes[id].machine = g.nodes[id] /\ s.nodes[id].edges = Touching(s.edges, id)

BrowserInv == IsStore(state) /\ IsServerGraph(server) /\ Mirrors(state, server)

-----------------------------------------------------------------------------
(* What the methods of the store leave, r, of the store s.                  *)

NodesUpserted(s, sent, r) ==
  /\ IsStore(r)
  /\ r.edges = s.edges
  /\ DOMAIN r.nodes = DOMAIN s.nodes \cup DOMAIN sent
  /\ \A id \in DOMAIN sent \ DOMAIN s.nodes :
       r.nodes[id] = [machine |-> sent[id], edges |-> {}]
  /\ \A id \in DOMAIN s.nodes :
       /\ r.nodes[id].edges = s.nodes[id].edges
       /\ r.nodes[id].machine =
            IF id \in DOMAIN sent /\ sent[id] # NoMachine THEN sent[id]
            ELSE s.nodes[id].machine

EdgesUpserted(s, sent, r) ==
  /\ IsStore(r)
  /\ r.edges = s.edges \cup sent
  /\ DOMAIN r.nodes = DOMAIN s.nodes
  /\ \A id \in DOMAIN s.nodes :
       /\ r.nodes[id].machine = s.nodes[id].machine
       /\ r.nodes[id].edges = s.nodes[id].edges \cup Touching(sent \ s.edges, id)

EdgesRemoved(s, ids, r) ==
  /\ IsStore(r)
  /\ r.edges = s.edges \ ids
  /\ DOMAIN r.nodes = DOMAIN s.nodes
  /\ \A id \in DOMAIN s.nodes :
       /\ r.nodes[id].machine = s.nodes[id].machine
       /\ r.nodes[id].edges = s.nodes[id].edges \ (ids \cap s.edges)

NodesRemoved(s, ids, r) ==
  /\ IsStore(r)
  /\ r.edges = s.edges
  /\ DOMAIN r.nodes = DOMAIN s.nodes \ ids
  /\ \A id \in DOMAIN r.nodes : r.nodes[id] = s.nodes[id]

(* An update may change the machine of a node, and nothing takes it back. *)
LEMMA UpsertNodesLeaves ==
  ASSUME NEW s, IsStore(s), NEW sent, IsSent(sent)
  PROVE  NodesUpserted(s, sent, UpsertNodes(s, sent))
  <1> DEFINE r == UpsertNodes(s, sent)
             new == DOMAIN sent \ DOMAIN s.nodes
             moved == {id \in DOMAIN sent \cap DOMAIN s.nodes :
                         sent[id] \notin {NoMachine, s.nodes[id].machine}}
             N == [id \in DOMAIN s.nodes \cup new |->
                      IF id \in new THEN [machine |-> sent[id], edges |-> {}]
                      ELSE IF id \in moved THEN [s.nodes[id] EXCEPT !.machine = sent[id]]
                      ELSE s.nodes[id]]
  <1>1. r.nodes = N /\ r.edges = s.edges /\ DOMAIN r = DOMAIN s
    <2> HIDE DEF N, new, moved
    <2>1. r = [s EXCEPT !.nodes = N, !.addedNodes = s.addedNodes \cup new,
                        !.removedNodes = s.removedNodes \ new,
                        !.touchedNodes = s.touchedNodes \cup moved]
      BY DEF UpsertNodes, N, new, moved
    <2> HIDE DEF r
    <2> QED BY <2>1 DEF IsStore
  <1>2. \A id \in DOMAIN s.nodes :
          s.nodes[id] \in [machine: Machines \cup {NoMachine}, edges: SUBSET EdgeIds]
    BY DEF IsStore
  <1>3. \A id \in DOMAIN sent : id \in NodeIds /\ sent[id] \in Machines \cup {NoMachine}
    BY DEF IsSent
  <1>4. \A id \in moved :
          /\ N[id].machine = sent[id] /\ N[id].edges = s.nodes[id].edges
          /\ N[id] \in [machine: Machines \cup {NoMachine}, edges: SUBSET EdgeIds]
    BY <1>2, <1>3
  <1>5. \A id \in DOMAIN s.nodes \ moved : N[id] = s.nodes[id]
    OBVIOUS
  <1>6. \A id \in new : N[id] = [machine |-> sent[id], edges |-> {}]
    OBVIOUS
  <1>7. DOMAIN N = DOMAIN s.nodes \cup DOMAIN sent
    OBVIOUS
  <1>8. N \in [DOMAIN N -> [machine: Machines \cup {NoMachine}, edges: SUBSET EdgeIds]]
    BY <1>2, <1>3, <1>4, <1>5, <1>6
  <1>9. IsStore(r)
    <2> HIDE DEF r, N
    <2> QED BY <1>1, <1>3, <1>7, <1>8 DEF IsStore
  <1>10. r.nodes = N /\ r.edges = s.edges
    <2> HIDE DEF r, N
    <2> QED BY <1>1
  <1>11. \A id \in DOMAIN s.nodes :
           /\ N[id].edges = s.nodes[id].edges
           /\ N[id].machine = IF id \in DOMAIN sent /\ sent[id] # NoMachine THEN sent[id]
                              ELSE s.nodes[id].machine
    <2> TAKE id \in DOMAIN s.nodes
    <2>1. CASE id \in moved  BY <2>1, <1>4
    <2>2. CASE id \notin moved  BY <2>2, <1>5
    <2> QED BY <2>1, <2>2
  <1> HIDE DEF r, N
  <1> QED BY <1>6, <1>7, <1>9, <1>10, <1>11 DEF NodesUpserted, r

(* New edges are indexed at both of their ends. *)
LEMMA UpsertEdgesLeaves ==
  ASSUME NEW s, IsStore(s), NEW sent \in SUBSET EdgeIds
  PROVE  EdgesUpserted(s, sent, UpsertEdges(s, sent))
  <1> DEFINE r == UpsertEdges(s, sent)
             new == sent \ s.edges
             N == [id \in DOMAIN s.nodes |->
                     [s.nodes[id] EXCEPT !.edges = s.nodes[id].edges \cup Touching(new, id)]]
  <1>1. r.nodes = N /\ r.edges = s.edges \cup new /\ DOMAIN r = DOMAIN s
    <2> HIDE DEF N, new
    <2>1. r = [s EXCEPT !.edges = s.edges \cup new, !.addedEdges = s.addedEdges \cup new,
                        !.removedEdges = s.removedEdges \ new, !.nodes = N]
      BY DEF UpsertEdges, N, new
    <2> HIDE DEF r
    <2> QED BY <2>1 DEF IsStore
  <1>2. \A id \in DOMAIN s.nodes :
          s.nodes[id] \in [machine: Machines \cup {NoMachine}, edges: SUBSET EdgeIds]
    BY DEF IsStore
  <1>3. \A id \in DOMAIN s.nodes :
          /\ N[id] \in [machine: Machines \cup {NoMachine}, edges: SUBSET EdgeIds]
          /\ N[id].machine = s.nodes[id].machine
          /\ N[id].edges = s.nodes[id].edges \cup Touching(new, id)
    BY <1>2 DEF Touching
  <1>4. DOMAIN N = DOMAIN s.nodes
    OBVIOUS
  <1>5. N \in [DOMAIN N -> [machine: Machines \cup {NoMachine}, edges: SUBSET EdgeIds]]
    BY <1>3
  <1>6. s.edges \cup new = s.edges \cup sent
    OBVIOUS
  <1>7. IsStore(r)
    <2> HIDE DEF r, N
    <2> QED BY <1>1, <1>4, <1>5, <1>6 DEF IsStore
  <1>8. r.nodes = N /\ r.edges = s.edges \cup sent
    <2> HIDE DEF r, N
    <2> QED BY <1>1, <1>6
  <1>9. \A id \in DOMAIN s.nodes :
          /\ N[id].machine = s.nodes[id].machine
          /\ N[id].edges = s.nodes[id].edges \cup Touching(sent \ s.edges, id)
    BY <1>3
  <1> HIDE DEF r, N
  <1> QED BY <1>4, <1>7, <1>8, <1>9 DEF EdgesUpserted, r

(* Removed edges are taken out of both ends' lists. *)
LEMMA RemoveEdgesLeaves ==
  ASSUME NEW s, IsStore(s), NEW ids
  PROVE  EdgesRemoved(s, ids, RemoveEdges(s, ids))
  <1> DEFINE r == RemoveEdges(s, ids)
             known == ids \cap s.edges
             N == [id \in DOMAIN s.nodes |->
                     [s.nodes[id] EXCEPT !.edges = s.nodes[id].edges \ known]]
  <1>1. r.nodes = N /\ r.edges = s.edges \ known /\ DOMAIN r = DOMAIN s
    <2> HIDE DEF N, known
    <2>1. r = [s EXCEPT !.edges = s.edges \ known, !.nodes = N,
                        !.addedEdges = s.addedEdges \ known,
                        !.removedEdges = s.removedEdges \cup (known \ s.addedEdges)]
      BY DEF RemoveEdges, N, known
    <2> HIDE DEF r
    <2> QED BY <2>1 DEF IsStore
  <1>2. \A id \in DOMAIN s.nodes :
          s.nodes[id] \in [machine: Machines \cup {NoMachine}, edges: SUBSET EdgeIds]
    BY DEF IsStore
  <1>3. \A id \in DOMAIN s.nodes :
          /\ N[id] \in [machine: Machines \cup {NoMachine}, edges: SUBSET EdgeIds]
          /\ N[id].machine = s.nodes[id].machine
          /\ N[id].edges = s.nodes[id].edges \ known
    BY <1>2
  <1>4. DOMAIN N = DOMAIN s.nodes
    OBVIOUS
  <1>5. N \in [DOMAIN N -> [machine: Machines \cup {NoMachine}, edges: SUBSET EdgeIds]]
    BY <1>3
  <1>6. s.edges \ known = s.edges \ ids
    OBVIOUS
  <1>7. IsStore(r)
    <2> HIDE DEF r, N, known
    <2> QED BY <1>1, <1>4, <1>5, <1>6 DEF IsStore
  <1>8. r.nodes = N /\ r.edges = s.edges \ ids
    <2> HIDE DEF r, N, known
    <2> QED BY <1>1, <1>6
  <1>9. \A id \in DOMAIN s.nodes :
          /\ N[id].machine = s.nodes[id].machine
          /\ N[id].edges = s.nodes[id].edges \ (ids \cap s.edges)
    BY <1>3
  <1> HIDE DEF r, N, known
  <1> QED BY <1>4, <1>7, <1>8, <1>9 DEF EdgesRemoved, r

(* The other nodes stay as they are. *)
LEMMA RemoveNodesLeaves ==
  ASSUME NEW s, IsStore(s), NEW ids
  PROVE  NodesRemoved(s, ids, RemoveNodes(s, ids))
  <1> DEFINE r == RemoveNodes(s, ids)
             known == ids \cap DOMAIN s.nodes
             N == [id \in DOMAIN s.nodes \ known |-> s.nodes[id]]
  <1>1. r.nodes = N /\ r.edges = s.edges /\ DOMAIN r = DOMAIN s
    <2> HIDE DEF N, known
    <2>1. r = [s EXCEPT !.nodes = N, !.touchedNodes = s.touchedNodes \ known,
                        !.addedNodes = s.addedNodes \ known,
                        !.removedNodes = s.removedNodes \cup (known \ s.addedNodes)]
      BY DEF RemoveNodes, N, known
    <2> HIDE DEF r
    <2> QED BY <2>1 DEF IsStore
  <1>2. \A id \in DOMAIN s.nodes :
          s.nodes[id] \in [machine: Machines \cup {NoMachine}, edges: SUBSET EdgeIds]
    BY DEF IsStore
  <1>3. DOMAIN N = DOMAIN s.nodes \ ids /\ \A id \in DOMAIN N : N[id] = s.nodes[id]
    OBVIOUS
  <1>4. N \in [DOMAIN N -> [machine: Machines \cup {NoMachine}, edges: SUBSET EdgeIds]]
    BY <1>2
  <1>5. IsStore(r)
    <2> HIDE DEF r, N
    <2> QED BY <1>1, <1>3, <1>4 DEF IsStore
  <1> HIDE DEF r, N
  <1> QED BY <1>1, <1>3, <1>5 DEF NodesRemoved, r

-----------------------------------------------------------------------------
(* The messages.                                                            *)

(* A snapshot leaves nothing of the old store in the new one. *)
LEMMA SnapshotMirrors ==
  ASSUME NEW s, IsStore(s), NEW g, IsServerGraph(g)
  PROVE  LET r == ApplySnapshot(s, g.nodes, g.edges) IN IsStore(r) /\ Mirrors(r, g)
  <1> DEFINE s1 == Discarded(s)
             s2 == UpsertNodes(s1, g.nodes)
             s3 == UpsertEdges(s2, g.edges)
             s4 == WithoutReadded(s3)
             r  == ApplySnapshot(s, g.nodes, g.edges)
  <1>1. IsStore(s1) /\ DOMAIN s1.nodes = {} /\ s1.edges = {}
    BY DEF Discarded, IsStore
  <1>2. /\ IsStore(s2) /\ s2.edges = {} /\ DOMAIN s2.nodes = DOMAIN g.nodes
        /\ \A id \in DOMAIN g.nodes : s2.nodes[id] = [machine |-> g.nodes[id], edges |-> {}]
    <2> HIDE DEF s1
    <2>1. NodesUpserted(s1, g.nodes, s2)  BY <1>1, UpsertNodesLeaves DEF IsServerGraph
    <2> HIDE DEF s2
    <2> QED BY <1>1, <2>1 DEF NodesUpserted
  <1>3. /\ IsStore(s3) /\ s3.edges = g.edges /\ DOMAIN s3.nodes = DOMAIN g.nodes
        /\ \A id \in DOMAIN g.nodes :
             /\ s3.nodes[id].machine = g.nodes[id]
             /\ s3.nodes[id].edges = Touching(g.edges, id)
    <2> HIDE DEF s2
    <2>1. g.edges \in SUBSET EdgeIds  BY DEF IsServerGraph
    <2>2. EdgesUpserted(s2, g.edges, s3)  BY <1>2, <2>1, UpsertEdgesLeaves
    <2> HIDE DEF s3
    <2>3. g.edges \ s2.edges = g.edges /\ s2.edges \cup g.edges = g.edges  BY <1>2
    <2>4. IsStore(s3) /\ s3.edges = g.edges /\ DOMAIN s3.nodes = DOMAIN g.nodes
      BY <1>2, <2>2, <2>3 DEF EdgesUpserted
    <2>5. ASSUME NEW id \in DOMAIN g.nodes
          PROVE  /\ s3.nodes[id].machine = g.nodes[id]
                 /\ s3.nodes[id].edges = Touching(g.edges, id)
      <3>1. s2.nodes[id] = [machine |-> g.nodes[id], edges |-> {}]  BY <1>2
      <3>2. /\ s3.nodes[id].machine = s2.nodes[id].machine
            /\ s3.nodes[id].edges = s2.nodes[id].edges \cup Touching(g.edges \ s2.edges, id)
        BY <1>2, <2>2, <2>5 DEF EdgesUpserted
      <3>3. s2.nodes[id].machine = g.nodes[id]  BY <3>1
      <3>4. s2.nodes[id].edges = {}  BY <3>1
      <3>5. s3.nodes[id].edges = {} \cup Touching(g.edges, id)  BY <2>3, <3>2, <3>4
      <3> QED BY <3>2, <3>3, <3>5
    <2> QED BY <2>4, <2>5
  <1>4. IsStore(s4) /\ s4.nodes = s3.nodes /\ s4.edges = s3.edges
    <2> HIDE DEF s3
    <2> QED BY <1>3 DEF WithoutReadded, IsStore
  <1>5. r = [s4 EXCEPT !.reset = TRUE]
    BY DEF ApplySnapshot
  <1>6. IsStore(r) /\ r.nodes = s4.nodes /\ r.edges = s4.edges
    <2> HIDE DEF s4, r
    <2> QED BY <1>4, <1>5 DEF IsStore
  <1> HIDE DEF s3, s4, r
  <1>7. Mirrors(r, g)  BY <1>3, <1>4, <1>6 DEF Mirrors
  <1> QED BY <1>6, <1>7 DEF r

(* A tick to the store of the last message makes it that of this one: what   *)
(* is sent is new or has changed, and no machine is ever taken back.        *)
LEMMA TickMirrors ==
  ASSUME NEW s, IsStore(s), NEW g, IsServerGraph(g), NEW h, IsServerGraph(h),
         Mirrors(s, g), KeepsMachines(g, h),
         NEW sent,
         sent = (DOMAIN h.nodes \ DOMAIN g.nodes)
                  \cup {id \in DOMAIN h.nodes \cap DOMAIN g.nodes : g.nodes[id] # h.nodes[id]},
         NEW gone,
         gone = [nodes |-> DOMAIN g.nodes \ DOMAIN h.nodes, edges |-> g.edges \ h.edges]
  PROVE  LET r == ApplyTick(s, [id \in sent |-> h.nodes[id]], h.edges \ g.edges, gone)
         IN  IsStore(r) /\ Mirrors(r, h)
  <1> DEFINE m  == [id \in sent |-> h.nodes[id]]
             s1 == UpsertNodes(s, m)
             s2 == UpsertEdges(s1, h.edges \ g.edges)
             s3 == RemoveEdges(s2, gone.edges)
             r  == RemoveNodes(s3, gone.nodes)
  <1>1. IsSent(m) /\ DOMAIN m = sent /\ \A id \in sent : m[id] = h.nodes[id]
    <2>1. \A id \in DOMAIN h.nodes : id \in NodeIds /\ h.nodes[id] \in Machines \cup {NoMachine}
      BY DEF IsServerGraph, IsSent
    <2> QED BY <2>1 DEF IsSent
  <1>2. NodesUpserted(s, m, s1)
    <2> HIDE DEF m
    <2> QED BY <1>1, UpsertNodesLeaves
  <1>3. EdgesUpserted(s1, h.edges \ g.edges, s2)
    <2> HIDE DEF s1
    <2>1. h.edges \ g.edges \in SUBSET EdgeIds  BY DEF IsServerGraph
    <2> QED BY <1>2, <2>1, UpsertEdgesLeaves DEF NodesUpserted
  <1>4. EdgesRemoved(s2, gone.edges, s3)
    <2> HIDE DEF s2
    <2> QED BY <1>3, RemoveEdgesLeaves DEF EdgesUpserted
  <1>5. NodesRemoved(s3, gone.nodes, r)
    <2> HIDE DEF s3
    <2> QED BY <1>4, RemoveNodesLeaves DEF EdgesRemoved
  <1> HIDE DEF m, s1, s2, s3, r
  <1> USE DEF NodesUpserted, EdgesUpserted, EdgesRemoved, NodesRemoved
  <1>6. gone.edges = g.edges \ h.edges /\ gone.nodes = DOMAIN g.nodes \ DOMAIN h.nodes
    OBVIOUS
  <1>7. DOMAIN r.nodes = DOMAIN h.nodes
    <2>1. DOMAIN s3.nodes = DOMAIN g.nodes \cup sent
      BY <1>1, <1>2, <1>3, <1>4 DEF Mirrors
    <2> QED BY <1>5, <1>6, <2>1
  <1>8. r.edges = h.edges
    <2>1. s1.edges = g.edges  BY <1>2 DEF Mirrors
    <2>2. s2.edges = g.edges \cup (h.edges \ g.edges)  BY <1>3, <2>1
    <2>3. r.edges = s2.edges \ (g.edges \ h.edges)  BY <1>4, <1>5, <1>6
    <2> QED BY <2>2, <2>3
  <1>9. ASSUME NEW id \in DOMAIN r.nodes  PROVE r.nodes[id].machine = h.nodes[id]
    <2>1. r.nodes[id].machine = s1.nodes[id].machine
      BY <1>2, <1>3, <1>4, <1>5, <1>7, <1>9
    <2>2. CASE id \notin DOMAIN g.nodes
      <3>1. id \in DOMAIN m \ DOMAIN s.nodes  BY <1>1, <1>7, <1>9, <2>2 DEF Mirrors
      <3>2. s1.nodes[id] = [machine |-> m[id], edges |-> {}]  BY <1>2, <3>1
      <3> QED BY <1>1, <2>1, <3>1, <3>2
    <2>3. CASE id \in DOMAIN g.nodes /\ g.nodes[id] = h.nodes[id]
      BY <1>1, <1>2, <1>7, <1>9, <2>1, <2>3 DEF Mirrors
    <2>4. CASE id \in DOMAIN g.nodes /\ g.nodes[id] # h.nodes[id]
      <3>1. id \in sent /\ s.nodes[id].machine = g.nodes[id]  BY <1>7, <1>9, <2>4 DEF Mirrors
      <3>2. h.nodes[id] # NoMachine  BY <1>7, <1>9, <2>4 DEF KeepsMachines
      <3> QED BY <1>1, <1>2, <2>1, <2>4, <3>1, <3>2 DEF Mirrors
    <2> QED BY <2>2, <2>3, <2>4
  <1>10. ASSUME NEW id \in DOMAIN r.nodes  PROVE r.nodes[id].edges = Touching(r.edges, id)
    <2>1. /\ r.nodes[id].edges = (s1.nodes[id].edges \cup Touching(h.edges \ g.edges, id))
                                  \ (g.edges \ h.edges)
      <3>1. s1.edges = g.edges /\ s2.edges = g.edges \cup h.edges  BY <1>2, <1>3 DEF Mirrors
      <3>2. /\ (h.edges \ g.edges) \ s1.edges = h.edges \ g.edges
            /\ gone.edges \cap s2.edges = g.edges \ h.edges
        BY <1>6, <3>1
      <3>3. id \in DOMAIN s1.nodes /\ id \in DOMAIN s2.nodes /\ id \in DOMAIN s3.nodes
        BY <1>3, <1>4, <1>5, <1>10
      <3>4. r.nodes[id].edges = s2.nodes[id].edges \ (gone.edges \cap s2.edges)
        BY <1>4, <1>5, <1>10, <3>3
      <3>5. s2.nodes[id].edges = s1.nodes[id].edges \cup Touching((h.edges \ g.edges) \ s1.edges, id)
        BY <1>3, <3>3
      <3> QED BY <3>2, <3>4, <3>5
    <2>2. s1.nodes[id].edges = Touching(g.edges, id)
      <3>1. CASE id \in DOMAIN g.nodes
        BY <1>2, <3>1 DEF Mirrors
      <3>2. CASE id \notin DOMAIN g.nodes
        <4>1. id \in DOMAIN m \ DOMAIN s.nodes  BY <1>1, <1>7, <1>10, <3>2 DEF Mirrors
        <4>2. s1.nodes[id] = [machine |-> m[id], edges |-> {}]  BY <1>2, <4>1
        <4>3. Touching(g.edges, id) = {}  BY <3>2 DEF Touching, IsServerGraph
        <4> QED BY <4>2, <4>3
      <3> QED BY <3>1, <3>2
    <2> QED BY <1>8, <2>1, <2>2 DEF Touching
  <1>11. Mirrors(r, h)  BY <1>7, <1>8, <1>9, <1>10 DEF Mirrors
  <1>12. ApplyTick(s, m, h.edges \ g.edges, gone) = r
    BY DEF ApplyTick, r, s3, s2, s1
  <1> USE DEF m
  <1> QED BY <1>5, <1>11, <1>12

-----------------------------------------------------------------------------
(* The specification.                                                       *)

LEMMA ServerGraphType == ASSUME NEW g \in ServerGraphs PROVE IsServerGraph(g)
  <1>1. g.nodes \in MachineMaps /\ g.edges \in SUBSET EdgeIds /\ ServerGraph(g)
    BY DEF ServerGraphs
  <1>2. PICK N \in SUBSET NodeIds : g.nodes \in [N -> Machines \cup {NoMachine}]
    BY <1>1 DEF MachineMaps
  <1>3. IsSent(g.nodes)  BY <1>2 DEF IsSent
  <1> QED BY <1>1, <1>3 DEF IsServerGraph, ServerGraph

(* A frame empties the lists of changes and leaves the graph alone. *)
LEMMA ConsumedKeeps ==
  ASSUME NEW s, IsStore(s)
  PROVE  IsStore(Consumed(s)) /\ Consumed(s).nodes = s.nodes /\ Consumed(s).edges = s.edges
  <1>1. /\ Consumed(s).nodes = s.nodes /\ Consumed(s).edges = s.edges
        /\ DOMAIN Consumed(s) = DOMAIN s
    BY DEF Consumed, IsStore
  <1> QED BY <1>1 DEF IsStore

LEMMA BrowserInvInit == Init => BrowserInv
  <1> SUFFICES ASSUME Init  PROVE BrowserInv
    OBVIOUS
  <1>1. state = EmptyStore /\ server = [nodes |-> <<>>, edges |-> {}]  BY DEF Init
  <1>2. DOMAIN <<>> = {}  OBVIOUS
  <1>3. IsStore(state)  BY <1>1, <1>2 DEF EmptyStore, IsStore
  <1>4. IsServerGraph(server)  BY <1>1, <1>2 DEF IsServerGraph, IsSent
  <1>5. Mirrors(state, server)  BY <1>1, <1>2 DEF EmptyStore, Mirrors
  <1> QED BY <1>3, <1>4, <1>5 DEF BrowserInv

LEMMA BrowserInvNext == BrowserInv /\ [Next]_vars => BrowserInv'
  <1> SUFFICES ASSUME BrowserInv, [Next]_vars  PROVE BrowserInv'
    OBVIOUS
  <1>1. IsStore(state) /\ IsServerGraph(server) /\ Mirrors(state, server)
    BY DEF BrowserInv
  <1>2. CASE ReceiveSnapshot
    <2>1. PICK g \in ServerGraphs :
            server' = g /\ state' = ApplySnapshot(state, g.nodes, g.edges)
      BY <1>2 DEF ReceiveSnapshot
    <2>2. IsServerGraph(g)  BY ServerGraphType
    <2>3. IsStore(state') /\ Mirrors(state', g)  BY <1>1, <2>1, <2>2, SnapshotMirrors
    <2> QED BY <2>1, <2>2, <2>3 DEF BrowserInv, IsStore, IsServerGraph, IsSent, Mirrors
  <1>3. CASE ReceiveTick
    <2>1. PICK g \in ServerGraphs :
            LET new  == DOMAIN g.nodes \ DOMAIN server.nodes
                sent == new \cup {id \in DOMAIN g.nodes \ new : server.nodes[id] # g.nodes[id]}
                gone == [nodes |-> DOMAIN server.nodes \ DOMAIN g.nodes,
                         edges |-> server.edges \ g.edges]
            IN  /\ KeepsMachines(server, g)
                /\ server' = g
                /\ state' = ApplyTick(state, [id \in sent |-> g.nodes[id]],
                                      g.edges \ server.edges, gone)
      BY <1>3 DEF ReceiveTick
    <2> DEFINE new  == DOMAIN g.nodes \ DOMAIN server.nodes
               sent == new \cup {id \in DOMAIN g.nodes \ new : server.nodes[id] # g.nodes[id]}
               gone == [nodes |-> DOMAIN server.nodes \ DOMAIN g.nodes,
                        edges |-> server.edges \ g.edges]
    <2>2. IsServerGraph(g)  BY ServerGraphType
    <2>3. sent = (DOMAIN g.nodes \ DOMAIN server.nodes)
                   \cup {id \in DOMAIN g.nodes \cap DOMAIN server.nodes :
                          server.nodes[id] # g.nodes[id]}
      OBVIOUS
    <2>4. IsStore(state') /\ Mirrors(state', g)
      BY <1>1, <2>1, <2>2, <2>3, TickMirrors
    <2> QED BY <2>1, <2>2, <2>4 DEF BrowserInv, IsStore, IsServerGraph, IsSent, Mirrors
  <1>4. CASE Disconnect
    BY <1>1, <1>4 DEF Disconnect, BrowserInv, IsStore, IsServerGraph, IsSent, Mirrors
  <1>5. CASE (\E refreshed \in BOOLEAN : Frame(refreshed)) \/ SwitchGrouping
    <2>1. state' = Consumed(state) /\ UNCHANGED server
      BY <1>5 DEF Frame, SwitchGrouping, ApplyChanges
    <2>2. IsStore(state') /\ state'.nodes = state.nodes /\ state'.edges = state.edges
      BY <1>1, <2>1, ConsumedKeeps
    <2> QED BY <1>1, <2>1, <2>2 DEF BrowserInv, IsStore, IsServerGraph, IsSent, Mirrors
  <1>6. CASE RefreshRates \/ UNCHANGED vars
    BY <1>1, <1>6 DEF RefreshRates, vars, BrowserInv, IsStore, IsServerGraph, IsSent, Mirrors
  <1> QED BY <1>2, <1>3, <1>4, <1>5, <1>6 DEF Next

(* Whatever the server's graphs are, and however messages, breaks of the     *)
(* connection and frames are mixed, the store is the graph of the last       *)
(* message, edges listed at both of their ends (graph-state.ts:85-229).     *)
THEOREM StoreIsServers == Spec => []StoreFollowsServer
  <1>1. BrowserInv => StoreFollowsServer
    BY DEF BrowserInv, Mirrors, StoreFollowsServer
  <1> QED BY <1>1, BrowserInvInit, BrowserInvNext, PTL DEF Spec

-----------------------------------------------------------------------------
(* What the store reports to the frame.                                     *)

HasFields(s) ==
  DOMAIN s = {"nodes", "edges", "addedNodes", "removedNodes", "addedEdges", "removedEdges",
              "touchedNodes", "reset"}

(* The frame that has drawn D will draw all edges of the store. *)
EdgesReported(s, D) == s.edges \subseteq (D \ s.removedEdges) \cup s.addedEdges

(* From the store s to the store r nothing is lost for the next frame:      *)
(* nodes that came are added, and those that moved are touched.             *)
Reports(s, r) ==
  /\ HasFields(r)
  /\ \A D : EdgesReported(s, D) => EdgesReported(r, D)
  /\ DOMAIN r.nodes \ r.addedNodes \subseteq DOMAIN s.nodes \ s.addedNodes
  /\ \A id \in DOMAIN s.nodes \cap DOMAIN r.nodes :
       /\ id \in s.touchedNodes => id \in r.touchedNodes
       /\ r.nodes[id].machine # s.nodes[id].machine =>
            id \in r.touchedNodes /\ r.nodes[id].machine # NoMachine

LEMMA ReportsCompose ==
  ASSUME NEW s, NEW r, NEW q, Reports(s, r), Reports(r, q), DOMAIN s.nodes \subseteq DOMAIN r.nodes
  PROVE  Reports(s, q)
  <1>1. \A D : EdgesReported(s, D) => EdgesReported(q, D)  BY DEF Reports
  <1>2. DOMAIN q.nodes \ q.addedNodes \subseteq DOMAIN s.nodes \ s.addedNodes  BY DEF Reports
  <1>3. ASSUME NEW id \in DOMAIN s.nodes \cap DOMAIN q.nodes
        PROVE  /\ id \in s.touchedNodes => id \in q.touchedNodes
               /\ q.nodes[id].machine # s.nodes[id].machine =>
                    id \in q.touchedNodes /\ q.nodes[id].machine # NoMachine
    <2>1. id \in DOMAIN s.nodes \cap DOMAIN r.nodes /\ id \in DOMAIN r.nodes \cap DOMAIN q.nodes
      OBVIOUS
    <2> QED BY <2>1 DEF Reports
  <1> QED BY <1>1, <1>2, <1>3 DEF Reports

LEMMA UpsertNodesReports ==
  ASSUME NEW s, IsStore(s), HasFields(s), NEW sent, IsSent(sent)
  PROVE  Reports(s, UpsertNodes(s, sent)) /\ DOMAIN s.nodes \subseteq DOMAIN UpsertNodes(s, sent).nodes
  <1> DEFINE r == UpsertNodes(s, sent)
             new == DOMAIN sent \ DOMAIN s.nodes
             moved == {id \in DOMAIN sent \cap DOMAIN s.nodes :
                         sent[id] \notin {NoMachine, s.nodes[id].machine}}
             N == [id \in DOMAIN s.nodes \cup new |->
                      IF id \in new THEN [machine |-> sent[id], edges |-> {}]
                      ELSE IF id \in moved THEN [s.nodes[id] EXCEPT !.machine = sent[id]]
                      ELSE s.nodes[id]]
  <1>1. /\ r.edges = s.edges /\ HasFields(r)
        /\ r.addedNodes = s.addedNodes \cup new /\ r.touchedNodes = s.touchedNodes \cup moved
        /\ r.addedEdges = s.addedEdges /\ r.removedEdges = s.removedEdges
    <2> HIDE DEF N, new, moved
    <2>1. r = [s EXCEPT !.nodes = N, !.addedNodes = s.addedNodes \cup new,
                        !.removedNodes = s.removedNodes \ new,
                        !.touchedNodes = s.touchedNodes \cup moved]
      BY DEF UpsertNodes, N, new, moved
    <2> HIDE DEF r
    <2> QED BY <2>1 DEF HasFields
  <1> HIDE DEF r
  <1>2. NodesUpserted(s, sent, r)  BY UpsertNodesLeaves DEF r
  <1>3. DOMAIN r.nodes = DOMAIN s.nodes \cup new  BY <1>2 DEF NodesUpserted
  <1>4. \A id \in DOMAIN s.nodes :
          r.nodes[id].machine # s.nodes[id].machine => id \in moved /\ r.nodes[id].machine # NoMachine
    BY <1>2 DEF NodesUpserted
  <1> HIDE DEF new, moved
  <1>5. \A D : EdgesReported(s, D) => EdgesReported(r, D)  BY <1>1 DEF EdgesReported
  <1>6. DOMAIN r.nodes \ r.addedNodes \subseteq DOMAIN s.nodes \ s.addedNodes  BY <1>1, <1>3
  <1> QED BY <1>1, <1>3, <1>4, <1>5, <1>6 DEF Reports, r

LEMMA UpsertEdgesReports ==
  ASSUME NEW s, IsStore(s), HasFields(s), NEW sent \in SUBSET EdgeIds
  PROVE  Reports(s, UpsertEdges(s, sent)) /\ DOMAIN s.nodes \subseteq DOMAIN UpsertEdges(s, sent).nodes
  <1> DEFINE r == UpsertEdges(s, sent)
             new == sent \ s.edges
             N == [id \in DOMAIN s.nodes |->
                     [s.nodes[id] EXCEPT !.edges = s.nodes[id].edges \cup Touching(new, id)]]
  <1>1. /\ r.edges = s.edges \cup new /\ HasFields(r)
        /\ r.addedNodes = s.addedNodes /\ r.touchedNodes = s.touchedNodes
        /\ r.addedEdges = s.addedEdges \cup new /\ r.removedEdges = s.removedEdges \ new
    <2> HIDE DEF N, new
    <2>1. r = [s EXCEPT !.edges = s.edges \cup new, !.addedEdges = s.addedEdges \cup new,
                        !.removedEdges = s.removedEdges \ new, !.nodes = N]
      BY DEF UpsertEdges, N, new
    <2> HIDE DEF r
    <2> QED BY <2>1 DEF HasFields
  <1> HIDE DEF r, new
  <1>2. EdgesUpserted(s, sent, r)  BY UpsertEdgesLeaves DEF r
  <1>3. /\ DOMAIN r.nodes = DOMAIN s.nodes
        /\ \A id \in DOMAIN s.nodes : r.nodes[id].machine = s.nodes[id].machine
    BY <1>2 DEF EdgesUpserted
  <1>4. \A D : EdgesReported(s, D) => EdgesReported(r, D)  BY <1>1 DEF EdgesReported
  <1> QED BY <1>1, <1>3, <1>4 DEF Reports, r

LEMMA RemoveEdgesReports ==
  ASSUME NEW s, IsStore(s), HasFields(s), NEW ids
  PROVE  Reports(s, RemoveEdges(s, ids)) /\ DOMAIN s.nodes \subseteq DOMAIN RemoveEdges(s, ids).nodes
  <1> DEFINE r == RemoveEdges(s, ids)
             known == ids \cap s.edges
             N == [id \in DOMAIN s.nodes |->
                     [s.nodes[id] EXCEPT !.edges = s.nodes[id].edges \ known]]
  <1>1. /\ r.edges = s.edges \ known /\ HasFields(r)
        /\ r.addedNodes = s.addedNodes /\ r.touchedNodes = s.touchedNodes
        /\ r.addedEdges = s.addedEdges \ known
        /\ r.removedEdges = s.removedEdges \cup (known \ s.addedEdges)
    <2> HIDE DEF N, known
    <2>1. r = [s EXCEPT !.edges = s.edges \ known, !.nodes = N,
                        !.addedEdges = s.addedEdges \ known,
                        !.removedEdges = s.removedEdges \cup (known \ s.addedEdges)]
      BY DEF RemoveEdges, N, known
    <2> HIDE DEF r
    <2> QED BY <2>1 DEF HasFields
  <1> HIDE DEF r, known
  <1>2. EdgesRemoved(s, ids, r)  BY RemoveEdgesLeaves DEF r
  <1>3. /\ DOMAIN r.nodes = DOMAIN s.nodes
        /\ \A id \in DOMAIN s.nodes : r.nodes[id].machine = s.nodes[id].machine
    BY <1>2 DEF EdgesRemoved
  <1>4. \A D : EdgesReported(s, D) => EdgesReported(r, D)  BY <1>1 DEF EdgesReported
  <1> QED BY <1>1, <1>3, <1>4 DEF Reports, r

LEMMA RemoveNodesReports ==
  ASSUME NEW s, IsStore(s), HasFields(s), NEW ids
  PROVE  Reports(s, RemoveNodes(s, ids))
  <1> DEFINE r == RemoveNodes(s, ids)
             known == ids \cap DOMAIN s.nodes
             N == [id \in DOMAIN s.nodes \ known |-> s.nodes[id]]
  <1>1. /\ r.edges = s.edges /\ HasFields(r)
        /\ r.addedNodes = s.addedNodes \ known /\ r.touchedNodes = s.touchedNodes \ known
        /\ r.addedEdges = s.addedEdges /\ r.removedEdges = s.removedEdges
    <2> HIDE DEF N, known
    <2>1. r = [s EXCEPT !.nodes = N, !.touchedNodes = s.touchedNodes \ known,
                        !.addedNodes = s.addedNodes \ known,
                        !.removedNodes = s.removedNodes \cup (known \ s.addedNodes)]
      BY DEF RemoveNodes, N, known
    <2> HIDE DEF r
    <2> QED BY <2>1 DEF HasFields
  <1> HIDE DEF r
  <1>2. NodesRemoved(s, ids, r)  BY RemoveNodesLeaves DEF r
  <1>3. /\ DOMAIN r.nodes = DOMAIN s.nodes \ known
        /\ \A id \in DOMAIN r.nodes : r.nodes[id] = s.nodes[id]
    BY <1>2 DEF NodesRemoved
  <1> HIDE DEF known
  <1>4. \A D : EdgesReported(s, D) => EdgesReported(r, D)  BY <1>1 DEF EdgesReported
  <1> QED BY <1>1, <1>3, <1>4 DEF Reports, r

(* After a tick every change since the last frame is still reported. *)
LEMMA TickReports ==
  ASSUME NEW s, IsStore(s), HasFields(s), NEW sent, IsSent(sent), NEW new \in SUBSET EdgeIds, NEW gone
  PROVE  Reports(s, ApplyTick(s, sent, new, gone))
  <1> DEFINE s1 == UpsertNodes(s, sent)
             s2 == UpsertEdges(s1, new)
             s3 == RemoveEdges(s2, gone.edges)
             r  == RemoveNodes(s3, gone.nodes)
  <1>1. IsStore(s1) /\ Reports(s, s1) /\ DOMAIN s.nodes \subseteq DOMAIN s1.nodes
    BY UpsertNodesReports, UpsertNodesLeaves DEF NodesUpserted
  <1> HIDE DEF s1
  <1>2. IsStore(s2) /\ Reports(s1, s2) /\ DOMAIN s1.nodes \subseteq DOMAIN s2.nodes
    <2>1. HasFields(s1)  BY <1>1 DEF Reports
    <2>2. Reports(s1, s2) /\ DOMAIN s1.nodes \subseteq DOMAIN s2.nodes
      BY <1>1, <2>1, UpsertEdgesReports
    <2>3. EdgesUpserted(s1, new, s2)  BY <1>1, UpsertEdgesLeaves
    <2>4. IsStore(s2)  BY <2>3 DEF EdgesUpserted
    <2> QED BY <2>2, <2>4
  <1> HIDE DEF s2
  <1>3. IsStore(s3) /\ Reports(s2, s3) /\ DOMAIN s2.nodes \subseteq DOMAIN s3.nodes
    BY <1>2, RemoveEdgesReports, RemoveEdgesLeaves DEF EdgesRemoved, Reports
  <1> HIDE DEF s3
  <1>4. Reports(s3, r)  BY <1>3, RemoveNodesReports DEF Reports
  <1> HIDE DEF r
  <1>5. Reports(s, s2)  BY <1>1, <1>2, ReportsCompose
  <1>6. Reports(s, s3)  BY <1>1, <1>2, <1>3, <1>5, ReportsCompose
  <1>7. Reports(s, r)  BY <1>1, <1>2, <1>3, <1>4, <1>6, ReportsCompose
  <1>8. ApplyTick(s, sent, new, gone) = r  BY DEF ApplyTick, r, s3, s2, s1
  <1> QED BY <1>7, <1>8

(* After a snapshot everything is reported as new. *)
LEMMA SnapshotReports ==
  ASSUME NEW s, IsStore(s), HasFields(s), NEW sent, IsSent(sent), NEW E \in SUBSET EdgeIds
  PROVE  LET r == ApplySnapshot(s, sent, E)
         IN  HasFields(r) /\ r.addedNodes = DOMAIN sent /\ r.addedEdges = E /\ r.edges = E
  <1> DEFINE s1 == Discarded(s)
             s2 == UpsertNodes(s1, sent)
             s3 == UpsertEdges(s2, E)
             s4 == WithoutReadded(s3)
             r  == ApplySnapshot(s, sent, E)
  <1>1. /\ HasFields(s1) /\ DOMAIN s1.nodes = {} /\ s1.edges = {}
        /\ s1.addedNodes = {} /\ s1.addedEdges = {}
    BY DEF Discarded, HasFields
  <1> HIDE DEF s1
  <1>2. /\ HasFields(s2) /\ s2.addedNodes = DOMAIN sent /\ s2.removedNodes \cap DOMAIN sent = {}
        /\ s2.edges = {} /\ s2.addedEdges = {}
    <2> DEFINE new == DOMAIN sent \ DOMAIN s1.nodes
               moved == {id \in DOMAIN sent \cap DOMAIN s1.nodes :
                           sent[id] \notin {NoMachine, s1.nodes[id].machine}}
               N == [id \in DOMAIN s1.nodes \cup new |->
                        IF id \in new THEN [machine |-> sent[id], edges |-> {}]
                        ELSE IF id \in moved THEN [s1.nodes[id] EXCEPT !.machine = sent[id]]
                        ELSE s1.nodes[id]]
    <2>1. new = DOMAIN sent  BY <1>1
    <2> HIDE DEF N, new, moved
    <2>2. s2 = [s1 EXCEPT !.nodes = N, !.addedNodes = s1.addedNodes \cup new,
                          !.removedNodes = s1.removedNodes \ new,
                          !.touchedNodes = s1.touchedNodes \cup moved]
      BY DEF UpsertNodes, N, new, moved
    <2> HIDE DEF s2
    <2> QED BY <1>1, <2>1, <2>2 DEF HasFields
  <1> HIDE DEF s2
  <1>3. /\ HasFields(s3) /\ s3.edges = E /\ s3.addedEdges = E /\ s3.removedEdges \cap E = {}
        /\ s3.addedNodes = s2.addedNodes /\ s3.removedNodes = s2.removedNodes
    <2> DEFINE new == E \ s2.edges
               N == [id \in DOMAIN s2.nodes |->
                       [s2.nodes[id] EXCEPT !.edges = s2.nodes[id].edges \cup Touching(new, id)]]
    <2>1. new = E  BY <1>2
    <2> HIDE DEF N, new
    <2>2. s3 = [s2 EXCEPT !.edges = s2.edges \cup new, !.addedEdges = s2.addedEdges \cup new,
                          !.removedEdges = s2.removedEdges \ new, !.nodes = N]
      BY DEF UpsertEdges, N, new
    <2> HIDE DEF s3
    <2> QED BY <1>2, <2>1, <2>2 DEF HasFields
  <1> HIDE DEF s3
  <1>4. /\ HasFields(s4) /\ s4.edges = E /\ s4.addedEdges = E /\ s4.addedNodes = DOMAIN sent
    <2>1. s3.addedNodes \cap s3.removedNodes = {} /\ s3.addedEdges \cap s3.removedEdges = {}
      BY <1>2, <1>3
    <2>2. s4 = [s3 EXCEPT !.addedNodes = s3.addedNodes \ {}, !.removedNodes = s3.removedNodes \ {},
                          !.addedEdges = s3.addedEdges \ {}, !.removedEdges = s3.removedEdges \ {}]
      BY <2>1 DEF WithoutReadded
    <2> HIDE DEF s4
    <2> QED BY <1>2, <1>3, <2>2 DEF HasFields
  <1>5. r = [s4 EXCEPT !.reset = TRUE]  BY DEF ApplySnapshot, s4, s3, s2, s1
  <1> HIDE DEF s4, r
  <1>6. HasFields(r) /\ r.addedNodes = DOMAIN sent /\ r.addedEdges = E /\ r.edges = E
    BY <1>4, <1>5 DEF HasFields
  <1> QED BY <1>6 DEF r

-----------------------------------------------------------------------------
(* What is drawn.                                                           *)

SameIn(f, e, by) ==
  {Src[e], Dst[e]} \subseteq Workloads /\ GroupOf(f, Src[e], by) = GroupOf(f, Dst[e], by)

(* f is the map of nodes that the last membership pass saw: what the store   *)
(* has now differs in what is reported, and by namespace machines are of no *)
(* interest.                                                                *)
PassSaw(f) ==
  /\ targets = Targets(f, groupBy)
  /\ platforms = [g \in Groups(f, groupBy) |-> groupBy]
  /\ DOMAIN state.nodes \subseteq DOMAIN f \cup state.addedNodes
  /\ groupBy = "machine" =>
       \A id \in DOMAIN state.nodes \ (state.addedNodes \cup state.touchedNodes) :
         f[id].machine = state.nodes[id].machine
  /\ \A e \in edges \ passedBy : e \in same <=> SameIn(f, e, groupBy)

(* Only edges are drawn as edges. *)
DrawnEdges == edges \subseteq EdgeIds /\ \A e \in edges : batch[e] \in Batches

SlotTypes ==
  /\ HasFields(state)
  /\ DOMAIN nodes \subseteq NodeIds
  /\ DrawnEdges
  /\ groupBy \in {"namespace", "machine"}

(* Nodes without a slot are reported, unless the pool is used up. *)
NodesReported ==
  /\ Cardinality(DOMAIN nodes) <= Capacity
  /\ \/ DOMAIN state.nodes \ state.addedNodes \subseteq DOMAIN nodes
     \/ Cardinality(DOMAIN nodes) = Capacity

(* A slot that is not told of its node's machine is passed by. *)
SlotsTold ==
  \A id \in (DOMAIN nodes \cap DOMAIN state.nodes) \ (passedBy \cup Moved) :
    nodes[id] = state.nodes[id].machine

SlotInv ==
  /\ SlotTypes
  /\ EdgesReported(state, edges \cup refused)
  /\ NodesReported
  /\ SlotsTold
  /\ \E f : PassSaw(f)

(* The layout of two maps that differ only in what the grouping ignores. *)
LEMMA SameLayout ==
  ASSUME NEW f, NEW g, NEW by, DOMAIN f = DOMAIN g,
         by # "namespace" => \A id \in DOMAIN f : f[id].machine = g[id].machine
  PROVE  /\ Targets(f, by) = Targets(g, by) /\ Groups(f, by) = Groups(g, by)
         /\ \A id \in DOMAIN f : GroupOf(f, id, by) = GroupOf(g, id, by)
  <1>1. \A id \in DOMAIN f : GroupOf(f, id, by) = GroupOf(g, id, by)
    BY DEF GroupOf
  <1>2. \A kind : OfKind(f, kind) = OfKind(g, kind)  BY DEF OfKind
  <1>3. Entities(f) = Entities(g)  BY DEF Entities
  <1>4. \A p : Members(f, p, by) = Members(g, p, by)
    <2>1. OfKind(f, "workload") \subseteq DOMAIN f  BY DEF OfKind
    <2> QED BY <1>1, <1>2, <2>1 DEF Members
  <1>5. Groups(f, by) = Groups(g, by)
    <2>1. OfKind(f, "workload") \subseteq DOMAIN f  BY DEF OfKind
    <2> QED BY <1>1, <1>2, <2>1 DEF Groups
  <1>6. \A p : RingPosition(f, p, by) = RingPosition(g, p, by)
    BY <1>5, Zenon DEF RingPosition
  <1>7. \A id \in DOMAIN f : OnPlatform(f, id, by) = OnPlatform(g, id, by)
    BY <1>1, <1>4, <1>5, <1>6, Zenon DEF OnPlatform
  <1>8. \A id : OutsideTheRing(f, id) = OutsideTheRing(g, id)
    <2> TAKE id
    <2> DEFINE Out(S, others) ==
          LET k == Position(id, S)
              n == Cardinality(S)
          IN  CASE Kind[id] = "machine"     -> [at |-> "back", k |-> k, n |-> n]
                [] Kind[id] = "world"       -> IF k >= MaxWorld THEN [at |-> "crowd"]
                                               ELSE [at |-> "front", k |-> k,
                                                     n |-> IF n < MaxWorld THEN n ELSE MaxWorld]
                [] Kind[id] \in FixedAngles -> [at |-> Kind[id]]
                [] OTHER                    -> [at |-> "side", k |-> Position(id, others)]
    <2>1. /\ OutsideTheRing(f, id) = Out(OfKind(f, Kind[id]), Entities(f))
          /\ OutsideTheRing(g, id) = Out(OfKind(g, Kind[id]), Entities(g))
      BY DEF OutsideTheRing
    <2>2. OfKind(f, Kind[id]) = OfKind(g, Kind[id])  BY <1>2
    <2> HIDE DEF Out
    <2> QED BY <1>3, <2>1, <2>2, Zenon
  <1>9. Targets(f, by) = Targets(g, by)
    BY <1>7, <1>8, Zenon DEF Targets
  <1> QED BY <1>1, <1>5, <1>9

LEMMA ConsumedEmpties ==
  ASSUME NEW s, HasFields(s)
  PROVE  /\ HasFields(Consumed(s))
         /\ Consumed(s).nodes = s.nodes /\ Consumed(s).edges = s.edges
         /\ Consumed(s).addedNodes = {} /\ Consumed(s).touchedNodes = {}
         /\ Consumed(s).addedEdges = {} /\ Consumed(s).removedEdges = {}
  BY DEF Consumed, HasFields

(* Adding as many as there is room for uses up the pool or leaves nobody out. *)
LEMMA PassFills ==
  ASSUME NEW N \in SUBSET NodeIds, NEW M \in SUBSET NodeIds, NEW T,
         Cardinality(N) <= Capacity, T \subseteq M \ N,
         Cardinality(T) = IF Cardinality(M \ N) < Capacity - Cardinality(N)
                          THEN Cardinality(M \ N) ELSE Capacity - Cardinality(N)
  PROVE  /\ Cardinality(N \cup T) <= Capacity
         /\ M \subseteq N \cup T \/ Cardinality(N \cup T) = Capacity
  <1> DEFINE missing == M \ N
  <1>1. IsFiniteSet(N) /\ IsFiniteSet(missing) /\ IsFiniteSet(T)
    BY BrowserAssumption, FS_Subset
  <1>2. /\ Cardinality(N) \in Nat /\ Cardinality(missing) \in Nat /\ Cardinality(T) \in Nat
        /\ Capacity \in Nat
    BY <1>1, FS_CardinalityType, BrowserAssumption
  <1>3. Cardinality(N \cup T) = Cardinality(N) + Cardinality(T)
    <2>1. N \cap T = {}  OBVIOUS
    <2>2. Cardinality(N \cup T) = Cardinality(N) + Cardinality(T) - Cardinality(N \cap T)
      BY <1>1, FS_Union
    <2>3. Cardinality(N \cap T) = 0  BY <2>1, FS_EmptySet
    <2> QED BY <1>2, <2>2, <2>3
  <1>4. CASE Cardinality(missing) < Capacity - Cardinality(N)
    <2>1. Cardinality(T) = Cardinality(missing)  BY <1>4
    <2>2. T = missing  BY <1>1, <2>1, FS_Subset
    <2>3. M \subseteq N \cup T  BY <2>2
    <2> QED BY <1>2, <1>3, <1>4, <2>1, <2>3
  <1>5. CASE ~(Cardinality(missing) < Capacity - Cardinality(N))
    <2>1. Cardinality(T) = Capacity - Cardinality(N)  BY <1>5
    <2> QED BY <1>2, <1>3, <2>1
  <1> QED BY <1>4, <1>5

LEMMA SlotInvInit == Init => SlotInv
  <1> SUFFICES ASSUME Init  PROVE SlotInv
    OBVIOUS
  <1>1. /\ state = EmptyStore /\ nodes = <<>> /\ edges = {} /\ same = {}
        /\ groupBy = "namespace" /\ targets = <<>> /\ platforms = <<>>
    BY DEF Init, edges
  <1>2. DOMAIN <<>> = {}
    OBVIOUS
  <1>3. /\ HasFields(state) /\ state.nodes = <<>> /\ state.edges = {} /\ state.addedNodes = {}
    BY <1>1 DEF EmptyStore, HasFields
  <1>4. SlotTypes  BY <1>1, <1>2, <1>3 DEF SlotTypes, DrawnEdges
  <1>5. EdgesReported(state, edges \cup refused)  BY <1>3 DEF EdgesReported
  <1>6. NodesReported
    <2>1. Cardinality(DOMAIN nodes) = 0  BY <1>1, <1>2, FS_EmptySet
    <2> QED BY <1>2, <1>3, <2>1, BrowserAssumption DEF NodesReported
  <1>7. SlotsTold  BY <1>1, <1>2 DEF SlotsTold
  <1>8. PassSaw(<<>>)
    <2>1. \A F : (\A x \in DOMAIN F : FALSE) /\ F = [x \in DOMAIN F |-> F[x]] => F = <<>>
      BY <1>2
    <2>2. Targets(<<>>, groupBy) = <<>>
      <3>1. DOMAIN Targets(<<>>, groupBy) = {}
            /\ Targets(<<>>, groupBy) = [x \in {} |-> Targets(<<>>, groupBy)[x]]
        BY <1>2, Zenon DEF Targets
      <3> QED BY <2>1, <3>1
    <2>3. Groups(<<>>, groupBy) = {}  BY <1>2 DEF Groups, OfKind
    <2>4. [g \in Groups(<<>>, groupBy) |-> groupBy] = <<>>  BY <2>3
    <2> QED BY <1>1, <1>2, <1>3, <2>2, <2>4 DEF PassSaw
  <1> QED BY <1>4, <1>5, <1>6, <1>7, <1>8 DEF SlotInv

(* The messages leave the slots alone, and report what they change. *)
LEMMA MessageKeepsSlots ==
  ASSUME BrowserInv, SlotInv, ReceiveSnapshot \/ ReceiveTick \/ Disconnect
  PROVE  SlotInv'
  <1> USE DEF SlotInv
  <1>1. IsStore(state) /\ IsServerGraph(server) /\ Mirrors(state, server) /\ HasFields(state)
    BY DEF BrowserInv, SlotTypes
  <1>2. UNCHANGED <<nodes, batch, edges, same, groupBy, targets, platforms, refused>>
    BY DEF ReceiveSnapshot, ReceiveTick, Disconnect, slots, arrangement, edges
  <1>3. PICK f : PassSaw(f)
    OBVIOUS
  <1>4. CASE Disconnect
    <2>1. UNCHANGED <<state, passedBy>>  BY <1>4 DEF Disconnect
    <2>2. PassSaw(f)'  BY <1>2, <1>3, <2>1 DEF PassSaw
    <2>3. Moved' = Moved  BY <2>1 DEF Moved
    <2>4. SlotTypes' /\ EdgesReported(state, edges \cup refused)' /\ NodesReported' /\ SlotsTold'
      BY <1>2, <2>1, <2>3 DEF SlotTypes, DrawnEdges, HasFields, EdgesReported, NodesReported, SlotsTold
    <2> QED BY <2>2, <2>4
  <1>5. CASE ReceiveSnapshot
    <2>1. PICK g \in ServerGraphs :
            state' = ApplySnapshot(state, g.nodes, g.edges) /\ passedBy' = PassedBy(g.nodes)
      BY <1>5 DEF ReceiveSnapshot
    <2>2. IsServerGraph(g)  BY ServerGraphType
    <2>3. Mirrors(state', g)  BY <1>1, <2>1, <2>2, SnapshotMirrors
    <2>4. /\ HasFields(state') /\ state'.addedNodes = DOMAIN g.nodes
          /\ state'.addedEdges = g.edges /\ state'.edges = g.edges
      <3>1. IsSent(g.nodes) /\ g.edges \in SUBSET EdgeIds  BY <2>2 DEF IsServerGraph
      <3> QED BY <1>1, <2>1, <3>1, SnapshotReports
    <2>5. SlotTypes'  BY <1>2, <2>4 DEF SlotTypes, DrawnEdges
    <2>6. EdgesReported(state, edges \cup refused)'  BY <2>4 DEF EdgesReported
    <2>7. NodesReported'  BY <1>2, <2>3, <2>4 DEF NodesReported, Mirrors
    <2>8. SlotsTold'  BY <1>2, <2>1, <2>3 DEF SlotsTold, Mirrors, PassedBy
    <2>9. PassSaw(f)'
      <3>1. DOMAIN state'.nodes = state'.addedNodes  BY <2>3, <2>4 DEF Mirrors
      <3>2. \A e \in edges : e \in passedBy => e \in passedBy'
        <4>1. edges \cap DOMAIN g.nodes = {}
          BY <2>2, BrowserAssumption DEF SlotTypes, DrawnEdges, IsServerGraph, IsSent
        <4> QED BY <2>1, <4>1 DEF PassedBy
      <3> QED BY <1>2, <1>3, <3>1, <3>2 DEF PassSaw
    <2> QED BY <2>5, <2>6, <2>7, <2>8, <2>9
  <1>6. CASE ReceiveTick
    <2>1. PICK g \in ServerGraphs :
            LET new  == DOMAIN g.nodes \ DOMAIN server.nodes
                sent == new \cup {id \in DOMAIN g.nodes \ new : server.nodes[id] # g.nodes[id]}
                gone == [nodes |-> DOMAIN server.nodes \ DOMAIN g.nodes,
                         edges |-> server.edges \ g.edges]
            IN  /\ server' = g
                /\ state' = ApplyTick(state, [id \in sent |-> g.nodes[id]],
                                      g.edges \ server.edges, gone)
                /\ passedBy' = PassedBy([id \in new |-> g.nodes[id]])
      BY <1>6 DEF ReceiveTick
    <2> DEFINE new  == DOMAIN g.nodes \ DOMAIN server.nodes
               sent == new \cup {id \in DOMAIN g.nodes \ new : server.nodes[id] # g.nodes[id]}
               gone == [nodes |-> DOMAIN server.nodes \ DOMAIN g.nodes,
                        edges |-> server.edges \ g.edges]
               m == [id \in sent |-> g.nodes[id]]
               back == [id \in new |-> g.nodes[id]]
    <2>2. IsServerGraph(g)  BY ServerGraphType
    <2>3. Mirrors(state', g)
      <3>1. BrowserInv'  BY <1>6, BrowserInvNext DEF Next
      <3> QED BY <2>1, <3>1 DEF BrowserInv, Mirrors
    <2>4. Reports(state, state')
      <3>1. \A id \in DOMAIN g.nodes : id \in NodeIds /\ g.nodes[id] \in Machines \cup {NoMachine}
        BY <2>2 DEF IsServerGraph, IsSent
      <3>2. IsSent(m)  BY <3>1 DEF IsSent
      <3>3. g.edges \ server.edges \in SUBSET EdgeIds  BY <2>2 DEF IsServerGraph
      <3> HIDE DEF m, gone
      <3>4. Reports(state, ApplyTick(state, m, g.edges \ server.edges, gone))
        BY <1>1, <3>2, <3>3, TickReports
      <3> QED BY <2>1, <3>4 DEF m, gone
    <2>5. passedBy' = (passedBy \ new) \cup {id \in new \cap DOMAIN nodes : nodes[id] # g.nodes[id]}
      <3>1. DOMAIN back = new /\ \A id \in new : back[id] = g.nodes[id]
        OBVIOUS
      <3>2. passedBy' = PassedBy(back)  BY <2>1
      <3> HIDE DEF back
      <3> QED BY <3>1, <3>2 DEF PassedBy
    <2> HIDE DEF new, sent, gone, m, back
    <2>6. SlotTypes'  BY <1>2, <2>4 DEF SlotTypes, DrawnEdges, Reports
    <2>7. EdgesReported(state, edges \cup refused)'  BY <1>2, <2>4 DEF Reports
    <2>8. NodesReported'  BY <1>2, <2>4 DEF NodesReported, Reports
    <2>9. DOMAIN state'.nodes = DOMAIN g.nodes /\ DOMAIN state.nodes = DOMAIN server.nodes
          /\ \A id \in DOMAIN g.nodes : state'.nodes[id].machine = g.nodes[id]
      BY <1>1, <2>3 DEF Mirrors
    <2>10. SlotsTold'
      <3> SUFFICES ASSUME NEW id \in (DOMAIN nodes \cap DOMAIN state'.nodes) \ (passedBy' \cup Moved')
                   PROVE  nodes[id] = state'.nodes[id].machine
        BY <1>2 DEF SlotsTold
      <3>1. CASE id \in new  BY <2>5, <2>9, <3>1
      <3>2. CASE id \notin new
        <4>1. id \in DOMAIN state.nodes \cap DOMAIN state'.nodes  BY <2>9, <3>2 DEF new
        <4>2. state'.nodes[id].machine = state.nodes[id].machine
          BY <2>4, <4>1 DEF Reports, Moved
        <4>3. id \notin Moved  BY <2>4, <4>1, <4>2 DEF Reports, Moved
        <4>4. id \notin passedBy  BY <2>5, <3>2
        <4> QED BY <4>1, <4>2, <4>3, <4>4 DEF SlotsTold
      <3> QED BY <3>1, <3>2
    <2>11. PassSaw(f)'
      <3>1. \A e \in edges : e \in passedBy => e \in passedBy'
        <4>1. edges \cap new = {}
          BY <2>2, BrowserAssumption DEF SlotTypes, DrawnEdges, IsServerGraph, IsSent, new
        <4> QED BY <2>5, <4>1
      <3>2. DOMAIN state'.nodes \subseteq DOMAIN f \cup state'.addedNodes
        BY <1>3, <2>4 DEF PassSaw, Reports
      <3>3. ASSUME groupBy = "machine",
                   NEW id \in DOMAIN state'.nodes \ (state'.addedNodes \cup state'.touchedNodes)
            PROVE  f[id].machine = state'.nodes[id].machine
        <4>1. id \in DOMAIN state.nodes \ state.addedNodes  BY <2>4, <3>3 DEF Reports
        <4>2. id \notin state.touchedNodes /\ state'.nodes[id].machine = state.nodes[id].machine
          BY <2>4, <3>3, <4>1 DEF Reports
        <4> QED BY <1>3, <3>3, <4>1, <4>2 DEF PassSaw
      <3> QED BY <1>2, <1>3, <3>1, <3>2, <3>3 DEF PassSaw
    <2> QED BY <2>6, <2>7, <2>8, <2>10, <2>11
  <1> QED BY <1>4, <1>5, <1>6

(* setRate moves edges between the batches, or loses them. *)
LEMMA RerateKeeps ==
  ASSUME NEW B, NEW C \in Rerated(B)
  PROVE  DOMAIN C \subseteq DOMAIN B /\ \A e \in DOMAIN C : C[e] \in Batches
  <1>1. PICK K \in [DOMAIN B -> Batches \cup {NoBatch}] :
          C = [e \in {x \in DOMAIN B : K[x] # NoBatch} |-> K[e]]
    BY DEF Rerated
  <1> QED BY <1>1

(* What a frame and a switch of the grouping do to the slots.  A frame       *)
(* without a pass finds nothing that a pass would have changed.             *)
LEMMA ApplyKeepsSlots ==
  ASSUME BrowserInv, SlotInv, NEW dirty \in BOOLEAN, NEW by \in {"namespace", "machine"},
         NEW refreshed \in BOOLEAN,
         ~dirty => by = groupBy /\ ~MembershipDirty(by),
         ApplyChanges(dirty, by, refreshed)
  PROVE  SlotInv'
  <1> USE DEF SlotInv
  <1> DEFINE N == [id \in DOMAIN nodes \ state.removedNodes |->
                     IF id \in Moved THEN state.nodes[id].machine ELSE nodes[id]]
             E == edges \ state.removedEdges
             M == (state.addedEdges \cap state.edges) \ E
             S == IF dirty THEN E \cap state.edges ELSE {}
             Placed(A) == [e \in E \cup A |-> IF e \in A THEN 0 ELSE batch[e]]
  <1>0. PICK A \in AdmissibleEdges(M, E) :
          /\ batch' \in IF refreshed THEN Rerated(Placed(A)) ELSE {Placed(A)}
          /\ same' = edges' \cap ((same \cap (E \ S)) \cup {e \in S \cup A : SamePlatform(e, by)})
          /\ refused' = (refused \cup M \cup E) \cap (state.edges \ edges')
    BY Zenon DEF ApplyChanges
  <1>1. /\ passedBy' = ((passedBy \ Moved) \cap DOMAIN N)
                         \cup (edges' \cap IF dirty THEN E \ S ELSE passedBy \cap E)
        /\ groupBy' = by
        /\ state' = Consumed(state)
    BY Zenon DEF ApplyChanges
  <1>2. /\ dirty => /\ targets' = Targets(state.nodes, by)
                    /\ platforms' = Synced(platforms, Groups(state.nodes, by), by)
                    /\ \E T \in Admissible(N) :
                         nodes' = [id \in DOMAIN N \cup T |->
                                     IF id \in T THEN state.nodes[id].machine ELSE N[id]]
        /\ ~dirty => nodes' = N /\ UNCHANGED <<targets, platforms>>
    BY DEF ApplyChanges, Pass
  <1>3. /\ DOMAIN N = DOMAIN nodes \ state.removedNodes
        /\ \A id \in DOMAIN N : N[id] = IF id \in Moved THEN state.nodes[id].machine ELSE nodes[id]
    OBVIOUS
  <1>4. HasFields(state) /\ DOMAIN nodes \subseteq NodeIds /\ edges \subseteq EdgeIds
    BY DEF SlotTypes, DrawnEdges
  <1>5. DOMAIN state.nodes \subseteq NodeIds /\ state.edges \subseteq EdgeIds
    BY DEF BrowserInv, IsStore
  <1>6. /\ HasFields(state') /\ state'.nodes = state.nodes /\ state'.edges = state.edges
        /\ state'.addedNodes = {} /\ state'.touchedNodes = {}
        /\ state'.addedEdges = {} /\ state'.removedEdges = {}
    BY <1>1, <1>4, ConsumedEmpties
  <1>7. ~dirty => /\ state.addedNodes = {} /\ state.removedNodes = {}
                  /\ state.touchedNodes = {} \/ by = "namespace"
    BY DEF MembershipDirty
  <1>13. A \subseteq M  BY DEF AdmissibleEdges, Fitting
  <1>14. edges' \subseteq E \cup A /\ \A e \in edges' : batch'[e] \in Batches
    <2>1. DOMAIN Placed(A) = E \cup A /\ \A e \in E \cup A : Placed(A)[e] \in Batches
      <3>1. 0 \in Batches  BY BrowserAssumption DEF Batches
      <3> QED BY <3>1 DEF SlotTypes, DrawnEdges
    <2> HIDE DEF Placed
    <2>2. CASE refreshed  BY <1>0, <2>1, <2>2, RerateKeeps DEF edges
    <2>3. CASE ~refreshed  BY <1>0, <2>1, <2>3 DEF edges
    <2> QED BY <2>2, <2>3
  <1> HIDE DEF N, M, S, Placed
  <1>8. EdgesReported(state, edges \cup refused)'
    BY <1>0, <1>6 DEF EdgesReported, M
  <1>9. NodesReported' /\ DOMAIN nodes' \subseteq NodeIds
        /\ \A id \in DOMAIN nodes' : \/ nodes'[id] = state.nodes[id].machine
                                     \/ id \in DOMAIN N \ Moved /\ nodes'[id] = nodes[id]
    <2>1. CASE dirty
      <3>1. PICK T \in Admissible(N) :
              nodes' = [id \in DOMAIN N \cup T |->
                          IF id \in T THEN state.nodes[id].machine ELSE N[id]]
        BY <1>2, <2>1
      <3>2. /\ T \subseteq DOMAIN state.nodes \ DOMAIN N
            /\ Cardinality(T) =
                 IF Cardinality(DOMAIN state.nodes \ DOMAIN N) < Capacity - Cardinality(DOMAIN N)
                 THEN Cardinality(DOMAIN state.nodes \ DOMAIN N)
                 ELSE Capacity - Cardinality(DOMAIN N)
        BY DEF Admissible, Fitting
      <3>3. DOMAIN N \subseteq DOMAIN nodes /\ DOMAIN N \in SUBSET NodeIds
        BY <1>3, <1>4
      <3>4. Cardinality(DOMAIN N) <= Capacity
        <4>1. IsFiniteSet(DOMAIN nodes)  BY <1>4, BrowserAssumption, FS_Subset
        <4>2. Cardinality(DOMAIN N) <= Cardinality(DOMAIN nodes)  BY <3>3, <4>1, FS_Subset
        <4>3. /\ Cardinality(DOMAIN N) \in Nat /\ Cardinality(DOMAIN nodes) \in Nat
              /\ Capacity \in Nat
          BY <3>3, <4>1, FS_Subset, FS_CardinalityType, BrowserAssumption
        <4> QED BY <4>2, <4>3 DEF NodesReported
      <3>5. /\ Cardinality(DOMAIN N \cup T) <= Capacity
            /\ \/ DOMAIN state.nodes \subseteq DOMAIN N \cup T
               \/ Cardinality(DOMAIN N \cup T) = Capacity
        BY <1>5, <3>2, <3>3, <3>4, PassFills
      <3>6. DOMAIN nodes' = DOMAIN N \cup T  BY <3>1
      <3>7. NodesReported'  BY <1>6, <3>5, <3>6 DEF NodesReported
      <3>8. DOMAIN nodes' \subseteq NodeIds  BY <1>5, <3>2, <3>3, <3>6
      <3>9. ASSUME NEW id \in DOMAIN nodes'
            PROVE  \/ nodes'[id] = state.nodes[id].machine
                   \/ id \in DOMAIN N \ Moved /\ nodes'[id] = nodes[id]
        <4>1. CASE id \in T  BY <3>1, <3>6, <4>1
        <4>2. CASE id \notin T
          <5>1. id \in DOMAIN N /\ nodes'[id] = N[id]  BY <3>1, <3>6, <4>2
          <5> QED BY <1>3, <5>1
        <4> QED BY <4>1, <4>2
      <3> QED BY <3>7, <3>8, <3>9
    <2>2. CASE ~dirty
      <3>1. nodes' = N /\ DOMAIN N = DOMAIN nodes  BY <1>2, <1>3, <1>7, <2>2
      <3>2. NodesReported'  BY <1>6, <1>7, <2>2, <3>1 DEF NodesReported
      <3> QED BY <1>3, <1>4, <3>1, <3>2
    <2> QED BY <2>1, <2>2
  <1>10. SlotTypes'
    <2>1. edges' \subseteq EdgeIds  BY <1>4, <1>5, <1>13, <1>14 DEF M
    <2> QED BY <1>1, <1>6, <1>9, <1>14, <2>1 DEF SlotTypes, DrawnEdges
  <1>11. SlotsTold'
    <2> SUFFICES ASSUME NEW id \in (DOMAIN nodes' \cap DOMAIN state.nodes) \ passedBy'
                 PROVE  nodes'[id] = state.nodes[id].machine
      BY <1>6 DEF SlotsTold
    <2>1. CASE id \in DOMAIN N \ Moved /\ nodes'[id] = nodes[id]
      <3>1. id \notin passedBy  BY <1>1, <2>1
      <3>2. id \in DOMAIN nodes  BY <1>3, <2>1
      <3> QED BY <2>1, <3>1, <3>2 DEF SlotsTold
    <2> QED BY <1>9, <2>1
  <1>12. \E f : PassSaw(f)'
    <2>1. CASE dirty
      <3>1. PICK f : f = state.nodes
        OBVIOUS
      <3>2. targets' = Targets(f, by)  BY <1>2, <2>1, <3>1
      <3>3. platforms' = [g \in Groups(f, by) |-> by]
        <4>1. platforms' = Synced(platforms, Groups(f, by), by)  BY <1>2, <2>1, <3>1
        <4> QED BY <4>1 DEF Synced
      <3>4. \A e \in edges' \ passedBy' : e \in same' <=> SameIn(f, e, by)
        <4> SUFFICES ASSUME NEW e \in edges' \ passedBy'  PROVE e \in same' <=> SameIn(f, e, by)
          OBVIOUS
        <4>1. e \in S \cup A  BY <1>1, <1>14, <2>1
        <4>2. e \in same' <=> SamePlatform(e, by)  BY <1>0, <1>13, <4>1 DEF M, S
        <4> QED BY <3>1, <4>2 DEF SamePlatform, SameIn
      <3>5. PassSaw(f)'  BY <1>1, <1>6, <3>1, <3>2, <3>3, <3>4 DEF PassSaw
      <3> QED BY <3>5
    <2>2. CASE ~dirty
      <3>1. PICK f : PassSaw(f)
        OBVIOUS
      <3>2. by = groupBy /\ S = {} /\ UNCHANGED <<targets, platforms, groupBy>>
        BY <1>1, <1>2, <2>2 DEF S
      <3>3. DOMAIN state.nodes \subseteq DOMAIN f  BY <1>7, <2>2, <3>1 DEF PassSaw
      <3>4. by # "namespace" => \A id \in DOMAIN state.nodes : f[id].machine = state.nodes[id].machine
        BY <1>7, <2>2, <3>1, <3>2 DEF PassSaw
      <3>5. \A e \in state.edges : SamePlatform(e, by) <=> SameIn(f, e, by)
        <4> TAKE e \in state.edges
        <4>1. Src[e] \in DOMAIN state.nodes /\ Dst[e] \in DOMAIN state.nodes
          BY DEF BrowserInv, Mirrors, IsServerGraph
        <4>2. \A id \in DOMAIN state.nodes : GroupOf(f, id, by) = GroupOf(state.nodes, id, by)
          BY <3>4 DEF GroupOf
        <4> QED BY <4>1, <4>2 DEF SamePlatform, SameIn
      <3>6. \A e \in edges' \ passedBy' : e \in same' <=> SameIn(f, e, by)
        <4> SUFFICES ASSUME NEW e \in edges' \ passedBy'  PROVE e \in same' <=> SameIn(f, e, by)
          OBVIOUS
        <4>1. CASE e \in E
          <5>1. e \in edges \ passedBy  BY <1>1, <2>2, <4>1
          <5>2. e \notin A  BY <1>13, <4>1 DEF M
          <5>3. e \in same' <=> e \in same  BY <1>0, <3>2, <4>1, <5>2
          <5> QED BY <3>1, <3>2, <5>1, <5>3 DEF PassSaw
        <4>2. CASE e \notin E
          <5>1. e \in A /\ e \in state.edges  BY <1>13, <1>14, <4>2 DEF M
          <5>2. e \in same' <=> SamePlatform(e, by)  BY <1>0, <4>2, <5>1
          <5> QED BY <3>5, <5>1, <5>2
        <4> QED BY <4>1, <4>2
      <3>7. PassSaw(f)'
        BY <1>1, <1>6, <3>1, <3>2, <3>3, <3>4, <3>6 DEF PassSaw
      <3> QED BY <3>7
    <2> QED BY <2>1, <2>2
  <1> QED BY <1>8, <1>9, <1>10, <1>11, <1>12

LEMMA SlotInvNext == BrowserInv /\ SlotInv /\ [Next]_vars => SlotInv'
  <1> SUFFICES ASSUME BrowserInv, SlotInv, [Next]_vars  PROVE SlotInv'
    OBVIOUS
  <1>1. CASE ReceiveSnapshot \/ ReceiveTick \/ Disconnect  BY <1>1, MessageKeepsSlots
  <1>2. CASE \E refreshed \in BOOLEAN : Frame(refreshed)
    <2>1. MembershipDirty(groupBy) \in BOOLEAN  BY DEF MembershipDirty
    <2>2. groupBy \in {"namespace", "machine"}  BY DEF SlotInv, SlotTypes
    <2> QED BY <1>2, <2>1, <2>2, ApplyKeepsSlots DEF Frame
  <1>3. CASE SwitchGrouping
    <2>1. (IF groupBy = "namespace" THEN "machine" ELSE "namespace") \in {"namespace", "machine"}
      OBVIOUS
    <2> QED BY <1>3, <2>1, ApplyKeepsSlots DEF SwitchGrouping
  <1>4. CASE RefreshRates
    <2>1. edges' \subseteq edges /\ \A e \in edges' : batch'[e] \in Batches
      BY <1>4, RerateKeeps DEF RefreshRates, edges
    <2>2. /\ same' = same \cap edges' /\ refused' = refused \cup (edges \ edges')
          /\ passedBy' = passedBy \ (edges \ edges')
          /\ UNCHANGED <<state, nodes, groupBy, targets, platforms, Moved>>
      BY <1>4 DEF RefreshRates, arrangement, Moved
    <2>3. SlotTypes'  BY <2>1, <2>2 DEF SlotInv, SlotTypes, DrawnEdges
    <2>4. EdgesReported(state, edges \cup refused)'  BY <2>1, <2>2 DEF SlotInv, EdgesReported
    <2>5. NodesReported'  BY <2>2 DEF SlotInv, NodesReported
    <2>6. SlotsTold'
      <3>1. edges \cap DOMAIN nodes = {}
        BY BrowserAssumption DEF SlotInv, SlotTypes, DrawnEdges
      <3> QED BY <2>2, <3>1 DEF SlotInv, SlotsTold
    <2>7. PICK f : PassSaw(f)  BY DEF SlotInv
    <2>8. PassSaw(f)'
      <3>1. \A e \in edges' \ passedBy' : e \in edges \ passedBy /\ (e \in same' <=> e \in same)
        BY <2>1, <2>2
      <3> QED BY <2>2, <2>7, <3>1 DEF PassSaw
    <2> QED BY <2>3, <2>4, <2>5, <2>6, <2>8 DEF SlotInv
  <1>5. CASE UNCHANGED vars
    <2>1. UNCHANGED edges  BY <1>5 DEF vars, slots, edges
    <2> QED BY <1>5, <2>1
      DEF vars, slots, arrangement, SlotInv, SlotTypes, DrawnEdges, EdgesReported, NodesReported,
          SlotsTold, Moved, PassSaw
  <1> QED BY <1>1, <1>2, <1>3, <1>4, <1>5 DEF Next

LEMMA SlotInvAlways == Spec => [](BrowserInv /\ SlotInv)
  <1>1. Init => BrowserInv /\ SlotInv  BY BrowserInvInit, SlotInvInit
  <1>2. BrowserInv /\ SlotInv /\ [Next]_vars => (BrowserInv /\ SlotInv)'
    BY BrowserInvNext, SlotInvNext
  <1> QED BY <1>1, <1>2, PTL DEF Spec

LEMMA SettledReports ==
  ASSUME HasFields(state), Settled
  PROVE  /\ state.addedNodes = {} /\ state.touchedNodes = {}
         /\ state.addedEdges = {} /\ state.removedEdges = {}
  BY ConsumedEmpties DEF Settled

(* Any number of messages between two frames, any pool and any batches:      *)
(* after a frame every node is drawn unless the pool is used up, and every   *)
(* edge but those that found their batch full when they were added or moved  *)
(* (nodes.ts:121-145, main.ts:114-120, edges.ts:116, :167).                 *)
THEOREM NothingIsUndrawn == Spec => []NothingUndrawn
  <1>1. BrowserInv /\ SlotInv => NothingUndrawn
    BY SettledReports DEF SlotInv, SlotTypes, NodesReported, EdgesReported, NothingUndrawn
  <1> QED BY <1>1, SlotInvAlways, PTL

(* Nodes that move, frames without a pass and switches of the grouping in    *)
(* any order: after a frame lights, platforms and low arcs are where the     *)
(* grouping puts them, but for what was away within a frame (main.ts:99-123, *)
(* :207-216).                                                               *)
THEOREM AlwaysArranged == Spec => []ArrangedAsGrouped
  <1>1. BrowserInv /\ SlotInv => ArrangedAsGrouped
    <2> SUFFICES ASSUME BrowserInv, SlotInv, Settled  PROVE
                   /\ DOMAIN targets \subseteq DOMAIN state.nodes =>
                        /\ targets = Targets(state.nodes, groupBy)
                        /\ platforms = [g \in Groups(state.nodes, groupBy) |-> groupBy]
                   /\ \A e \in (state.edges \cap edges) \ passedBy :
                        e \in same <=> SamePlatform(e, groupBy)
      BY DEF ArrangedAsGrouped
    <2>1. PICK f : PassSaw(f)  BY DEF SlotInv
    <2>2. /\ state.addedNodes = {} /\ state.touchedNodes = {}
          /\ state.addedEdges = {} /\ state.removedEdges = {}
      BY SettledReports DEF SlotInv, SlotTypes
    <2>3. DOMAIN state.nodes \subseteq DOMAIN f  BY <2>1, <2>2 DEF PassSaw
    <2>4. groupBy # "namespace" =>
            \A id \in DOMAIN state.nodes : f[id].machine = state.nodes[id].machine
      BY <2>1, <2>2 DEF PassSaw, SlotInv, SlotTypes
    <2>5. ASSUME DOMAIN targets \subseteq DOMAIN state.nodes
          PROVE  /\ targets = Targets(state.nodes, groupBy)
                 /\ platforms = [g \in Groups(state.nodes, groupBy) |-> groupBy]
      <3>1. DOMAIN targets = DOMAIN f
        <4>1. targets = Targets(f, groupBy)  BY <2>1 DEF PassSaw
        <4> QED BY <4>1 DEF Targets
      <3>2. DOMAIN f = DOMAIN state.nodes  BY <2>3, <2>5, <3>1
      <3>3. /\ Targets(f, groupBy) = Targets(state.nodes, groupBy)
            /\ Groups(f, groupBy) = Groups(state.nodes, groupBy)
        BY <2>4, <3>2, SameLayout
      <3> QED BY <2>1, <3>3 DEF PassSaw
    <2>6. ASSUME NEW e \in (state.edges \cap edges) \ passedBy
          PROVE  e \in same <=> SamePlatform(e, groupBy)
      <3>1. e \in edges \ passedBy  BY <2>6
      <3>2. e \in same <=> SameIn(f, e, groupBy)  BY <2>1, <3>1 DEF PassSaw
      <3>3. Src[e] \in DOMAIN state.nodes /\ Dst[e] \in DOMAIN state.nodes
        BY DEF BrowserInv, Mirrors, IsServerGraph
      <3>4. \A id \in DOMAIN state.nodes :
              GroupOf(f, id, groupBy) = GroupOf(state.nodes, id, groupBy)
        BY <2>4 DEF GroupOf
      <3> QED BY <3>2, <3>3, <3>4 DEF SamePlatform, SameIn
    <2> QED BY <2>5, <2>6
  <1> QED BY <1>1, SlotInvAlways, PTL

(* Whatever the user switches off, after a frame no arc that is shown ends   *)
(* on a hidden light, but for a light whose node came back with another      *)
(* machine within a frame (main.ts:95-98, :169-194).                        *)
THEOREM ArcsAlwaysEndOnLights == Spec => []ArcsEndOnLights
  <1>1. BrowserInv /\ SlotInv => ArcsEndOnLights
    <2> SUFFICES ASSUME BrowserInv, SlotInv, Settled, NEW off \in Filters, NEW e \in state.edges \cap edges,
                        ~EdgeHidden(e, off),
                        NEW id \in ({Src[e], Dst[e]} \cap DOMAIN nodes) \ passedBy
                 PROVE  ~NodeHidden(id, off)
      BY DEF ArcsEndOnLights
    <2>1. state.touchedNodes = {}  BY SettledReports DEF SlotInv, SlotTypes
    <2>2. id \in DOMAIN state.nodes  BY DEF BrowserInv, Mirrors, IsServerGraph
    <2>3. nodes[id] = state.nodes[id].machine
      BY <2>1, <2>2 DEF SlotInv, SlotsTold, Moved
    <2>4. SlotMachine(id) = state.nodes[id].machine  BY <2>3 DEF SlotMachine
    <2> QED BY <2>4 DEF EdgeHidden, NodeHidden
  <1> QED BY <1>1, SlotInvAlways, PTL

-----------------------------------------------------------------------------
(* Page.                                                                    *)

Picks == NodeIds \cup EdgeIds \cup {NoPick}

(* Only nodes and edges are picked, or nothing. *)
PickTypes == selected \in Picks /\ DOMAIN index \subseteq NodeIds /\ links \subseteq Picks

(* The arcs that are lit are those of the selection, or, without one, the   *)
(* pointer's.                                                               *)
EmphasisFollows ==
  /\ selected \in NodeIds => emphasised = selected
  /\ selected \in EdgeIds => emphasised = NoPick
  /\ selected = NoPick /\ hovered = NoPick => emphasised = NoPick

(* Without an emphasis, what an emphasis left will be painted anew. *)
ShadesDue ==
  \A e \in shaded : /\ e \in edges
                    /\ AnyEmphasis \/ batch[e] \in colDirty \/ e \in skipped

(* A selection that the store does not have was missed. *)
MissedTells ==
  /\ missed \in BOOLEAN
  /\ selected # NoPick /\ selected \notin Stored(state) => missed

PageInv ==
  /\ BrowserInv /\ SlotInv /\ PickTypes
  /\ EmphasisFollows /\ ShadesDue
  /\ MissedTells /\ PanelFollowsSelection

-----------------------------------------------------------------------------

(* No pick at all is never in the store. *)
LEMMA NoPickNotStored == ASSUME NEW s, IsStore(s) PROVE NoPick \notin Stored(s)
  BY PageAssumption DEF Stored, IsStore

LEMMA PageInvInit == PageInit => PageInv
  <1> SUFFICES ASSUME PageInit  PROVE PageInv
    OBVIOUS
  <1>1. /\ Init /\ selected = NoPick /\ hovered = NoPick /\ emphasised = NoPick
        /\ index = <<>> /\ links = {} /\ shaded = {}
    BY DEF PageInit
  <1>2. BrowserInv /\ SlotInv  BY <1>1, BrowserInvInit, SlotInvInit
  <1>3. PickTypes
    <2>1. DOMAIN index = {}  BY <1>1
    <2> QED BY <1>1, <2>1 DEF PickTypes, Picks
  <1>4. EmphasisFollows /\ ShadesDue  BY <1>1, PageAssumption DEF EmphasisFollows, ShadesDue
  <1>5. MissedTells /\ PanelFollowsSelection
    BY <1>1 DEF PageInit, MissedTells, PanelFollowsSelection
  <1> QED BY <1>2, <1>3, <1>4, <1>5 DEF PageInv

(* What a step of the page does to store and slots. *)
LEMMA BrowserStep ==
  ASSUME BrowserInv, SlotInv, [Next]_vars
  PROVE  BrowserInv' /\ SlotInv'
  BY BrowserInvNext, SlotInvNext

(* A panel leads to nodes and edges. *)
LEMMA LinkTypes ==
  ASSUME NEW s, IsStore(s), NEW p
  PROVE  LinksOf(s, p) \subseteq Picks
  <1>1. s.edges \subseteq EdgeIds  BY DEF IsStore
  <1>2. CASE p \in NodeIds  BY <1>1, <1>2 DEF LinksOf, Picks
  <1>3. CASE p \notin NodeIds  BY <1>3, GraphStateAssumption DEF LinksOf, Picks
  <1> QED BY <1>2, <1>3

(* Between frames a slot that is kept keeps its colours. *)
LEMMA ShadesKept ==
  ASSUME ShadesDue, KeepShades, colDirty \subseteq colDirty',
         UNCHANGED <<selected, hovered, emphasised>>
  PROVE  ShadesDue'
  BY DEF ShadesDue, KeepShades, Staying, AnyEmphasis

(* A store and slots that stay keep the colours, too. *)
LEMMA SlotsStay == ASSUME UNCHANGED vars PROVE state' = state /\ edges' = edges /\ batch' = batch
  BY DEF vars, slots, edges

(* Selecting anything, also what is not there, puts all of it right. *)
LEMMA SelectKeeps ==
  ASSUME PageInv, NEW p \in Picks, Select(p)
  PROVE  PageInv'
  <1>1. UNCHANGED vars \/ RefreshRates  BY DEF Select
  <1>2. BrowserInv' /\ SlotInv'
    BY <1>1, BrowserStep DEF PageInv, Next
  <1>3. state' = state  BY <1>1, SlotsStay DEF RefreshRates
  <1>4. EmphasisFollows'
    BY PageAssumption DEF Select, OnlyNode, EmphasisFollows
  <1>5. PickTypes'
    <2>1. links' \subseteq Picks  BY LinkTypes DEF Select, PageInv, BrowserInv
    <2> QED BY <2>1 DEF Select, pool, PageInv, PickTypes
  <1>6. ShadesDue'
    <2>1. \A e \in shaded' : e \in edges'  BY DEF Select, KeepShades, Staying
    <2>2. \A e \in edges' : batch'[e] \in Batches
      BY <1>2 DEF SlotInv, SlotTypes, DrawnEdges
    <2>3. colDirty' = Batches  BY DEF Select
    <2>4. Batches' = Batches  BY DEF Batches
    <2> QED BY <2>1, <2>2, <2>3, <2>4 DEF ShadesDue
  <1>7. MissedTells'  BY <1>3 DEF Select, MissedTells, Stored
  <1>8. PanelFollowsSelection'  BY DEF Select, Shown, PanelFollowsSelection
  <1> QED BY <1>2, <1>4, <1>5, <1>6, <1>7, <1>8 DEF PageInv

(* The pointer moves the emphasis only while nothing is selected. *)
LEMMA HoverKeeps ==
  ASSUME EmphasisFollows, NEW p, NEW due, SetHovered(p, due), selected' = selected
  PROVE  EmphasisFollows'
  BY PageAssumption DEF SetHovered, EmphasisFollows

(* When the pointer ends an emphasis, all arcs are painted anew. *)
LEMMA HoverEnds ==
  ASSUME EmphasisFollows, PickTypes, NEW p \in Picks, NEW due, SetHovered(p, due),
         selected' = selected, AnyEmphasis
  PROVE  AnyEmphasis' \/ colDirty' = Batches
  <1>1. CASE selected = NoPick /\ p # hovered /\ p \notin EdgeIds
    BY <1>1 DEF SetHovered
  <1>2. CASE selected = NoPick /\ (p = hovered \/ p \in EdgeIds)
    BY <1>2 DEF SetHovered, AnyEmphasis
  <1>3. CASE selected # NoPick
    <2>1. emphasised' = emphasised  BY <1>3 DEF SetHovered
    <2>2. selected \in NodeIds \/ selected \in EdgeIds  BY <1>3 DEF PickTypes, Picks
    <2> QED BY <1>3, <2>1, <2>2 DEF EmphasisFollows, AnyEmphasis
  <1> QED BY <1>1, <1>2, <1>3

(* A frame paints the arcs of an emphasis, and of one that has ended those   *)
(* it finds.                                                                *)
LEMMA PaintKeeps ==
  ASSUME ShadesDue, NEW refreshed, PaintArcs(refreshed), NEW e \in shaded'
  PROVE  e \in edges' /\ (AnyEmphasis \/ e \in skipped')
  <1> DEFINE due == colDirty \cup Cleared \cup (IF refreshed THEN Recoloured ELSE {})
             painted(T) == {x \in T : AnyEmphasis \/ batch'[x] \in due}
  <1>1. PICK T \in SUBSET (edges' \cap state.edges) :
          /\ Traceable \subseteq T
          /\ shaded' = ((shaded \cap Staying) \ painted(T)) \cup (IF AnyEmphasis THEN painted(T) ELSE {})
          /\ skipped' = (skipped \cup (edges' \ Traceable)) \cap (shaded' \ painted(T))
    BY DEF PaintArcs
  <1>2. Staying \subseteq edges' /\ painted(T) \subseteq edges'  BY DEF Staying
  <1>3. e \in edges'  BY <1>1, <1>2
  <1>4. ASSUME ~AnyEmphasis  PROVE e \in skipped'
    <2>1. e \in shaded /\ e \in Staying /\ e \notin painted(T)  BY <1>1, <1>4
    <2>2. batch[e] \in colDirty \/ e \in skipped  BY <1>4, <2>1 DEF ShadesDue
    <2>3. CASE e \in Traceable
      <3>1. batch'[e] \notin colDirty  BY <1>1, <2>1, <2>3
      <3>2. batch'[e] = batch[e]  BY <2>1 DEF Staying
      <3> QED BY <1>1, <2>1, <2>2, <3>1, <3>2
    <2>4. CASE e \notin Traceable  BY <1>1, <1>3, <2>1, <2>4
    <2> QED BY <2>3, <2>4
  <1> QED BY <1>3, <1>4

(* A refresh closes the panel only on what the store does not have. *)
LEMMA RefreshKeeps ==
  ASSUME PageInv, RefreshPanel(state), UNCHANGED <<selected, missed>>
  PROVE  PanelFollowsSelection' /\ links' \subseteq Picks
  <1>1. panel' = Shown(state, panel)  BY DEF RefreshPanel
  <1>2. NoPick \notin Stored(state)  BY NoPickNotStored DEF PageInv, BrowserInv
  <1>3. links' \subseteq Picks  BY LinkTypes DEF RefreshPanel, PageInv, BrowserInv
  <1> QED BY <1>1, <1>2, <1>3 DEF PageInv, PanelFollowsSelection, MissedTells, Shown

LEMMA AnimateKeeps == ASSUME PageInv, Animate PROVE PageInv'
  <1>1. PICK refreshed \in BOOLEAN :
          /\ Frame(refreshed)
          /\ IF refreshed THEN RefreshPanel(state) ELSE UNCHANGED <<panel, links>>
          /\ PaintArcs(refreshed)
    BY DEF Animate
  <1>2. /\ ChangePool /\ UNCHANGED <<selected, missed>>
        /\ \/ \E p \in Pickable' \cup {NoPick} : SetHovered(p, {})
           \/ colDirty' = {} /\ UNCHANGED <<hovered, emphasised>>
    BY DEF Animate
  <1>3. BrowserInv' /\ SlotInv'  BY <1>1, BrowserStep DEF PageInv, Next
  <1>4. state' = Consumed(state)  BY <1>1 DEF Frame, ApplyChanges
  <1>5. Stored(state') = Stored(state)
    BY <1>4, ConsumedKeeps DEF PageInv, BrowserInv, Stored
  <1>6. PickTypes'
    <2>1. DOMAIN index' = DOMAIN nodes'  BY <1>2 DEF ChangePool
    <2>2. DOMAIN index' \subseteq NodeIds  BY <1>3, <2>1 DEF SlotInv, SlotTypes
    <2>3. links' \subseteq Picks
      <3>1. CASE RefreshPanel(state)  BY <1>2, <3>1, RefreshKeeps
      <3>2. CASE UNCHANGED <<panel, links>>  BY <3>2 DEF PageInv, PickTypes
      <3> QED BY <1>1, <3>1, <3>2
    <2> QED BY <1>2, <2>2, <2>3 DEF PageInv, PickTypes
  <1>7. EmphasisFollows' /\ (AnyEmphasis => AnyEmphasis' \/ colDirty' = Batches)
    <2>1. CASE \E p \in Pickable' \cup {NoPick} : SetHovered(p, {})
      <3>1. PICK p \in Pickable' \cup {NoPick} : SetHovered(p, {})  BY <2>1
      <3>2. p \in Picks
        <4>1. edges' \subseteq EdgeIds  BY <1>3 DEF SlotInv, SlotTypes, DrawnEdges
        <4>2. LightsHit' \subseteq NodeIds  BY <1>6 DEF PickTypes, LightsHit
        <4> QED BY <3>1, <4>1, <4>2 DEF Pickable, Picks
      <3> QED BY <1>2, <3>1, <3>2, HoverKeeps, HoverEnds DEF PageInv
    <2>2. CASE UNCHANGED <<hovered, emphasised>>
      BY <1>2, <2>2 DEF PageInv, EmphasisFollows, AnyEmphasis
    <2> QED BY <1>2, <2>1, <2>2
  <1>8. ShadesDue'
    <2> SUFFICES ASSUME NEW e \in shaded'
                 PROVE  e \in edges' /\ (AnyEmphasis' \/ batch'[e] \in colDirty' \/ e \in skipped')
      BY DEF ShadesDue
    <2>1. e \in edges' /\ (AnyEmphasis \/ e \in skipped')  BY <1>1, PaintKeeps DEF PageInv
    <2>2. batch'[e] \in Batches
      <3>1. Batches' = Batches  BY DEF Batches
      <3> QED BY <1>3, <2>1, <3>1 DEF SlotInv, SlotTypes, DrawnEdges
    <2> QED BY <1>7, <2>1, <2>2
  <1>9. MissedTells'  BY <1>2, <1>5 DEF PageInv, MissedTells
  <1>10. PanelFollowsSelection'
    <2>1. CASE RefreshPanel(state)  BY <1>2, <2>1, RefreshKeeps
    <2>2. CASE UNCHANGED <<panel, links>>
      BY <1>2, <2>2 DEF PageInv, PanelFollowsSelection
    <2> QED BY <1>1, <2>1, <2>2
  <1> QED BY <1>3, <1>6, <1>7, <1>8, <1>9, <1>10 DEF PageInv

LEMMA ChangeFiltersKeeps == ASSUME PageInv, ChangeFilters PROVE PageInv'
  <1>1. BrowserInv' /\ SlotInv'  BY BrowserStep DEF PageInv, ChangeFilters, Next
  <1>2. state' = Consumed(state) \/ state' = state
    BY DEF ChangeFilters, SwitchGrouping, ApplyChanges, RefreshRates
  <1>3. Stored(state') = Stored(state)
    BY <1>2, ConsumedKeeps DEF PageInv, BrowserInv, Stored
  <1>4. UNCHANGED <<selected, hovered, emphasised, missed>> /\ RefreshPanel(state)
    BY DEF ChangeFilters
  <1>5. PickTypes'
    <2>1. DOMAIN index' \subseteq NodeIds
      <3>1. CASE ChangePool
        <4>1. DOMAIN index' = DOMAIN nodes'  BY <3>1 DEF ChangePool
        <4> QED BY <1>1, <4>1 DEF SlotInv, SlotTypes
      <3>2. CASE UNCHANGED pool  BY <3>2 DEF pool, PageInv, PickTypes
      <3> QED BY <3>1, <3>2 DEF ChangeFilters
    <2> QED BY <1>4, <2>1, RefreshKeeps DEF PageInv, PickTypes
  <1>6. EmphasisFollows'  BY <1>4 DEF PageInv, EmphasisFollows
  <1>7. ShadesDue'  BY <1>4, ShadesKept DEF ChangeFilters, PageInv
  <1>8. MissedTells'  BY <1>3, <1>4 DEF PageInv, MissedTells
  <1>9. PanelFollowsSelection'  BY <1>4, RefreshKeeps
  <1> QED BY <1>1, <1>5, <1>6, <1>7, <1>8, <1>9 DEF PageInv

LEMMA PageInvNext == PageInv /\ [PageNext]_pageVars => PageInv'
  <1> SUFFICES ASSUME PageInv, [PageNext]_pageVars  PROVE PageInv'
    OBVIOUS
  <1>1. CASE Message
    <2>1. BrowserInv' /\ SlotInv'  BY <1>1, BrowserStep DEF PageInv, Message, Next
    <2>2. /\ missed' = (missed \/ selected \notin Stored(state'))
          /\ UNCHANGED <<selected, hovered, emphasised, panel, links, index, shaded, colDirty, skipped>>
      BY <1>1 DEF Message, pool, paint
    <2>3. batch' = batch /\ edges' = edges
      BY <1>1 DEF Message, ReceiveSnapshot, ReceiveTick, Disconnect, slots, edges
    <2>4. EmphasisFollows' /\ PickTypes'  BY <2>2 DEF PageInv, EmphasisFollows, PickTypes
    <2>5. ShadesDue'  BY <2>2, <2>3 DEF PageInv, ShadesDue, AnyEmphasis
    <2>6. MissedTells'  BY <2>2 DEF PageInv, MissedTells, Stored
    <2>7. PanelFollowsSelection'  BY <2>2 DEF PageInv, MissedTells, PanelFollowsSelection
    <2> QED BY <2>1, <2>4, <2>5, <2>6, <2>7 DEF PageInv
  <1>2. CASE Animate  BY <1>2, AnimateKeeps
  <1>3. CASE ChangeFilters  BY <1>3, ChangeFiltersKeeps
  <1>4. CASE PointerLeaves
    <2>1. /\ UNCHANGED <<vars, selected, panel, links, missed, index, shaded, skipped>>
          /\ SetHovered(NoPick, colDirty)
      BY <1>4 DEF PointerLeaves, pool
    <2>2. BrowserInv' /\ SlotInv'  BY <2>1, BrowserStep DEF PageInv
    <2>3. state' = state /\ edges' = edges /\ batch' = batch  BY <2>1, SlotsStay
    <2>4. EmphasisFollows'  BY <2>1, HoverKeeps DEF PageInv
    <2>5. PickTypes'  BY <2>1 DEF PageInv, PickTypes
    <2>6. ShadesDue'
      <3>1. NoPick \in Picks  BY DEF Picks
      <3>2. AnyEmphasis => AnyEmphasis' \/ colDirty' = Batches
        BY <2>1, <3>1, HoverEnds DEF PageInv
      <3>3. colDirty' = colDirty \/ colDirty' = Batches  BY <2>1 DEF SetHovered
      <3>4. \A e \in edges : batch[e] \in Batches  BY DEF PageInv, SlotInv, SlotTypes, DrawnEdges
      <3> QED BY <2>1, <2>3, <3>2, <3>3, <3>4 DEF PageInv, ShadesDue
    <2>7. MissedTells' /\ PanelFollowsSelection'
      BY <2>1, <2>3 DEF PageInv, MissedTells, Stored, PanelFollowsSelection
    <2> QED BY <2>2, <2>4, <2>5, <2>6, <2>7 DEF PageInv
  <1>5. CASE Click \/ Close \/ Navigate
    <2>1. NoPick \in Picks  BY DEF Picks
    <2>2. Pickable \subseteq Picks
      BY DEF PageInv, PickTypes, SlotInv, SlotTypes, DrawnEdges, Pickable, LightsHit, Picks
    <2>3. \E p \in Picks : Select(p)
      BY <1>5, <2>1, <2>2 DEF Click, Close, Navigate, PageInv, PickTypes
    <2> QED BY <2>3, SelectKeeps
  <1>6. CASE UNCHANGED pageVars
    <2>1. UNCHANGED vars  BY <1>6 DEF pageVars
    <2>2. BrowserInv' /\ SlotInv'  BY <2>1, BrowserStep DEF PageInv
    <2>3. state' = state /\ edges' = edges /\ batch' = batch  BY <2>1, SlotsStay
    <2> QED BY <1>6, <2>2, <2>3
      DEF PageInv, pageVars, hand, pool, paint, EmphasisFollows, PickTypes, ShadesDue, AnyEmphasis,
          MissedTells, Stored, PanelFollowsSelection
  <1> QED BY <1>1, <1>2, <1>3, <1>4, <1>5, <1>6 DEF PageNext

LEMMA PageInvAlways == PageSpec => []PageInv
  <1> QED BY PageInvInit, PageInvNext, PTL DEF PageSpec

(* Messages, frames, filters and clicks in any order: the panel is open on   *)
(* the selection, or closed and the selection was gone from the store.      *)
THEOREM PanelAlwaysFollows == PageSpec => []PanelFollowsSelection
  <1>1. PageInv => PanelFollowsSelection  BY DEF PageInv
  <1> QED BY <1>1, PageInvAlways, PTL

(* For every drawn arc of the store: with a selection those lit are its own  *)
(* and the one under the pointer, and without selection or pointer none is,  *)
(* and what an emphasis left in the buffer is painted anew, unless a frame   *)
(* has passed it over (edges.ts:203-206, :212-213, :243).                   *)
THEOREM EmphasisAlwaysOwned == PageSpec => []EmphasisOwned
  <1>1. PageInv => EmphasisOwned
    <2> SUFFICES ASSUME PageInv, NEW e \in edges \cap state.edges
                 PROVE  /\ selected \in NodeIds =>
                             (Lit(e) <=> selected \in {Src[e], Dst[e]} \/ e = hovered)
                        /\ selected \in EdgeIds => (Lit(e) <=> e \in {selected, hovered})
                        /\ {selected, hovered} = {NoPick} =>
                             ~Lit(e) /\ ~Dimmed(e) /\ (e \in shaded \ skipped => batch[e] \in colDirty)
      BY DEF EmphasisOwned
    <2>1. e \in EdgeIds /\ e \notin NodeIds /\ e # NoPick
      BY PageAssumption DEF PageInv, SlotInv, SlotTypes, DrawnEdges
    <2>2. Src[e] \in NodeIds /\ Dst[e] \in NodeIds
      BY <2>1, GraphStateAssumption
    <2>3. {selected, hovered} = {NoPick} => ~AnyEmphasis
      BY PageAssumption DEF PageInv, EmphasisFollows, AnyEmphasis
    <2>4. {selected, hovered} = {NoPick} /\ e \in shaded \ skipped => batch[e] \in colDirty
      BY <2>3 DEF PageInv, ShadesDue
    <2> QED BY <2>1, <2>2, <2>3, <2>4, PageAssumption
          DEF PageInv, EmphasisFollows, Lit, Dimmed, AnyEmphasis
  <1> QED BY <1>1, PageInvAlways, PTL

-----------------------------------------------------------------------------
(* The node pool.                                                           *)

Indexes == 0..(Capacity - 1)

(* The slots of the nodes S. *)
SlotsOf(ix, S) == {ix[id] : id \in S}

LEMMA InjectiveImage ==
  ASSUME NEW f, IsInjective(f), NEW D \in SUBSET DOMAIN f, IsFiniteSet(D)
  PROVE  IsFiniteSet({f[x] : x \in D}) /\ Cardinality({f[x] : x \in D}) = Cardinality(D)
  <1> DEFINE T == {f[x] : x \in D}
             g == [x \in D |-> f[x]]
  <1>1. g \in [D -> T] /\ (\A x, y \in D : g[x] = g[y] => x = y) /\ \A t \in T : \E x \in D : g[x] = t
    BY DEF IsInjective
  <1> HIDE DEF g, T
  <1>2. g \in Injection(D, T)  BY <1>1 DEF Injection, IsInjective
  <1>3. g \in Surjection(D, T)  BY <1>1 DEF Surjection
  <1>4. ExistsBijection(D, T)  BY <1>2, <1>3 DEF ExistsBijection, Bijection
  <1> QED BY <1>4, FS_Bijection DEF T

(* An order of a finite set names each of its elements once. *)
LEMMA OrderFacts ==
  ASSUME NEW S, IsFiniteSet(S), NEW q \in SetToSeqs(S)
  PROVE  /\ Cardinality(S) \in Nat /\ q \in Seq(S)
         /\ Len(q) = Cardinality(S) /\ DOMAIN q = 1..Cardinality(S)
         /\ IsInjective(q)
         /\ \A x \in S : \E k \in DOMAIN q : q[k] = x
  <1> DEFINE n == Cardinality(S)
  <1>1. n \in Nat  BY FS_CardinalityType
  <1>2. q \in [1..n -> S] /\ \A i, j \in 1..n : i # j => q[i] # q[j]
    BY DEF SetToSeqs
  <1> HIDE DEF n
  <1>3. q \in Seq(S) /\ Len(q) = n /\ DOMAIN q = 1..n  BY <1>1, <1>2
  <1>4. IsInjective(q)  BY <1>2, <1>3 DEF IsInjective
  <1>5. \A x \in S : \E k \in DOMAIN q : q[k] = x
    <2> DEFINE T == {q[k] : k \in 1..n}
    <2>1. IsFiniteSet(1..n) /\ Cardinality(1..n) = n  BY <1>1, FS_Interval
    <2>2. Cardinality(T) = n
      <3>1. 1..n \in SUBSET DOMAIN q  BY <1>3
      <3>2. Cardinality({q[k] : k \in 1..n}) = Cardinality(1..n)
        BY <1>4, <2>1, <3>1, InjectiveImage
      <3> QED BY <2>1, <3>2
    <2>3. T \in SUBSET S  BY <1>2
    <2>4. T = S  BY <2>2, <2>3, FS_Subset DEF n
    <2> QED BY <1>3, <2>4
  <1> QED BY <1>1, <1>3, <1>4, <1>5 DEF n

LEMMA DisjointUnion ==
  ASSUME NEW A, NEW B, IsFiniteSet(A), IsFiniteSet(B), A \cap B = {}
  PROVE  IsFiniteSet(A \cup B) /\ Cardinality(A \cup B) = Cardinality(A) + Cardinality(B)
  <1>1. /\ IsFiniteSet(A \cup B)
        /\ Cardinality(A \cup B) = Cardinality(A) + Cardinality(B) - Cardinality(A \cap B)
    BY FS_Union
  <1>2. Cardinality(A \cap B) = 0  BY FS_EmptySet
  <1>3. Cardinality(A) \in Nat /\ Cardinality(B) \in Nat  BY FS_CardinalityType
  <1> QED BY <1>1, <1>2, <1>3

(* ix names the slots of the nodes D and fr the free ones. *)
Exact(ix, fr, D) ==
  /\ DOMAIN ix = D
  /\ IsInjective(ix)
  /\ fr \in Seq(Indexes) /\ IsInjective(fr)
  /\ {ix[id] : id \in D} = Indexes \ ToSet(fr)

(* The slots of the nodes L, in the order `out', on top of the stack. *)
GivesBack(D, ix, fr, L, out, back, stack) ==
  /\ D \in SUBSET NodeIds /\ Exact(ix, fr, D)
  /\ L \in SUBSET D /\ out \in SetToSeqs(L)
  /\ back \in Seq(Indexes) /\ DOMAIN back = DOMAIN out
  /\ \A k \in DOMAIN out : back[k] = ix[out[k]]
  /\ stack = fr \o back

(* The stack has every slot but those of the nodes S. *)
AllBut(stack, ix, S) ==
  /\ stack \in Seq(Indexes) /\ IsInjective(stack)
  /\ ToSet(stack) = Indexes \ SlotsOf(ix, S)
  /\ Len(stack) = Capacity - Cardinality(S)

(* The nodes that stay are then the only ones with a slot. *)
LEMMA GiveBack ==
  ASSUME NEW D, NEW ix, NEW fr, NEW L, NEW out, NEW back, NEW stack,
         GivesBack(D, ix, fr, L, out, back, stack)
  PROVE  AllBut(stack, ix, D \ L)
  <1> USE DEF GivesBack
  <1> DEFINE n == Len(fr)
             m == Len(out)
  <1>1. IsFiniteSet(L) /\ IsFiniteSet(D) /\ IsFiniteSet(D \ L)
    <2>1. L \in SUBSET NodeIds /\ D \ L \in SUBSET NodeIds  OBVIOUS
    <2> QED BY <2>1, BrowserAssumption, FS_Subset
  <1>2. /\ m \in Nat /\ DOMAIN out = 1..m /\ out \in Seq(L) /\ IsInjective(out)
        /\ \A x \in L : \E k \in 1..m : out[k] = x
    BY <1>1, OrderFacts
  <1>3. \A k \in 1..m : out[k] \in L  BY <1>2
  <1>4. n \in Nat /\ fr \in Seq(Indexes) /\ DOMAIN fr = 1..n  BY DEF Exact
  <1>5. \A id \in D : ix[id] \in Indexes /\ ix[id] \notin ToSet(fr)  BY DEF Exact
  <1>6. /\ back \in Seq(Indexes) /\ Len(back) = m
        /\ \A k \in 1..m : back[k] = ix[out[k]]
    <2>1. DOMAIN back = 1..m  BY <1>2
    <2>2. Len(back) = m  BY <1>2, <2>1
    <2> QED BY <1>2, <2>1, <2>2
  <1> HIDE DEF n, m
  <1>7. /\ stack \in Seq(Indexes) /\ Len(stack) = n + m
        /\ DOMAIN stack = 1..(n + m)
        /\ \A i \in 1..(n + m) : stack[i] = IF i <= n THEN fr[i] ELSE back[i - n]
    <2>1. stack = fr \o back  OBVIOUS
    <2>2. /\ stack \in Seq(Indexes) /\ Len(stack) = Len(fr) + Len(back)
          /\ \A i \in 1..(Len(fr) + Len(back)) : stack[i] = IF i <= Len(fr) THEN fr[i] ELSE back[i - Len(fr)]
      <3>1. fr \in Seq(Indexes) /\ back \in Seq(Indexes)  BY <1>4, <1>6
      <3> HIDE DEF Indexes
      <3> QED BY <2>1, <3>1, ConcatProperties
    <2> QED BY <1>4, <1>6, <2>2 DEF n
  <1>8. /\ \A i \in 1..n : i \in DOMAIN stack /\ stack[i] = fr[i]
        /\ \A k \in 1..m : k + n \in DOMAIN stack /\ stack[k + n] = ix[out[k]]
        /\ \A i \in DOMAIN stack : i \in 1..n \/ \E k \in 1..m : i = k + n
    <2>1. ASSUME NEW k \in 1..m  PROVE k + n \in DOMAIN stack /\ stack[k + n] = ix[out[k]]
      <3>1. k + n \in 1..(n + m) /\ ~(k + n <= n) /\ (k + n) - n = k  BY <1>2, <1>4
      <3> QED BY <1>6, <1>7, <3>1
    <2>2. ASSUME NEW i \in DOMAIN stack, i \notin 1..n  PROVE \E k \in 1..m : i = k + n
      <3>1. i - n \in 1..m /\ i = (i - n) + n  BY <1>2, <1>4, <1>7, <2>2
      <3> QED BY <3>1
    <2>3. ASSUME NEW i \in 1..n  PROVE i \in DOMAIN stack /\ stack[i] = fr[i]
      BY <1>2, <1>4, <1>7
    <2> QED BY <2>1, <2>2, <2>3
  <1>9. IsInjective(stack)
    <2> SUFFICES ASSUME NEW i \in DOMAIN stack, NEW j \in DOMAIN stack, stack[i] = stack[j]  PROVE i = j
      BY DEF IsInjective
    <2>1. CASE i \in 1..n /\ j \in 1..n
      <3>1. fr[i] = fr[j]  BY <1>8, <2>1
      <3> QED BY <1>4, <2>1, <3>1 DEF Exact, IsInjective
    <2>2. CASE i \notin 1..n /\ j \notin 1..n
      <3>1. PICK k \in 1..m : i = k + n  BY <1>8, <2>2
      <3>2. PICK l \in 1..m : j = l + n  BY <1>8, <2>2
      <3>3. ix[out[k]] = ix[out[l]]  BY <1>8, <3>1, <3>2
      <3>4. out[k] = out[l]  BY <1>3, <3>3 DEF Exact, IsInjective
      <3>5. k = l  BY <1>2, <3>4 DEF IsInjective
      <3> QED BY <3>1, <3>2, <3>5
    <2>3. ASSUME NEW x \in 1..n, NEW y \in DOMAIN stack, y \notin 1..n, stack[x] = stack[y]  PROVE FALSE
      <3>1. PICK k \in 1..m : y = k + n  BY <1>8, <2>3
      <3>2. fr[x] = ix[out[k]]  BY <1>8, <2>3, <3>1
      <3>3. fr[x] \in ToSet(fr)  BY <1>4 DEF ToSet
      <3>4. out[k] \in D  BY <1>3
      <3> QED BY <1>5, <3>2, <3>3, <3>4
    <2> QED BY <2>1, <2>2, <2>3
  <1>10. ToSet(stack) = Indexes \ {ix[id] : id \in D \ L}
    <2>1. ASSUME NEW x \in ToSet(stack)  PROVE x \in Indexes /\ \A id \in D \ L : x # ix[id]
      <3>1. PICK i \in DOMAIN stack : x = stack[i]  BY DEF ToSet
      <3>2. CASE i \in 1..n
        <4>1. x \in ToSet(fr)  BY <1>4, <1>8, <3>1, <3>2 DEF ToSet
        <4>2. x \in Indexes  BY <1>7, <3>1
        <4> QED BY <1>5, <4>1, <4>2
      <3>3. CASE i \notin 1..n
        <4>1. PICK k \in 1..m : i = k + n  BY <1>8, <3>3
        <4>2. x = ix[out[k]] /\ out[k] \in L  BY <1>3, <1>8, <3>1, <4>1
        <4> QED BY <1>5, <4>2 DEF Exact, IsInjective
      <3> QED BY <3>2, <3>3
    <2>2. ASSUME NEW x \in Indexes, \A id \in D \ L : x # ix[id]  PROVE x \in ToSet(stack)
      <3>1. CASE x \in ToSet(fr)
        <4>1. PICK i \in 1..n : x = fr[i]  BY <1>4, <3>1 DEF ToSet
        <4> QED BY <1>8, <4>1 DEF ToSet
      <3>2. CASE x \notin ToSet(fr)
        <4>1. PICK id \in D : x = ix[id]  BY <3>2 DEF Exact
        <4>2. id \in L  BY <2>2, <4>1
        <4>3. PICK k \in 1..m : out[k] = id  BY <1>2, <4>2
        <4> QED BY <1>8, <4>1, <4>3 DEF ToSet
      <3> QED BY <3>1, <3>2
    <2> QED BY <2>1, <2>2
  <1>11. Len(stack) = Capacity - Cardinality(D \ L)
    <2> DEFINE kept == {ix[id] : id \in D \ L}
    <2>1. IsFiniteSet(kept) /\ Cardinality(kept) = Cardinality(D \ L)
      <3>1. IsInjective(ix) /\ D \ L \in SUBSET DOMAIN ix  BY DEF Exact
      <3> QED BY <1>1, <3>1, InjectiveImage
    <2>2. kept \subseteq Indexes  BY <1>5
    <2>3. /\ Len(stack) \in Nat /\ DOMAIN stack = 1..Len(stack)
          /\ IsFiniteSet(1..Len(stack)) /\ Cardinality(1..Len(stack)) = Len(stack)
      <3>1. Len(stack) \in Nat /\ DOMAIN stack = 1..Len(stack)  BY <1>7
      <3>2. IsFiniteSet(1..Len(stack)) /\ Cardinality(1..Len(stack)) = Len(stack)
        BY <3>1, FS_Interval
      <3> QED BY <3>1, <3>2
    <2>4. IsFiniteSet(ToSet(stack)) /\ Cardinality(ToSet(stack)) = Len(stack)
      <3>1. DOMAIN stack \in SUBSET DOMAIN stack  OBVIOUS
      <3>2. IsFiniteSet(DOMAIN stack) /\ Cardinality(DOMAIN stack) = Len(stack)  BY <2>3
      <3> HIDE DEF Indexes
      <3>3. /\ IsFiniteSet({stack[i] : i \in DOMAIN stack})
            /\ Cardinality({stack[i] : i \in DOMAIN stack}) = Cardinality(DOMAIN stack)
        BY ONLY <1>9, <3>1, <3>2, InjectiveImage
      <3> QED BY <3>2, <3>3 DEF ToSet
    <2>5. IsFiniteSet(Indexes) /\ Cardinality(Indexes) = Capacity
      BY BrowserAssumption, FS_Interval DEF Indexes
    <2> HIDE DEF kept
    <2>6. ToSet(stack) \cup kept = Indexes /\ ToSet(stack) \cap kept = {}
      BY <1>10, <2>2 DEF kept
    <2>7. Cardinality(Indexes) = Cardinality(ToSet(stack)) + Cardinality(kept)
      BY <2>1, <2>4, <2>6, DisjointUnion
    <2>8. Cardinality(D \ L) \in Nat /\ Capacity \in Nat
      BY <1>1, FS_CardinalityType, BrowserAssumption
    <2>9. Capacity = Len(stack) + Cardinality(D \ L)
      BY <2>1, <2>4, <2>5, <2>7
    <2> HIDE DEF Indexes
    <2> QED BY <2>3, <2>8, <2>9
  <1> QED BY <1>7, <1>9, <1>10, <1>11 DEF AllBut, SlotsOf

(* The nodes `come' get the n slots from the top of the stack. *)
Takes(both, come, ix, stack, n, left, at, fr2, ix2) ==
  /\ both \cap come = {}
  /\ \A x, y \in both : ix[x] = ix[y] => x = y
  /\ \A id \in both : ix[id] \in Indexes
  /\ stack \in Seq(Indexes) /\ IsInjective(stack)
  /\ ToSet(stack) = Indexes \ {ix[id] : id \in both}
  /\ n \in Nat /\ left \in Nat /\ Len(stack) = left + n
  /\ \A id \in come : at[id] \in 1..n
  /\ \A x, y \in come : at[x] = at[y] => x = y
  /\ \A k \in 1..n : \E id \in come : at[id] = k
  /\ fr2 = SubSeq(stack, 1, left)
  /\ DOMAIN ix2 = both \cup come
  /\ \A id \in both : ix2[id] = ix[id]
  /\ \A id \in come : ix2[id] = stack[left + n + 1 - at[id]]

LEMMA TakeSlots ==
  ASSUME NEW both, NEW come, NEW ix, NEW stack, NEW n, NEW left, NEW at, NEW fr2, NEW ix2,
         Takes(both, come, ix, stack, n, left, at, fr2, ix2)
  PROVE  Exact(ix2, fr2, both \cup come)
  <1>0. /\ n \in Nat /\ left \in Nat /\ stack \in Seq(Indexes) /\ Len(stack) = left + n
        /\ \A id \in come : at[id] \in 1..n
    BY DEF Takes
  <1>1. DOMAIN stack = 1..(left + n)  BY <1>0
  <1>2. \A i, j \in 1..(left + n) : stack[i] = stack[j] => i = j
    BY <1>1 DEF IsInjective, Takes
  <1>3. \A i \in 1..(left + n) : stack[i] \in Indexes /\ \A id \in both : stack[i] # ix[id]
    <2>1. \A i \in 1..(left + n) : stack[i] \in ToSet(stack)  BY <1>1 DEF ToSet
    <2>2. ToSet(stack) = Indexes \ {ix[id] : id \in both}  BY DEF Takes
    <2> QED BY <2>1, <2>2
  <1>4. ASSUME NEW id \in come
        PROVE  \E j \in 1..(left + n) :
                 j > left /\ j = left + n + 1 - at[id] /\ ix2[id] = stack[j]
    <2>1. at[id] \in 1..n /\ ix2[id] = stack[left + n + 1 - at[id]]  BY DEF Takes
    <2>2. left + n + 1 - at[id] \in 1..(left + n) /\ left + n + 1 - at[id] > left
      BY <1>0, <2>1
    <2> QED BY <2>1, <2>2
  <1>5. /\ fr2 = [i \in 1..left |-> stack[i]]
        /\ \A i \in 1..left : i \in 1..(left + n)
    BY <1>0, <1>1 DEF Takes
  <1>6. DOMAIN fr2 = 1..left /\ \A i \in 1..left : fr2[i] = stack[i]  BY <1>5
  <1>7. fr2 \in Seq(Indexes)  BY <1>0, <1>3, <1>5
  <1>8. IsInjective(fr2)
    <2> SUFFICES ASSUME NEW i \in 1..left, NEW j \in 1..left, fr2[i] = fr2[j]  PROVE i = j
      BY <1>6 DEF IsInjective
    <2> QED BY <1>2, <1>5, <1>6
  <1>9. ToSet(fr2) = {stack[i] : i \in 1..left}
    <2>1. ToSet(fr2) = {fr2[i] : i \in DOMAIN fr2}  BY DEF ToSet
    <2> QED BY <1>6, <2>1
  <1>10. IsInjective(ix2)
    <2> SUFFICES ASSUME NEW x \in both \cup come, NEW y \in both \cup come, ix2[x] = ix2[y]
                 PROVE  x = y
      BY DEF IsInjective, Takes
    <2>1. CASE x \in both /\ y \in both  BY <2>1 DEF Takes
    <2>2. ASSUME NEW a \in both, NEW b \in come, ix2[a] = ix2[b]  PROVE FALSE
      <3>1. PICK j \in 1..(left + n) : ix2[b] = stack[j]  BY <1>4
      <3> QED BY <1>3, <2>2, <3>1 DEF Takes
    <2>3. CASE x \in come /\ y \in come
      <3>1. PICK j \in 1..(left + n) : j = left + n + 1 - at[x] /\ ix2[x] = stack[j]
        BY <1>4, <2>3
      <3>2. PICK k \in 1..(left + n) : k = left + n + 1 - at[y] /\ ix2[y] = stack[k]
        BY <1>4, <2>3
      <3>3. j = k  BY <1>2, <3>1, <3>2
      <3>4. at[x] \in 1..n /\ at[y] \in 1..n  BY <1>0, <2>3
      <3>5. at[x] = at[y]  BY <1>0, <3>1, <3>2, <3>3, <3>4
      <3> QED BY <2>3, <3>5 DEF Takes
    <2> QED BY <2>1, <2>2, <2>3
  <1>11. \A id \in both \cup come : ix2[id] \in Indexes /\ ix2[id] \notin ToSet(fr2)
    <2>1. ASSUME NEW id \in both  PROVE ix2[id] \in Indexes /\ ix2[id] \notin ToSet(fr2)
      <3>1. ix2[id] = ix[id] /\ ix[id] \in Indexes  BY DEF Takes
      <3>2. ASSUME ix2[id] \in ToSet(fr2)  PROVE FALSE
        <4>1. PICK i \in 1..left : ix2[id] = stack[i]  BY <1>9, <3>2
        <4> QED BY <1>3, <1>5, <3>1, <4>1
      <3> QED BY <3>1, <3>2
    <2>2. ASSUME NEW id \in come  PROVE ix2[id] \in Indexes /\ ix2[id] \notin ToSet(fr2)
      <3>1. PICK j \in 1..(left + n) : j > left /\ ix2[id] = stack[j]  BY <1>4
      <3>2. ASSUME ix2[id] \in ToSet(fr2)  PROVE FALSE
        <4>1. PICK i \in 1..left : ix2[id] = stack[i]  BY <1>9, <3>2
        <4>2. i = j  BY <1>2, <1>5, <3>1, <4>1
        <4> QED BY <1>0, <3>1, <4>2
      <3> QED BY <1>3, <3>1, <3>2
    <2> QED BY <2>1, <2>2
  <1>12. ASSUME NEW x \in Indexes, x \notin ToSet(fr2)
         PROVE  \E id \in both \cup come : x = ix2[id]
    <2>1. CASE x \notin ToSet(stack)
      <3>1. PICK id \in both : x = ix[id]  BY <1>12, <2>1 DEF Takes
      <3> QED BY <3>1 DEF Takes
    <2>2. CASE x \in ToSet(stack)
      <3>1. PICK j \in 1..(left + n) : x = stack[j]  BY <1>1, <2>2 DEF ToSet
      <3>2. j \notin 1..left  BY <1>9, <1>12, <3>1
      <3>3. left + n + 1 - j \in 1..n  BY <1>0, <3>2
      <3>4. PICK id \in come : at[id] = left + n + 1 - j  BY <3>3 DEF Takes
      <3>5. PICK k \in 1..(left + n) : k = left + n + 1 - at[id] /\ ix2[id] = stack[k]
        BY <1>4
      <3>6. k = j  BY <1>0, <3>4, <3>5
      <3> QED BY <3>1, <3>5, <3>6
    <2> QED BY <2>1, <2>2
  <1>13. {ix2[id] : id \in both \cup come} = Indexes \ ToSet(fr2)  BY <1>11, <1>12
  <1> QED BY <1>7, <1>8, <1>10, <1>13 DEF Exact, Takes

(* ChangePool, of any pool. *)
StackOf(ix, fr, out) == fr \o [k \in DOMAIN out |-> ix[out[k]]]

NewFree(ix, fr, out, in) ==
  SubSeq(StackOf(ix, fr, out), 1, Len(StackOf(ix, fr, out)) - Len(in))

NewIndex(ix, fr, D, D2, out, in) ==
  [id \in D2 |->
     IF id \in D THEN ix[id]
     ELSE StackOf(ix, fr, out)[Len(StackOf(ix, fr, out)) + 1
                                 - (CHOOSE k \in DOMAIN in : in[k] = id)]]

Swap(ix, fr, D, D2, out, in) ==
  /\ D \in SUBSET NodeIds /\ D2 \in SUBSET NodeIds
  /\ Exact(ix, fr, D) /\ Cardinality(D2) <= Capacity
  /\ out \in SetToSeqs(D \ D2) /\ in \in SetToSeqs(D2 \ D)

(* A pass or a frame: slots of the nodes that go are given back, then those  *)
(* that come take theirs from the stack, which has enough of them.          *)
LEMMA PoolStaysExact ==
  ASSUME NEW ix, NEW fr, NEW D, NEW D2, NEW out, NEW in, Swap(ix, fr, D, D2, out, in)
  PROVE  /\ Exact(NewIndex(ix, fr, D, D2, out, in), NewFree(ix, fr, out, in), D2)
         /\ \A id \in D \cap D2 : NewIndex(ix, fr, D, D2, out, in)[id] = ix[id]
  <1> DEFINE stack == fr \o [k \in DOMAIN out |-> ix[out[k]]]
             n == Len(in)
             left == Len(stack) - n
             at == [id \in D2 \ D |-> CHOOSE k \in DOMAIN in : in[k] = id]
             ix2 == [id \in D2 |->
                      IF id \in D THEN ix[id]
                      ELSE stack[Len(stack) + 1 - (CHOOSE k \in DOMAIN in : in[k] = id)]]
  <1>0. /\ D \in SUBSET NodeIds /\ D2 \in SUBSET NodeIds
        /\ Exact(ix, fr, D) /\ Cardinality(D2) <= Capacity
        /\ out \in SetToSeqs(D \ D2) /\ in \in SetToSeqs(D2 \ D)
    BY DEF Swap
  <1> USE <1>0
  <1>1. IsFiniteSet(D \cap D2) /\ IsFiniteSet(D2 \ D)
    <2>1. D \cap D2 \in SUBSET NodeIds /\ D2 \ D \in SUBSET NodeIds  OBVIOUS
    <2> QED BY <2>1, BrowserAssumption, FS_Subset
  <1>2. /\ stack \in Seq(Indexes) /\ IsInjective(stack)
        /\ ToSet(stack) = Indexes \ {ix[id] : id \in D \cap D2}
        /\ Len(stack) = Capacity - Cardinality(D \cap D2)
    <2> DEFINE L == D \ D2
               back == [k \in DOMAIN out |-> ix[out[k]]]
               t == stack
    <2>1. L \in SUBSET D /\ D \ L = D \cap D2 /\ out \in SetToSeqs(L)  OBVIOUS
    <2>2. t = fr \o back /\ DOMAIN back = DOMAIN out /\ \A k \in DOMAIN out : back[k] = ix[out[k]]
      OBVIOUS
    <2>3. back \in Seq(Indexes)
      <3>1. L \in SUBSET NodeIds  OBVIOUS
      <3>2. IsFiniteSet(L)  BY <3>1, BrowserAssumption, FS_Subset
      <3> HIDE DEF L
      <3>3. /\ Cardinality(L) \in Nat /\ out \in Seq(L) /\ DOMAIN out = 1..Cardinality(L)
        BY ONLY <2>1, <3>2, OrderFacts
      <3>4. \A k \in 1..Cardinality(L) : out[k] \in L  BY <3>3
      <3>5. \A id \in L : ix[id] \in Indexes  BY <2>1 DEF Exact
      <3>6. back \in [1..Cardinality(L) -> Indexes]  BY <3>3, <3>4, <3>5
      <3> QED BY <3>3, <3>6
    <2> HIDE DEF L, t, back
    <2>4. GivesBack(D, ix, fr, L, out, back, t)  BY <2>1, <2>2, <2>3 DEF GivesBack
    <2>5. AllBut(t, ix, D \ L)  BY ONLY <2>4, GiveBack
    <2> QED BY <2>1, <2>5 DEF AllBut, t, SlotsOf
  <1> HIDE DEF stack
  <1>3. /\ Cardinality(D2 \ D) \in Nat /\ n = Cardinality(D2 \ D) /\ DOMAIN in = 1..n
        /\ in \in Seq(D2 \ D) /\ IsInjective(in)
        /\ \A x \in D2 \ D : \E k \in DOMAIN in : in[k] = x
    <2> DEFINE come == D2 \ D
    <2>1. IsFiniteSet(come) /\ in \in SetToSeqs(come)  BY <1>1
    <2> HIDE DEF come
    <2>2. /\ Cardinality(come) \in Nat /\ in \in Seq(come)
          /\ Len(in) = Cardinality(come) /\ DOMAIN in = 1..Cardinality(come)
          /\ IsInjective(in) /\ \A x \in come : \E k \in DOMAIN in : in[k] = x
      BY ONLY <2>1, OrderFacts
    <2> QED BY <2>2 DEF come
  <1>4. left \in Nat /\ n \in Nat /\ Len(stack) = left + n
    <2>1. (D \cap D2) \cap (D2 \ D) = {} /\ (D \cap D2) \cup (D2 \ D) = D2  OBVIOUS
    <2>2. Cardinality(D2) = Cardinality(D \cap D2) + Cardinality(D2 \ D)
      BY <1>1, <2>1, DisjointUnion
    <2>3. Cardinality(D \cap D2) \in Nat /\ Capacity \in Nat
      BY <1>1, FS_CardinalityType, BrowserAssumption
    <2>4. Len(stack) \in Nat  BY <1>2
    <2> HIDE DEF n
    <2> QED BY <1>2, <1>3, <2>2, <2>3, <2>4
  <1>5. \A id \in D2 \ D : at[id] \in 1..n /\ in[at[id]] = id
    BY <1>3
  <1>6. \A k \in 1..n : in[k] \in D2 \ D /\ at[in[k]] = k
    <2> SUFFICES ASSUME NEW k \in 1..n  PROVE in[k] \in D2 \ D /\ at[in[k]] = k
      OBVIOUS
    <2>1. in[k] \in D2 \ D  BY <1>3
    <2>2. at[in[k]] \in 1..n /\ in[at[in[k]]] = in[k]  BY <1>5, <2>1
    <2> HIDE DEF at
    <2> QED BY <1>3, <2>1, <2>2 DEF IsInjective
  <1>7. /\ DOMAIN ix2 = D2
        /\ \A id \in D \cap D2 : ix2[id] = ix[id]
        /\ \A id \in D2 \ D : ix2[id] = stack[Len(stack) + 1 - at[id]]
    OBVIOUS
  <1>9. at \in [D2 \ D -> 1..n]  BY <1>5
  <1>10. /\ \A x, y \in D \cap D2 : ix[x] = ix[y] => x = y
         /\ \A id \in D \cap D2 : ix[id] \in Indexes
    BY DEF Exact, IsInjective
  <1> DEFINE both == D \cap D2
             come == D2 \ D
  <1>11. both \cap come = {} /\ both \cup come = D2 /\ DOMAIN ix2 = both \cup come
    BY <1>7
  <1> HIDE DEF n, left, at, ix2
  <1>12. \A id \in come : ix2[id] = stack[left + n + 1 - at[id]]
    BY <1>4, <1>7
  <1>13. \A x, y \in come : at[x] = at[y] => x = y  BY <1>5
  <1>14. \A k \in 1..n : \E id \in come : at[id] = k  BY <1>6
  <1>15. /\ stack \in Seq(Indexes) /\ IsInjective(stack)
         /\ ToSet(stack) = Indexes \ {ix[id] : id \in both}
         /\ \A id \in come : at[id] \in 1..n
         /\ \A id \in both : ix2[id] = ix[id]
    BY <1>2, <1>7, <1>9
  <1> HIDE DEF both, come
  <1> DEFINE fr2 == SubSeq(stack, 1, left)
  <1>16. Takes(both, come, ix, stack, n, left, at, fr2, ix2)
    <2>1. fr2 = SubSeq(stack, 1, left)  OBVIOUS
    <2>2. /\ \A x, y \in both : ix[x] = ix[y] => x = y
          /\ \A id \in both : ix[id] \in Indexes
      BY <1>10 DEF both
    <2> HIDE DEF fr2
    <2> QED BY ONLY <1>4, <1>11, <1>12, <1>13, <1>14, <1>15, <2>1, <2>2 DEF Takes
  <1>17. Exact(ix2, fr2, both \cup come)  BY <1>16, TakeSlots
  <1>18. Exact(ix2, fr2, D2) /\ \A id \in D \cap D2 : ix2[id] = ix[id]
    BY <1>7, <1>11, <1>17
  <1> QED BY <1>18 DEF ix2, fr2, left, n, stack, StackOf, NewFree, NewIndex

-----------------------------------------------------------------------------

OwnInstance(i) == i.of \in DOMAIN index /\ i.at = index[i.of] /\ i.mesh = Mesh(i.of)

(* LightsAreOwn, with the slots counted by the nodes that are drawn. *)
PoolInv ==
  /\ Exact(index, free, DOMAIN nodes)
  /\ \A i \in instances : OwnInstance(i)

LEMMA PoolInvInit == PageInit => PoolInv
  <1> SUFFICES ASSUME PageInit  PROVE PoolInv
    OBVIOUS
  <1>1. /\ index = <<>> /\ nodes = <<>> /\ instances = {}
        /\ free = [i \in 1..Capacity |-> Capacity - i]
    BY DEF PageInit, Init
  <1>2. Capacity \in Nat  BY BrowserAssumption
  <1>3. \A i \in 1..Capacity : Capacity - i \in Indexes  BY <1>2 DEF Indexes
  <1>4. free \in Seq(Indexes)  BY <1>1, <1>2, <1>3
  <1>5. IsInjective(free)
    <2> SUFFICES ASSUME NEW i \in 1..Capacity, NEW j \in 1..Capacity, free[i] = free[j]  PROVE i = j
      BY <1>1 DEF IsInjective
    <2> QED BY <1>1, <1>2
  <1>6. ToSet(free) = Indexes
    <2>1. \A j \in Indexes : Capacity - j \in 1..Capacity /\ j = Capacity - (Capacity - j)
      BY <1>2 DEF Indexes
    <2>2. DOMAIN free = 1..Capacity /\ \A i \in 1..Capacity : free[i] = Capacity - i  BY <1>1
    <2>3. ToSet(free) = {free[i] : i \in 1..Capacity}  BY <2>2 DEF ToSet
    <2>4. ToSet(free) \subseteq Indexes  BY <1>3, <2>2, <2>3
    <2>5. Indexes \subseteq ToSet(free)  BY <2>1, <2>2, <2>3
    <2> QED BY <2>4, <2>5
  <1>7. DOMAIN index = {} /\ DOMAIN nodes = {}  BY <1>1
  <1>8. IsInjective(index) /\ {index[id] : id \in DOMAIN nodes} = {}
    BY <1>7 DEF IsInjective
  <1>9. Exact(index, free, DOMAIN nodes)
    BY <1>4, <1>5, <1>6, <1>7, <1>8 DEF Exact
  <1> QED BY <1>1, <1>9 DEF PoolInv

(* The slots after a pass or a frame: those of the nodes that stay are the   *)
(* same.                                                                    *)
LEMMA ChangePoolKeeps ==
  ASSUME SlotInv, SlotInv', PoolInv, ChangePool
  PROVE  /\ Exact(index, free, DOMAIN nodes)'
         /\ \A id \in DOMAIN nodes \cap DOMAIN nodes' : index'[id] = index[id]
  <1>1. /\ DOMAIN nodes \in SUBSET NodeIds /\ DOMAIN nodes' \in SUBSET NodeIds
        /\ Cardinality(DOMAIN nodes') <= Capacity
    BY DEF SlotInv, SlotTypes, NodesReported
  <1>2. Exact(index, free, DOMAIN nodes)  BY DEF PoolInv
  <1>3. PICK out \in SetToSeqs(DOMAIN nodes \ DOMAIN nodes'),
             in \in SetToSeqs(DOMAIN nodes' \ DOMAIN nodes) :
          /\ free' = NewFree(index, free, out, in)
          /\ index' = NewIndex(index, free, DOMAIN nodes, DOMAIN nodes', out, in)
    BY Zenon DEF ChangePool, NewFree, NewIndex, StackOf
  <1>4. Swap(index, free, DOMAIN nodes, DOMAIN nodes', out, in)  BY <1>1, <1>2, <1>3 DEF Swap
  <1>5. /\ Exact(index', free', DOMAIN nodes')
        /\ \A id \in DOMAIN nodes \cap DOMAIN nodes' : index'[id] = index[id]
    BY <1>3, <1>4, PoolStaysExact
  <1> QED BY <1>5 DEF Exact

(* What is left in the meshes belongs to nodes that stay. *)
LEMMA ErasedKeeps ==
  ASSUME SlotInv, SlotInv', PoolInv, ChangePool, NEW i \in Erased(GivenBack)
  PROVE  i.of \in DOMAIN index' /\ i.at = index'[i.of] /\ i.mesh = Mesh(i.of)
  <1>1. DOMAIN index = DOMAIN nodes /\ DOMAIN index' = DOMAIN nodes'
    BY ChangePoolKeeps DEF PoolInv, Exact
  <1>2. OwnInstance(i)  BY DEF PoolInv, Erased
  <1>3. i.of \in DOMAIN nodes'
    <2> SUFFICES ASSUME i.of \notin DOMAIN nodes'  PROVE FALSE
      OBVIOUS
    <2>1. index[i.of] \in GivenBack  BY <1>1, <1>2 DEF OwnInstance, GivenBack
    <2> QED BY <1>2, <2>1 DEF OwnInstance, Erased
  <1> QED BY <1>1, <1>2, <1>3, ChangePoolKeeps DEF OwnInstance

LEMMA PoolInvNext == SlotInv /\ SlotInv' /\ PoolInv /\ [PageNext]_pageVars => PoolInv'
  <1> SUFFICES ASSUME SlotInv, SlotInv', PoolInv, [PageNext]_pageVars  PROVE PoolInv'
    OBVIOUS
  <1>1. CASE Animate
    <2>1. ChangePool  BY <1>1 DEF Animate
    <2>2. PICK hide : instances' = Updated(Erased(GivenBack), hide)  BY <1>1 DEF Animate
    <2>3. Exact(index, free, DOMAIN nodes)'  BY <2>1, ChangePoolKeeps
    <2>4. ASSUME NEW i \in instances'  PROVE OwnInstance(i)'
      <3>1. CASE i \in Erased(GivenBack)  BY <2>1, <3>1, ErasedKeeps DEF OwnInstance
      <3>2. CASE i \notin Erased(GivenBack)
        <4>1. PICK id \in DOMAIN index' : i = [mesh |-> Mesh(id), at |-> index'[id], of |-> id]
          BY <2>2, <3>2 DEF Updated
        <4> QED BY <4>1 DEF OwnInstance
      <3> QED BY <3>1, <3>2
    <2> QED BY <2>3, <2>4 DEF PoolInv
  <1>2. CASE SwitchGrouping /\ ChangePool /\ instances' = Erased(GivenBack)
    <2>1. Exact(index, free, DOMAIN nodes)'  BY <1>2, ChangePoolKeeps
    <2>2. \A i \in instances' : OwnInstance(i)'  BY <1>2, ErasedKeeps DEF OwnInstance
    <2> QED BY <2>1, <2>2 DEF PoolInv
  <1>3. CASE UNCHANGED pool /\ nodes' = nodes
    BY <1>3 DEF pool, PoolInv, Exact, OwnInstance
  <1>4. CASE Message
    <2>1. UNCHANGED pool /\ nodes' = nodes
      BY <1>4 DEF Message, ReceiveSnapshot, ReceiveTick, Disconnect, slots
    <2> QED BY <1>3, <2>1
  <1>5. CASE ChangeFilters
    <2>1. \/ SwitchGrouping /\ ChangePool /\ instances' = Erased(GivenBack)
          \/ UNCHANGED pool /\ nodes' = nodes
      BY <1>5 DEF ChangeFilters, RefreshRates
    <2> QED BY <1>2, <1>3, <2>1
  <1>6. CASE PointerLeaves \/ Click \/ Close \/ Navigate \/ UNCHANGED pageVars
    <2>1. UNCHANGED pool /\ nodes' = nodes
      BY <1>6 DEF PointerLeaves, Click, Close, Navigate, Select, RefreshRates, pageVars, vars, slots
    <2> QED BY <1>3, <2>1
  <1> QED BY <1>1, <1>4, <1>5, <1>6 DEF PageNext

(* A step of the page is one of the browser, or leaves it alone. *)
LEMMA PageStepIsBrowsers == [PageNext]_pageVars => [Next]_vars
  BY DEF PageNext, Message, Animate, ChangeFilters, PointerLeaves, Click, Close, Navigate, Select, pageVars, Next

LEMMA PoolInvAlways == PageSpec => [](BrowserInv /\ SlotInv /\ PoolInv)
  <1>1. PageInit => BrowserInv /\ SlotInv /\ PoolInv
    BY BrowserInvInit, SlotInvInit, PoolInvInit DEF PageInit
  <1>2. BrowserInv /\ SlotInv /\ PoolInv /\ [PageNext]_pageVars
          => (BrowserInv /\ SlotInv /\ PoolInv)'
    BY PageStepIsBrowsers, BrowserInvNext, SlotInvNext, PoolInvNext
  <1> QED BY <1>1, <1>2, PTL DEF PageSpec

(* Passes and frames hand slots on in any order: a slot is free or one       *)
(* node's, and whoever points at a light gets the node that is drawn there   *)
(* (nodes.ts:117, :142-158, :236-242).                                      *)
THEOREM LightsAlwaysOwn == PageSpec => []LightsAreOwn
  <1>1. PoolInv => LightsAreOwn
    BY DEF PoolInv, Exact, Indexes, OwnInstance, LightsAreOwn
  <1> QED BY <1>1, PoolInvAlways, PTL

=============================================================================
