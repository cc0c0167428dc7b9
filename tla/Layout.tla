------------------------------- MODULE Layout -------------------------------
(***************************************************************************)
(* Where the lights stand (web/src/layout.ts).  Workloads are grouped on   *)
(* platforms, by namespace or by machine; the platforms form a ring in the *)
(* order of their names, a workload's place on its platform follows from   *)
(* its rank among the ids there, and the reserved entities stand outside.  *)
(*                                                                         *)
(* A place is the numbers its coordinates are computed from; the sines,    *)
(* radii and square roots are left out.                                    *)
(***************************************************************************)
EXTENDS GraphState, FiniteSets

CONSTANTS
  Kind,        \* of a node id: "workload", "world", "machine" or a reserved entity's
  Namespace,   \* of a workload
  Rank,        \* the alphabetical order of ids, namespaces and machines
  MaxWorld     \* maxWorld, 24: external names that get a place of their own

Unplaced == "unplaced"

Position(x, S) == Cardinality({y \in S : Rank[y] < Rank[x]})

OfKind(nodes, kind) == {id \in DOMAIN nodes : Kind[id] = kind}

(* groupOf: a workload whose machine is not known is parked. *)
GroupOf(nodes, id, by) ==
  IF by = "namespace" THEN Namespace[id]
  ELSE IF nodes[id].machine = NoMachine THEN Unplaced ELSE nodes[id].machine

Members(nodes, g, by) ==
  {id \in OfKind(nodes, "workload") : GroupOf(nodes, id, by) = g}

Groups(nodes, by) == {GroupOf(nodes, id, by) : id \in OfKind(nodes, "workload")}

(* Along the ring, the unplaced last. *)
RingPosition(nodes, g, by) ==
  IF g = Unplaced THEN Cardinality(Groups(nodes, by)) - 1
  ELSE Position(g, Groups(nodes, by) \ {Unplaced})

(* A platform's place on the ring, and its rank k among n. *)
OnPlatform(nodes, id, by) ==
  LET g == GroupOf(nodes, id, by)
      S == Members(nodes, g, by)
  IN  [at |-> "platform",
       ring |-> RingPosition(nodes, g, by), platforms |-> Cardinality(Groups(nodes, by)),
       k |-> Position(id, S), n |-> Cardinality(S)]

FixedAngles == {"ingress", "kube-apiserver"}

Entities(nodes) ==
  {id \in DOMAIN nodes : Kind[id] \notin {"workload", "world", "machine"}}

(* The machines fan out at the back, external names in front; those that    *)
(* are too many share one place.  Some of the entities have an angle of     *)
(* their own, the others the one of their rank.                             *)
OutsideTheRing(nodes, id) ==
  LET S == OfKind(nodes, Kind[id])
      k == Position(id, S)
      n == Cardinality(S)
  IN  CASE Kind[id] = "machine"     -> [at |-> "back", k |-> k, n |-> n]
        [] Kind[id] = "world"       -> IF k >= MaxWorld THEN [at |-> "crowd"]
                                       ELSE [at |-> "front", k |-> k,
                                             n |-> IF n < MaxWorld THEN n ELSE MaxWorld]
        [] Kind[id] \in FixedAngles -> [at |-> Kind[id]]
        [] OTHER                    -> [at |-> "side", k |-> Position(id, Entities(nodes))]

(* rebuild: the same for the same nodes, in whatever order they came. *)
Targets(nodes, by) ==
  [id \in DOMAIN nodes |->
     IF Kind[id] = "workload" THEN OnPlatform(nodes, id, by) ELSE OutsideTheRing(nodes, id)]

=============================================================================
