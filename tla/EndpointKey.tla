---------------------------- MODULE EndpointKey ----------------------------
(***************************************************************************)
(* How one side of a flow becomes a vertex of the graph, and a flow's      *)
(* transport a part of the edge (internal/graph/key.go).  Everything here  *)
(* is a pure function; the one side effect of endpointKey in the code, the *)
(* machine it learns, is the separate operator Learned.                    *)
(*                                                                         *)
(* A side of a flow is a record                                            *)
(*   [ep: endpoint, names: DNS names, ip: address]                         *)
(* and an endpoint is a record                                             *)
(*   [nil, ns, kind, workload, base, pod, reserved, cidr]                  *)
(* with "" for an absent string, `reserved' the reserved: labels in label  *)
(* order, and `base' the workload name without its pod-template hash (the  *)
(* workload name itself when stripHash finds none).                        *)
(***************************************************************************)
EXTENDS Integers, Sequences

CONSTANT Names   \* the strings: names, kinds, labels and addresses

ASSUME NamesAssumption ==
  {"", "unknown", "ip", "reserved", "world", "node", "host", "remote-node",
   "Deployment", "Pod", "Namespace"} \subseteq Names

ReservedNamespace == "reserved"

NodeKey(ns, kind, name) == [ns |-> ns, kind |-> kind, name |-> name]

EdgeKey(src, dst, l4) == [src |-> src, dst |-> dst, proto |-> l4.proto, port |-> l4.port]

(* The key of an address that no machine or identity claims. *)
UnknownKey(ip) == NodeKey("unknown", "ip", ip)

(* The anchor of a machine that is only known by its address. *)
AddressAnchor(ip) == NodeKey(ReservedNamespace, "remote-node", ip)

(* The anchor of a machine known by name. *)
MachineAnchor(name) == NodeKey(ReservedNamespace, "node", name)

-----------------------------------------------------------------------------

(* The map the code calls workloadKinds; a kind outside it is kept. *)
DisplayKind(kind) == IF kind = "ReplicaSet" THEN "Deployment" ELSE kind

WorkloadKey(ep) ==
  IF ep.workload # ""
    THEN NodeKey(ep.ns, DisplayKind(ep.kind),
                 IF ep.kind = "ReplicaSet" THEN ep.base ELSE ep.workload)
    ELSE IF ep.pod # "" THEN NodeKey(ep.ns, "Pod", ep.pod)
                        ELSE NodeKey(ep.ns, "Namespace", ep.ns)

(* The loop over the labels keeps one of the highest reservedRank: host,    *)
(* else remote-node.  The others rank equal, and since the loop's test is   *)
(* >=, the last of them is kept.                                            *)
Reserved(labels) ==
  LET Carries(label) == \E i \in DOMAIN labels : labels[i] = label
  IN  IF Carries("host") THEN "host"
      ELSE IF Carries("remote-node") THEN "remote-node"
      ELSE IF labels = <<>> THEN ""
      ELSE labels[Len(labels)]

WorldName(ep, names) ==
  IF names # <<>> THEN names[1] ELSE IF ep.cidr # "" THEN ep.cidr ELSE "world"

ReservedKey(ep, names, ip, observer, nodeIPs) ==
  LET reserved == Reserved(ep.reserved)
  IN  CASE reserved = "" ->
             IF ep.cidr # "" THEN NodeKey(ReservedNamespace, "world", ep.cidr)
                             ELSE UnknownKey(ip)
        [] reserved \in {"world", "world-ipv4", "world-ipv6"} ->
             NodeKey(ReservedNamespace, "world", WorldName(ep, names))
        [] reserved = "host" ->
             IF observer # "" THEN MachineAnchor(observer)
                              ELSE NodeKey(ReservedNamespace, "host", "host")
        [] reserved = "remote-node" ->
             IF ip \in DOMAIN nodeIPs THEN MachineAnchor(nodeIPs[ip])
             ELSE AddressAnchor(IF ip # "" THEN ip ELSE "remote-node")
        [] OTHER -> NodeKey(ReservedNamespace, reserved, reserved)

EndpointKey(side, observer, nodeIPs) ==
  IF side.ep.nil THEN UnknownKey(side.ip)
  ELSE IF side.ep.ns # "" THEN WorkloadKey(side.ep)
  ELSE ReservedKey(side.ep, side.names, side.ip, observer, nodeIPs)

(* The address-to-machine pairs endpointKey hands to learnMachine for one  *)
(* side: the observer's own host, and nothing for any other endpoint.      *)
Learned(side, observer) ==
  LET own == /\ ~side.ep.nil
             /\ side.ep.ns = ""
             /\ Reserved(side.ep.reserved) = "host"
             /\ observer # ""
  IN  [ip \in (IF own THEN {side.ip} ELSE {}) |-> observer]

L4 == [proto: {"TCP", "UDP", "SCTP", "ICMPv4", "ICMPv6", "other"}, port: Nat]

(* Mutant: ICMP keeps its version. *)
L4Key_Versioned(l4) ==
  IF l4.proto = "other" THEN [proto |-> "L3", port |-> 0] ELSE l4

(* The protocol and destination port of the conversation, the ICMP type in *)
(* place of the port for ICMP.                                             *)
L4Key(l4) ==
  CASE l4.proto \in {"TCP", "UDP", "SCTP"} -> l4
    [] l4.proto \in {"ICMPv4", "ICMPv6"}   -> [proto |-> "ICMP", port |-> l4.port]
    [] OTHER                               -> [proto |-> "L3", port |-> 0]

=============================================================================
