------------------------------ MODULE MCFlows ------------------------------
(***************************************************************************)
(* Small inputs for FlowGraph and FlowGraphFeed.  Two pods talk to each    *)
(* other and to a machine that is first known by its address and later by  *)
(* its name, taught either by the machine's own flow or by the peer list.  *)
(***************************************************************************)
EXTENDS EndpointKey, TLC

NoEndpoint == [nil |-> FALSE, ns |-> "", kind |-> "", workload |-> "", base |-> "",
               pod |-> "", reserved |-> <<>>, cidr |-> ""]

Pod(name)       == [NoEndpoint EXCEPT !.ns = "shop", !.pod = name]
Host            == [NoEndpoint EXCEPT !.reserved = <<"kube-apiserver", "host">>]
RemoteNode      == [NoEndpoint EXCEPT !.reserved = <<"remote-node">>]

Web    == [ep |-> Pod("web"), names |-> <<>>, ip |-> "10.0.0.1"]
Api    == [ep |-> Pod("api"), names |-> <<>>, ip |-> "10.0.0.2"]
Remote == [ep |-> RemoteNode, names |-> <<>>, ip |-> "192.168.0.2"]
AlsoM2 == [ep |-> Host, names |-> <<>>, ip |-> "192.168.0.3"]
HostM2 == [ep |-> Host, names |-> <<>>, ip |-> "192.168.0.2"]

Request == [reply |-> FALSE, verdict |-> "FORWARDED", src |-> Web, dst |-> Api,
            direction |-> "EGRESS", observer |-> "m1",
            l4 |-> [proto |-> "TCP", port |-> 80], detail |-> FALSE]

(* A conversation of two pods, seen from both machines, and conversations  *)
(* with a machine in both directions, by its address and by its name.      *)
MixedFlows ==
  {Request,
   [Request EXCEPT !.reply = TRUE],
   [Request EXCEPT !.observer = "m2", !.verdict = "DROPPED", !.detail = TRUE],
   [Request EXCEPT !.dst = Remote],
   [Request EXCEPT !.src = Remote, !.dst = Web, !.direction = "INGRESS"],
   [Request EXCEPT !.src = HostM2, !.dst = Web, !.observer = "m2",
                   !.l4 = [proto |-> "ICMPv4", port |-> 8]],
   [Request EXCEPT !.src = AlsoM2, !.dst = Remote, !.observer = "m2"]}

(* One conversation of pods and one with a machine. *)
FewFlows == {Request, [Request EXCEPT !.dst = Remote]}

MCNames ==
  {"", "unknown", "ip", "reserved", "world", "node", "host", "remote-node", "Deployment",
   "Pod", "Namespace", "kube-apiserver", "shop", "web", "api", "m1", "m2", "10.0.0.1",
   "10.0.0.2", "192.168.0.2", "192.168.0.3", "EGRESS", "INGRESS", "FORWARDED", "DROPPED"}

NoPeers == {}
NamingPeers == {"192.168.0.2" :> "m2"}

=============================================================================
