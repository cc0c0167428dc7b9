------------------------------- MODULE MCPage -------------------------------
(***************************************************************************)
(* Page on a pod, the ingress and the arc between them.                    *)
(***************************************************************************)
EXTENDS Page, TLC

CONSTANTS a, b, ab, m1, prod

MCNodeIds == {a, b}
MCEdgeIds == {ab}
MCSrc == ab :> a
MCDst == ab :> b
MCKind == (a :> "workload") @@ (b :> "ingress")
MCNamespace == a :> prod
MCAnchor == <<>>
MCShapes == {<<{}, {}>>, <<{b}, {}>>, <<{a, b}, {ab}>>}
MCRank == (a :> 1) @@ (b :> 2) @@ (m1 :> 3) @@ (prod :> 4)

=============================================================================
