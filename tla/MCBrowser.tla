----------------------------- MODULE MCBrowser -----------------------------
(***************************************************************************)
(* Browser on two pods and a machine's anchor, in a namespace that has the *)
(* machine's name.                                                         *)
(***************************************************************************)
EXTENDS Browser, TLC

CONSTANTS a, b, w, ab, bw, m1, other

MCNodeIds == {a, b, w}
MCEdgeIds == {ab, bw}
MCSrc == (ab :> a) @@ (bw :> b)
MCDst == (ab :> b) @@ (bw :> w)
MCMachines == {m1}
MCKind == (a :> "workload") @@ (b :> "workload") @@ (w :> "machine")
MCNamespace == (a :> m1) @@ (b :> other)
MCAnchor == w :> m1
MCPlaceable == {b}
MCShapes ==
  {<<{w}, {}>>, <<{a, w}, {}>>, <<{b, w}, {bw}>>, <<{a, b, w}, {bw}>>, <<{a, b, w}, {ab}>>,
   <<{a, b, w}, {ab, bw}>>}
MCRank == (a :> 1) @@ (b :> 2) @@ (w :> 3) @@ (m1 :> 4) @@ (other :> 5)

=============================================================================
