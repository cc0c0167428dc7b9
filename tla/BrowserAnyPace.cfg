SPECIFICATION Spec
CONSTANTS
  NodeIds <- MCNodeIds
  EdgeIds <- MCEdgeIds
  Src <- MCSrc
  Dst <- MCDst
  Machines <- MCMachines
  NoMachine = none
  Kind <- MCKind
  Namespace <- MCNamespace
  Rank <- MCRank
  Anchor <- MCAnchor
  MaxWorld = 1
  Placeable <- MCPlaceable
  Shapes <- MCShapes
  Capacity = 2
  Widths = 2
  BatchCapacity = 1
  a = a
  b = b
  w = w
  ab = ab
  bw = bw
  m1 = m1
  other = other
INVARIANTS StoreFollowsServer NothingUndrawn ArrangedAsGrouped ArcsEndOnLights
