SPECIFICATION PageSpec
CONSTANTS
  NodeIds <- MCNodeIds
  EdgeIds <- MCEdgeIds
  Src <- MCSrc
  Dst <- MCDst
  Machines = {m1}
  NoMachine = none
  Kind <- MCKind
  Namespace <- MCNamespace
  Rank <- MCRank
  Anchor <- MCAnchor
  Placeable = {}
  Shapes <- MCShapes
  MaxWorld = 1
  Capacity = 2
  Widths = 1
  BatchCapacity = 1
  NoPick = nothing
  a = a
  b = b
  ab = ab
  m1 = m1
  prod = prod
INVARIANTS PanelFollowsSelection EmphasisOwned LightsAreOwn
