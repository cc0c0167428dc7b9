SPECIFICATION JoinSpec
CONSTANTS
  Names <- MCNames
  Flows <- FewFlows
  PeerLists <- NoPeers
  Retention = 1
  MaxFlows = 2
  MaxTime = 2
  Lag = 0
  Skew = 0
INVARIANT JoinCountsExactly
