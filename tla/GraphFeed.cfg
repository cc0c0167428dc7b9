SPECIFICATION FairFeedSpec
CONSTANTS
  Names <- MCNames
  Flows <- MixedFlows
  PeerLists <- NamingPeers
  Retention = 1
  MaxFlows = 3
  MaxTime = 3
  Lag = 1
  Skew = 0
INVARIANTS TypeOK EdgeCountersExact MachineIsMostSeen EndpointsExist DeltaWellFormed
           NamedAddressHasNoAnchor NothingLost
PROPERTIES FeedImplementsFeed EventuallyForgotten
