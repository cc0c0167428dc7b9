SPECIFICATION FairSpec
CONSTANTS
  FlowTime <- PairedTimes
  MaxBackoff = 2
  MaxFailures = 3
INVARIANT NothingSkipped
PROPERTIES RepeatsOnlyTheLast AllDelivered
