SPECIFICATION FairSpec
CONSTANTS
  MaxBuffer = 2
  MaxTicks = 6
  MaxBreaks = 3
INVARIANTS NothingMissed TwiceOnlyAcrossConnections LacksOnlyDropped
PROPERTY CatchesUp
