SPECIFICATION FairSpec
CONSTANTS
  Machines = {w1, w2}
  MaxChanges = 3
  MaxStreams = 2
PROPERTY SettlesOnTruth
