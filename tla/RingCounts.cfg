SPECIFICATION RingSpec
CONSTANTS
  Retention = 3
  Lag = 1
  Skew = 1
  MaxNow = 6
  MaxFlows = 2
CHECK_DEADLOCK FALSE
INVARIANTS SnapshotExact PageExact
